----------------------------- MODULE AttemptProofs -----------------------------
(***************************************************************************)
(* The reservation and publication of attempts (AttemptSlot, first) and    *)
(* the driver of one attempt (ExactAttempt, second).                       *)
(*                                                                         *)
(* For any invocations, slots, paths and readers and any number of power   *)
(* losses: the types, one execution per slot, what a reader accepts, and   *)
(* that the ledger and the attempt directories implement SlotContract.     *)
(* The invariant has a part for each invocation (its marker is on disk     *)
(* from the moment it may execute, and stays), for each directory (who     *)
(* made it, and how far that one must have come for what is in it) and for *)
(* each reader (while the directory is closed, it is what it saw first).   *)
(*                                                                         *)
(* For any number of requests of each role and any control cases: what the *)
(* driver keeps of its three sessions is a counted prefix of each, the     *)
(* contract accepts it, and the published status is honest.  The invariant *)
(* says that each observation fits its role and what the session really    *)
(* was (Fits), that the kept responses are exactly the counted ones in the *)
(* global order (Kept), and that only a derived status is published.       *)
(***************************************************************************)
EXTENDS AttemptSlot, ExactAttempt, FiniteSetTheorems, TLAPS

Evident == {"running", "write", "sync", "closure", "paths"}
Located == Evident \cup {"made", "issued", "terminal", "record"}
Holding == Located \cup {"persisted"}
Closing == {"sync", "closure", "paths", "terminal", "record", "published", "failed", "crashed"}
Placed  == Located \cup Closing \cup {"unreserved"}
Past    == Evident \cup Closing

MarkerType == [by : Attempts \cup {NoOne}, durable : BOOLEAN]

Owned(p) == marker[SlotOf[p]].by = p /\ marker[SlotOf[p]].durable = TRUE

DirectoryType == [by : Attempts \cup {NoOne}, durable : BOOLEAN, closed : BOOLEAN, whole : 0..MemberCount,
                  part : BOOLEAN, terminal : {"absent", "part", "whole"},
                  disk : {"empty", "closed", "all"}]

AttemptInv(p) ==
    /\ at[p] = "marked" => marker[SlotOf[p]].by = p
    /\ at[p] \in Holding \/ p \in executed => Owned(p)
    /\ at[p] \in Located => directory[DirOf[p]].by = p
    /\ at[p] \in Evident => p \in executed
    /\ p \in executed => at[p] \in Past

DirectoryInv(d) ==
    /\ IF directory[d].by = NoOne
       THEN /\ directory[d].closed = FALSE /\ directory[d].whole = 0
            /\ directory[d].part = FALSE /\ directory[d].disk = "empty"
       ELSE DirOf[directory[d].by] = d /\ at[directory[d].by] \in Placed
    /\ directory[d].part => directory[d].whole < MemberCount
    /\ directory[d].whole > 0 => directory[d].by \in executed
    /\ directory[d].closed \/ directory[d].disk = "closed" => at[directory[d].by] \in Closing
    /\ directory[d].closed => at[directory[d].by] # "record"

Reading == {"members", "again", "final"}

ReaderInv(r) ==
    reading[r].at \in Reading =>
        LET d == reading[r].dir
        IN /\ d \in Dirs /\ directory[d].by # NoOne /\ at[directory[d].by] \in Closing
           /\ reading[r].seen[2] = TRUE
           /\ directory[d].closed => reading[r].seen = Metadata(d)
           /\ directory[d].closed /\ reading[r].at # "members" => Complete(d)

Seen == {<<>>} \cup ((Attempts \cup {NoOne}) \X BOOLEAN \X (0..MemberCount) \X BOOLEAN
                        \X {"absent", "part", "whole"})

ReadingType ==
    reading \in [Readers -> [at : Reading \cup {"idle", "accepted", "rejected"},
                             dir : Dirs \cup {NoOne}, seen : Seen]]

(* Whose name is in a marker is an invocation for that slot. *)
MarkersInv == \A s \in Slots : marker[s].by # NoOne => SlotOf[marker[s].by] = s

Inv ==
    /\ SlotTypeOK /\ ReadingType /\ MarkersInv
    /\ \A p \in Attempts : AttemptInv(p)
    /\ \A d \in Dirs : DirectoryInv(d)
    /\ \A r \in Readers : ReaderInv(r)

-----------------------------------------------------------------------------
LEMMA InitialState == SlotInit => Inv
<1> SUFFICES ASSUME SlotInit PROVE Inv
    OBVIOUS
<1>1. SlotTypeOK /\ ReadingType /\ MarkersInv
    BY SlotAssumption DEF SlotInit, MarkersInv, SlotTypeOK, ReadingType, NoMarker, NoDirectory, Steps, Seen
<1>2. ASSUME NEW p \in Attempts PROVE AttemptInv(p)
    BY <1>1 DEF SlotInit, AttemptInv, Holding, Located, Evident, Past, Closing
<1>3. ASSUME NEW d \in Dirs PROVE DirectoryInv(d)
    BY <1>1, SlotAssumption DEF SlotInit, DirectoryInv, NoDirectory
<1>4. ASSUME NEW r \in Readers PROVE ReaderInv(r)
    BY DEF SlotInit, ReaderInv, Reading
<1>5. QED
    BY <1>1, <1>2, <1>3, <1>4 DEF Inv

(* What a step that only moves an invocation on must respect.              *)
May(old, new) ==
    /\ new \in Steps \ {"marked"}
    /\ new \in Holding => old \in Holding
    /\ new \in Located => old \in Located
    /\ new \in Evident => old \in Evident
    /\ old \in Past => new \in Past
    /\ old \in Placed => new \in Placed
    /\ old \in Closing => new \in Closing \ {"record"}

LEMMA Moving ==
    ASSUME Inv, NEW p \in Attempts, NEW next, May(at[p], next), Goto(p, next),
           UNCHANGED <<marker, directory, executed, reading, losses>>
    PROVE  Inv'
<1>1. SlotTypeOK' /\ ReadingType' /\ MarkersInv'
    BY DEF Inv, MarkersInv, SlotTypeOK, ReadingType, Goto, May
<1>2. at' = [at EXCEPT ![p] = next] /\ at \in [Attempts -> Steps]
    BY DEF Goto, Inv, SlotTypeOK
<1>3. ASSUME NEW q \in Attempts PROVE AttemptInv(q)'
  <2>1. AttemptInv(q)
    BY DEF Inv
  <2>2. CASE q = p
    BY <1>2, <2>1, <2>2 DEF AttemptInv, May, Owned
  <2>3. CASE q # p
    BY <1>2, <2>1, <2>3 DEF AttemptInv, Owned
  <2>4. QED
    BY <2>2, <2>3
<1>4. ASSUME NEW d \in Dirs PROVE DirectoryInv(d)'
    BY <1>2, SlotAssumption DEF Inv, DirectoryInv, May, SlotTypeOK
<1>5. ASSUME NEW r \in Readers PROVE ReaderInv(r)'
    BY <1>2, SlotAssumption DEF Inv, ReaderInv, May, SlotTypeOK, Complete, Metadata
<1>6. QED
    BY <1>1, <1>3, <1>4, <1>5 DEF Inv

LEMMA MishapStep ==
    ASSUME Inv, NEW p \in Attempts,
           Mishap(p) \/ Publish(p) \/ VerifyClosure(p) \/ VerifyNames(p)
    PROVE  Inv'
<1> USE DEF May, Steps, Ended, Past, Placed, Holding, Located, Evident, Closing
<1>1. CASE Refuse(p)
    BY <1>1, Moving DEF Refuse
<1>2. CASE ReserveFails(p)
    BY <1>2, Moving DEF ReserveFails
<1>3. CASE WorkFails(p)
    BY <1>3, Moving DEF WorkFails
<1>4. CASE PublishFails(p)
    BY <1>4, Moving DEF PublishFails
<1>5. CASE FailUnrecorded(p)
    BY <1>5, Moving DEF FailUnrecorded
<1>6. CASE RecordFails(p)
    BY <1>6, Moving DEF RecordFails
<1>7. CASE Crash(p)
    BY <1>7, Moving DEF Crash, Inv, SlotTypeOK
<1>8. CASE Publish(p)
    BY <1>8, Moving DEF Publish
<1>9. CASE VerifyClosure(p)
    BY <1>9, Moving DEF VerifyClosure
<1>10. CASE VerifyNames(p)
    BY <1>10, Moving DEF VerifyNames
<1>11. QED
    BY <1>1, <1>2, <1>3, <1>4, <1>5, <1>6, <1>7, <1>8, <1>9, <1>10 DEF Mishap

-----------------------------------------------------------------------------
(* Reservation and execution *)

(* A step of an invocation that has not begun, or only has its marker.     *)
LEMMA Marking ==
    ASSUME Inv, NEW p \in Attempts, NEW next \in {"marked", "persisted"}, NEW new \in MarkerType,
           at[p] \in {"ready", "marked"}, Goto(p, next),
           marker' = [marker EXCEPT ![SlotOf[p]] = new],
           new.by = p, next = "persisted" => new.durable = TRUE,
           marker[SlotOf[p]].by \in {p, NoOne},
           UNCHANGED <<directory, executed, reading, losses>>
    PROVE  Inv'
<1> DEFINE own == SlotOf[p]
<1>1. /\ at' = [at EXCEPT ![p] = next] /\ at \in [Attempts -> Steps]
      /\ own \in Slots /\ marker \in [Slots -> MarkerType] /\ marker' \in [Slots -> MarkerType]
      /\ marker'[own] = new /\ \A s \in Slots \ {own} : marker'[s] = marker[s]
    BY SlotAssumption DEF Goto, Inv, SlotTypeOK, MarkerType
<1>2. SlotTypeOK' /\ ReadingType' /\ MarkersInv'
    BY <1>1 DEF Inv, MarkersInv, SlotTypeOK, ReadingType, Steps, MarkerType
<1>3. ASSUME NEW q \in Attempts PROVE AttemptInv(q)'
  <2>1. AttemptInv(q) /\ SlotOf[q] \in Slots
    BY SlotAssumption DEF Inv
  <2>2. CASE q = p
    BY <1>1, <2>1, <2>2 DEF AttemptInv, Owned, Holding, Located, Evident, Past, Closing
  <2>3. CASE q # p
    BY <1>1, <2>1, <2>3, SlotAssumption DEF AttemptInv, Owned
  <2>4. QED
    BY <2>2, <2>3
<1>4. ASSUME NEW d \in Dirs PROVE DirectoryInv(d)'
    BY <1>1, SlotAssumption DEF Inv, DirectoryInv, SlotTypeOK, Placed, Located, Evident, Closing
<1>5. ASSUME NEW r \in Readers PROVE ReaderInv(r)'
    BY <1>1 DEF Inv, ReaderInv, SlotTypeOK, Complete, Metadata, Closing
<1>6. QED
    BY <1>2, <1>3, <1>4, <1>5 DEF Inv

LEMMA CreateMarkerStep ==
    ASSUME Inv, NEW p \in Attempts, CreateMarker(p) PROVE Inv'
<1>1. CASE marker[SlotOf[p]].by # NoOne
    BY <1>1, Moving DEF CreateMarker, May, Steps, Ended, Past, Placed, Holding, Located, Evident, Closing
<1>2. CASE marker[SlotOf[p]].by = NoOne
  <2> DEFINE new == [by |-> p, durable |-> FALSE]
  <2>1. new \in MarkerType /\ new.by = p
    BY DEF MarkerType
  <2>2. QED
    BY <1>2, <2>1, Marking DEF CreateMarker
<1>3. QED
    BY <1>1, <1>2

LEMMA PersistMarkerStep ==
    ASSUME Inv, NEW p \in Attempts, PersistMarker(p) PROVE Inv'
<1> DEFINE old == marker[SlotOf[p]]
           new == [old EXCEPT !.durable = TRUE]
<1>1. old \in MarkerType /\ old.by = p /\ SlotOf[p] \in Slots /\ marker \in [Slots -> MarkerType]
    BY SlotAssumption DEF PersistMarker, Inv, SlotTypeOK, MarkerType, AttemptInv
<1>2. new \in MarkerType /\ new.by = p /\ new.durable = TRUE
    BY <1>1 DEF MarkerType
<1>3. marker' = [marker EXCEPT ![SlotOf[p]] = new]
    BY DEF PersistMarker
<1>4. QED
    BY <1>1, <1>2, <1>3, Marking DEF PersistMarker

LEMMA MakeDirectoryStep ==
    ASSUME Inv, NEW p \in Attempts, MakeDirectory(p) PROVE Inv'
<1>1. CASE Own(p).by # NoOne
    BY <1>1, Moving DEF MakeDirectory, May, Steps, Ended, Past, Placed, Holding, Located, Evident, Closing
<1>2. CASE Own(p).by = NoOne
  <2> DEFINE own == DirOf[p]
             new == [NoDirectory EXCEPT !.by = p]
  <2>1. /\ NoDirectory \in DirectoryType
        /\ NoDirectory.closed = FALSE /\ NoDirectory.whole = 0 /\ NoDirectory.part = FALSE
        /\ NoDirectory.disk = "empty"
    BY SlotAssumption DEF NoDirectory, DirectoryType
  <2>2. /\ new \in DirectoryType /\ new.by = p /\ new.closed = FALSE /\ new.whole = 0
        /\ new.part = FALSE /\ new.disk = "empty"
    BY <2>1 DEF DirectoryType
  <2>3. /\ at[p] = "persisted" /\ at' = [at EXCEPT ![p] = "made"] /\ at \in [Attempts -> Steps]
        /\ directory' = [directory EXCEPT ![own] = new]
        /\ UNCHANGED <<marker, executed, reading, losses>>
    BY <1>2 DEF MakeDirectory, Goto, Inv, SlotTypeOK
  <2> HIDE DEF new
  <2>4. /\ own \in Dirs /\ directory[own].by = NoOne /\ directory \in [Dirs -> DirectoryType]
        /\ directory' \in [Dirs -> DirectoryType]
        /\ directory'[own] = new /\ \A d \in Dirs \ {own} : directory'[d] = directory[d]
    BY <1>2, <2>2, <2>3, SlotAssumption DEF Inv, SlotTypeOK, DirectoryType, Own
  <2>5. SlotTypeOK' /\ ReadingType' /\ MarkersInv'
    BY <2>3, <2>4 DEF Inv, MarkersInv, SlotTypeOK, ReadingType, Steps, DirectoryType
  <2>6. ASSUME NEW q \in Attempts PROVE AttemptInv(q)'
    <3>1. AttemptInv(q) /\ DirOf[q] \in Dirs
        BY SlotAssumption DEF Inv
    <3>2. CASE q = p
        BY <2>2, <2>3, <2>4, <3>1, <3>2 DEF AttemptInv, Owned, Holding, Located, Evident, Past, Closing
    <3>3. CASE q # p
        BY <2>3, <2>4, <3>1, <3>3, SlotAssumption DEF AttemptInv, Owned
    <3>4. QED
        BY <3>2, <3>3
  <2>7. ASSUME NEW d \in Dirs PROVE DirectoryInv(d)'
    <3>1. DirectoryInv(d) /\ directory[d] \in DirectoryType
        BY <2>4 DEF Inv
    <3>2. CASE d = own
        BY <2>2, <2>3, <2>4, <3>2, SlotAssumption DEF DirectoryInv, Placed, Located
    <3>3. CASE d # own
        BY <2>2, <2>3, <2>4, <3>1, <3>3, SlotAssumption
        DEF DirectoryInv, Placed, Located, Evident, Closing, DirectoryType
    <3>4. QED
        BY <3>2, <3>3
  <2>8. ASSUME NEW r \in Readers PROVE ReaderInv(r)'
    BY <2>3, <2>4 DEF Inv, ReaderInv, Complete, Metadata, Closing, DirectoryType
  <2>9. QED
    BY <2>5, <2>6, <2>7, <2>8 DEF Inv
<1>3. QED
    BY <1>1, <1>2

(* What a step that changes the invocation's own directory must respect.   *)
Respects(p, new, next) ==
    /\ at[p] \in Located /\ next \in Located \cup {"failed"}
    /\ next \in Evident => at[p] \in Evident
    /\ at[p] \in Past => next \in Past
    /\ at[p] \in Closing => next \in Closing
    /\ new.by = p
    /\ new.part => new.whole < MemberCount
    /\ new.whole > 0 => p \in executed
    /\ new.closed \/ new.disk = "closed" => next \in Closing
    /\ new.closed => next # "record"
    /\ at[p] \in Closing /\ new.closed =>
          /\ Own(p).closed /\ new.whole = Own(p).whole
          /\ new.part = Own(p).part /\ new.terminal = Own(p).terminal

LEMMA Building ==
    ASSUME Inv, NEW p \in Attempts, NEW next, NEW new \in DirectoryType, Respects(p, new, next),
           Goto(p, next), directory' = [directory EXCEPT ![DirOf[p]] = new],
           UNCHANGED <<marker, executed, reading, losses>>
    PROVE  Inv'
<1> DEFINE own == DirOf[p]
<1>1. /\ at' = [at EXCEPT ![p] = next] /\ at \in [Attempts -> Steps] /\ next \in Steps
      /\ at[p] \in Located
    BY DEF Goto, Inv, SlotTypeOK, Respects, Located, Evident, Steps, Ended
<1>2. /\ own \in Dirs /\ directory[own].by = p /\ directory \in [Dirs -> DirectoryType]
      /\ directory' \in [Dirs -> DirectoryType]
      /\ directory'[own] = new /\ \A d \in Dirs \ {own} : directory'[d] = directory[d]
    BY <1>1, SlotAssumption DEF Inv, SlotTypeOK, DirectoryType, AttemptInv
<1>3. SlotTypeOK' /\ ReadingType' /\ MarkersInv'
    BY <1>1, <1>2 DEF Inv, MarkersInv, SlotTypeOK, ReadingType, DirectoryType
<1>4. ASSUME NEW q \in Attempts PROVE AttemptInv(q)'
  <2>1. AttemptInv(q) /\ DirOf[q] \in Dirs
    BY SlotAssumption DEF Inv
  <2>2. CASE q = p
    BY <1>1, <1>2, <2>1, <2>2 DEF AttemptInv, Respects, Owned, Holding, Located, Past, Closing, Evident
  <2>3. CASE q # p
    BY <1>1, <1>2, <2>1, <2>3 DEF AttemptInv, Owned
  <2>4. QED
    BY <2>2, <2>3
<1>5. ASSUME NEW d \in Dirs PROVE DirectoryInv(d)'
  <2>1. DirectoryInv(d) /\ directory[d] \in DirectoryType
    BY <1>2 DEF Inv
  <2>2. CASE d = own
    BY <1>1, <1>2, <2>1, <2>2, SlotAssumption DEF DirectoryInv, Respects, Placed, Closing, Located, Evident
  <2>3. CASE d # own
    <3>1. directory[d].by # p
        BY <1>2, <2>1, <2>3, SlotAssumption DEF DirectoryInv
    <3>2. directory[d].by \in Attempts \cup {NoOne}
        BY <2>1 DEF DirectoryType
    <3>3. QED
        BY <1>1, <1>2, <2>1, <2>3, <3>1, <3>2, SlotAssumption DEF DirectoryInv
  <2>4. QED
    BY <2>2, <2>3
<1>6. ASSUME NEW r \in Readers PROVE ReaderInv(r)'
  <2>1. ReaderInv(r) /\ reading' = reading
    BY DEF Inv
  <2> DEFINE d == reading[r].dir
  <2> SUFFICES ASSUME reading[r].at \in Reading, d \in Dirs
               PROVE  ReaderInv(r)'
    BY <2>1 DEF ReaderInv
  <2>2. CASE d = own
    <3>1. at[p] \in Closing /\ next \in Closing /\ new.by = p /\ p # NoOne
        BY <1>2, <2>1, <2>2, SlotAssumption DEF ReaderInv, Respects
    <3>2. ASSUME new.closed PROVE Metadata(d)' = Metadata(d) /\ directory[d].closed
        BY <1>2, <2>2, <3>1, <3>2 DEF Respects, Metadata, Own, DirectoryType
    <3>3. ASSUME new.closed PROVE Complete(d)' = Complete(d)
        BY <1>2, <2>2, <3>1, <3>3 DEF Respects, Complete, Own
    <3>4. d' = d /\ directory'[d] = new /\ at'[p] = next
        BY <1>1, <1>2, <2>1, <2>2
    <3>5. QED
        BY <2>1, <3>1, <3>2, <3>3, <3>4 DEF ReaderInv
  <2>3. CASE d # own
    <3>1. directory[d].by # p /\ directory[d].by \in Attempts \cup {NoOne}
        BY <1>2, <2>3, SlotAssumption DEF Inv, DirectoryInv, DirectoryType
    <3>2. QED
        BY <1>1, <1>2, <2>1, <2>3, <3>1, SlotAssumption DEF ReaderInv, Metadata, Complete
  <2>4. QED
    BY <2>2, <2>3
<1>7. QED
    BY <1>3, <1>4, <1>5, <1>6 DEF Inv

(* What an invocation knows of its own directory. *)
LEMMA OwnDirectory ==
    ASSUME Inv, NEW p \in Attempts, at[p] \in Located
    PROVE  /\ DirOf[p] \in Dirs /\ Own(p) \in DirectoryType /\ Own(p).by = p
           /\ Own(p).part => Own(p).whole < MemberCount
           /\ Own(p).whole > 0 => p \in executed
           /\ Own(p).closed \/ Own(p).disk = "closed" => at[p] \in Closing
           /\ Own(p).closed => at[p] # "record"
    BY SlotAssumption DEF Inv, AttemptInv, DirectoryInv, SlotTypeOK, DirectoryType, Own

(* The changes of the record, one for each operation. *)
LEMMA Changes ==
    ASSUME NEW old \in DirectoryType
    PROVE  /\ [old EXCEPT !.durable = TRUE] \in DirectoryType
           /\ [old EXCEPT !.part = TRUE] \in DirectoryType
           /\ \A n \in 0..MemberCount : [old EXCEPT !.part = FALSE, !.whole = n] \in DirectoryType
           /\ \A c \in BOOLEAN : [old EXCEPT !.closed = c] \in DirectoryType
           /\ [old EXCEPT !.disk = "closed"] \in DirectoryType
           /\ [old EXCEPT !.terminal = "part"] \in DirectoryType
           /\ [old EXCEPT !.terminal = "whole", !.disk = "all"] \in DirectoryType
    BY DEF DirectoryType

LEMMA PersistDirectoryStep ==
    ASSUME Inv, NEW p \in Attempts, PersistDirectory(p) PROVE Inv'
<1> DEFINE new == [Own(p) EXCEPT !.durable = TRUE]
<1>1. at[p] = "made" /\ Goto(p, "issued") /\ directory' = [directory EXCEPT ![DirOf[p]] = new]
    BY DEF PersistDirectory, Own
<1>2. /\ Own(p) \in DirectoryType /\ Own(p).by = p /\ ~Own(p).closed /\ Own(p).disk # "closed"
      /\ Own(p).part => Own(p).whole < MemberCount
      /\ Own(p).whole > 0 => p \in executed
    BY <1>1, OwnDirectory DEF Located, Closing
<1>3. new \in DirectoryType
    BY <1>2, Changes
<1>4. Respects(p, new, "issued")
    BY <1>1, <1>2, <1>3 DEF DirectoryType, Respects, Located, Closing, Past, Evident
<1>5. QED
    BY <1>1, <1>3, <1>4, Building DEF PersistDirectory

LEMMA ExecuteStep ==
    ASSUME Inv, NEW p \in Attempts, Execute(p) PROVE Inv'
<1>1. /\ at[p] = "issued" /\ at' = [at EXCEPT ![p] = "running"]
      /\ executed' = executed \cup {p}
      /\ UNCHANGED <<marker, directory, reading, losses>>
    BY DEF Execute, Goto
<1>2. SlotTypeOK' /\ ReadingType' /\ MarkersInv'
    BY <1>1 DEF Inv, MarkersInv, SlotTypeOK, ReadingType, Steps
<1>3. ASSUME NEW q \in Attempts PROVE AttemptInv(q)'
    BY <1>1 DEF Inv, AttemptInv, SlotTypeOK, Owned, Holding, Located, Evident, Past, Closing
<1>4. ASSUME NEW d \in Dirs PROVE DirectoryInv(d)'
    BY <1>1, SlotAssumption DEF Inv, DirectoryInv, SlotTypeOK, Placed, Located, Evident, Closing
<1>5. ASSUME NEW r \in Readers PROVE ReaderInv(r)'
    BY <1>1 DEF Inv, ReaderInv, SlotTypeOK, Complete, Metadata, Closing
<1>6. QED
    BY <1>2, <1>3, <1>4, <1>5 DEF Inv

-----------------------------------------------------------------------------
(* Publication and the terminal record *)

LEMMA BeginMemberStep ==
    ASSUME Inv, NEW p \in Attempts, BeginMember(p) PROVE Inv'
<1> DEFINE new == [Own(p) EXCEPT !.part = TRUE]
<1>1. at[p] = "write" /\ Goto(p, "write") /\ directory' = [directory EXCEPT ![DirOf[p]] = new]
    BY DEF BeginMember, Own, Goto, Inv, SlotTypeOK
<1>2. /\ Own(p) \in DirectoryType /\ Own(p).by = p
      /\ Own(p).part => Own(p).whole < MemberCount
      /\ Own(p).whole > 0 => p \in executed
      /\ Own(p).closed \/ Own(p).disk = "closed" => at[p] \in Closing
      /\ Own(p).closed => at[p] # "record"
    BY <1>1, OwnDirectory DEF Located, Evident
<1>3. new \in DirectoryType
    BY <1>2, Changes
<1>4. Respects(p, new, "write")
    BY <1>1, <1>2, <1>3 DEF DirectoryType, Respects, Located, Closing, Past, Evident, BeginMember
<1>5. QED
    BY <1>1, <1>3, <1>4, Building DEF BeginMember

LEMMA FinishMemberStep ==
    ASSUME Inv, NEW p \in Attempts, FinishMember(p) PROVE Inv'
<1> DEFINE new == [Own(p) EXCEPT !.part = FALSE, !.whole = Own(p).whole + 1]
<1>1. at[p] = "write" /\ Goto(p, "write") /\ directory' = [directory EXCEPT ![DirOf[p]] = new]
    BY DEF FinishMember, Own, Goto, Inv, SlotTypeOK
<1>2. /\ Own(p) \in DirectoryType /\ Own(p).by = p
      /\ Own(p).part => Own(p).whole < MemberCount
      /\ Own(p).whole > 0 => p \in executed
      /\ Own(p).closed \/ Own(p).disk = "closed" => at[p] \in Closing
      /\ Own(p).closed => at[p] # "record"
    BY <1>1, OwnDirectory DEF Located, Evident
<1>6. /\ Own(p).whole + 1 \in 0..MemberCount /\ p \in executed
      /\ Own(p).whole + 1 > 0
    BY <1>1, <1>2, SlotAssumption DEF FinishMember, DirectoryType, Inv, AttemptInv, Evident
<1>3. new \in DirectoryType
    BY <1>2, Changes, <1>6
<1>4. Respects(p, new, "write")
    BY <1>1, <1>2, <1>3, <1>6 DEF DirectoryType, Respects, Located, Closing, Past, Evident, FinishMember
<1>5. QED
    BY <1>1, <1>3, <1>4, Building DEF FinishMember

LEMMA CloseDirectoryStep ==
    ASSUME Inv, NEW p \in Attempts, CloseDirectory(p) PROVE Inv'
<1> DEFINE new == [Own(p) EXCEPT !.closed = TRUE]
<1>1. at[p] = "write" /\ Goto(p, "sync") /\ directory' = [directory EXCEPT ![DirOf[p]] = new]
    BY DEF CloseDirectory, Own, Goto, Inv, SlotTypeOK
<1>2. /\ Own(p) \in DirectoryType /\ Own(p).by = p
      /\ Own(p).part => Own(p).whole < MemberCount
      /\ Own(p).whole > 0 => p \in executed
      /\ Own(p).closed \/ Own(p).disk = "closed" => at[p] \in Closing
      /\ Own(p).closed => at[p] # "record"
    BY <1>1, OwnDirectory DEF Located, Evident
<1>3. new \in DirectoryType
    BY <1>2, Changes
<1>4. Respects(p, new, "sync")
    BY <1>1, <1>2, <1>3 DEF DirectoryType, Respects, Located, Closing, Past, Evident, CloseDirectory
<1>5. QED
    BY <1>1, <1>3, <1>4, Building DEF CloseDirectory

LEMMA SyncDirectoryStep ==
    ASSUME Inv, NEW p \in Attempts, SyncDirectory(p) PROVE Inv'
<1> DEFINE new == [Own(p) EXCEPT !.disk = "closed"]
<1>1. at[p] = "sync" /\ Goto(p, "closure") /\ directory' = [directory EXCEPT ![DirOf[p]] = new]
    BY DEF SyncDirectory, Own, Goto, Inv, SlotTypeOK
<1>2. /\ Own(p) \in DirectoryType /\ Own(p).by = p
      /\ Own(p).part => Own(p).whole < MemberCount
      /\ Own(p).whole > 0 => p \in executed
      /\ Own(p).closed \/ Own(p).disk = "closed" => at[p] \in Closing
      /\ Own(p).closed => at[p] # "record"
    BY <1>1, OwnDirectory DEF Located, Evident
<1>3. new \in DirectoryType
    BY <1>2, Changes
<1>4. Respects(p, new, "closure")
    BY <1>1, <1>2, <1>3 DEF DirectoryType, Respects, Located, Closing, Past, Evident, SyncDirectory
<1>5. QED
    BY <1>1, <1>3, <1>4, Building DEF SyncDirectory

LEMMA ReopenPrivateStep ==
    ASSUME Inv, NEW p \in Attempts, ReopenPrivate(p) PROVE Inv'
<1> DEFINE new == [Own(p) EXCEPT !.closed = FALSE]
<1>1. at[p] = "terminal" /\ Goto(p, "record") /\ directory' = [directory EXCEPT ![DirOf[p]] = new]
    BY DEF ReopenPrivate, Own, Goto, Inv, SlotTypeOK
<1>2. /\ Own(p) \in DirectoryType /\ Own(p).by = p
      /\ Own(p).part => Own(p).whole < MemberCount
      /\ Own(p).whole > 0 => p \in executed
      /\ Own(p).closed \/ Own(p).disk = "closed" => at[p] \in Closing
      /\ Own(p).closed => at[p] # "record"
    BY <1>1, OwnDirectory DEF Located, Evident
<1>3. new \in DirectoryType
    BY <1>2, Changes
<1>4. Respects(p, new, "record")
    BY <1>1, <1>2, <1>3 DEF DirectoryType, Respects, Located, Closing, Past, Evident, ReopenPrivate
<1>5. QED
    BY <1>1, <1>3, <1>4, Building DEF ReopenPrivate

LEMMA BeginRecordStep ==
    ASSUME Inv, NEW p \in Attempts, BeginRecord(p) PROVE Inv'
<1> DEFINE new == [Own(p) EXCEPT !.terminal = "part"]
<1>1. at[p] = "record" /\ Goto(p, "record") /\ directory' = [directory EXCEPT ![DirOf[p]] = new]
    BY DEF BeginRecord, Own, Goto, Inv, SlotTypeOK
<1>2. /\ Own(p) \in DirectoryType /\ Own(p).by = p
      /\ Own(p).part => Own(p).whole < MemberCount
      /\ Own(p).whole > 0 => p \in executed
      /\ Own(p).closed \/ Own(p).disk = "closed" => at[p] \in Closing
      /\ Own(p).closed => at[p] # "record"
    BY <1>1, OwnDirectory DEF Located, Evident
<1>3. new \in DirectoryType
    BY <1>2, Changes
<1>4. Respects(p, new, "record")
    BY <1>1, <1>2, <1>3 DEF DirectoryType, Respects, Located, Closing, Past, Evident, BeginRecord
<1>5. QED
    BY <1>1, <1>3, <1>4, Building DEF BeginRecord

LEMMA FinishRecordStep ==
    ASSUME Inv, NEW p \in Attempts, FinishRecord(p) PROVE Inv'
<1> DEFINE new == [Own(p) EXCEPT !.terminal = "whole", !.disk = "all"]
<1>1. at[p] = "record" /\ Goto(p, "failed") /\ directory' = [directory EXCEPT ![DirOf[p]] = new]
    BY DEF FinishRecord, Own, Goto, Inv, SlotTypeOK
<1>2. /\ Own(p) \in DirectoryType /\ Own(p).by = p
      /\ Own(p).part => Own(p).whole < MemberCount
      /\ Own(p).whole > 0 => p \in executed
      /\ Own(p).closed \/ Own(p).disk = "closed" => at[p] \in Closing
      /\ Own(p).closed => at[p] # "record"
    BY <1>1, OwnDirectory DEF Located, Evident
<1>3. new \in DirectoryType
    BY <1>2, Changes
<1>4. Respects(p, new, "failed")
    BY <1>1, <1>2, <1>3 DEF DirectoryType, Respects, Located, Closing, Past, Evident, FinishRecord
<1>5. QED
    BY <1>1, <1>3, <1>4, Building DEF FinishRecord

-----------------------------------------------------------------------------
(* Readers and power losses *)

ReadRecord == [at : Reading \cup {"idle", "accepted", "rejected"}, dir : Dirs \cup {NoOne}, seen : Seen]

(* A step of one reader. *)
LEMMA Reads ==
    ASSUME Inv, NEW r \in Readers, NEW new \in ReadRecord,
           reading' = [reading EXCEPT ![r] = new],
           UNCHANGED <<marker, directory, at, executed, losses>>,
           ReaderInv(r)'
    PROVE  Inv'
<1>1. SlotTypeOK' /\ ReadingType' /\ MarkersInv'
    BY DEF Inv, MarkersInv, SlotTypeOK, ReadingType, ReadRecord
<1>2. ASSUME NEW p \in Attempts PROVE AttemptInv(p)'
    BY DEF Inv, AttemptInv, Owned
<1>3. ASSUME NEW d \in Dirs PROVE DirectoryInv(d)'
    BY DEF Inv, DirectoryInv
<1>4. ASSUME NEW q \in Readers, q # r PROVE ReaderInv(q)'
  <2>1. ReaderInv(q) /\ reading'[q] = reading[q]
    BY <1>4 DEF Inv, SlotTypeOK
  <2>2. QED
    BY <2>1 DEF ReaderInv, Complete, Metadata
<1>5. QED
    BY <1>1, <1>2, <1>3, <1>4 DEF Inv

LEMMA OpenAttemptStep ==
    ASSUME Inv, NEW r \in Readers, NEW d \in Dirs, OpenAttempt(r, d) PROVE Inv'
<1>1. reading \in [Readers -> ReadRecord] /\ reading[r] \in ReadRecord
    BY DEF Inv, ReadingType, ReadRecord
<1>2. CASE directory[d].by # NoOne /\ directory[d].closed
  <2> DEFINE new == [at |-> "members", dir |-> d, seen |-> Metadata(d)]
  <2>1. directory[d] \in DirectoryType
    BY DEF Inv, SlotTypeOK, DirectoryType
  <2>2. Metadata(d) \in Seen /\ Metadata(d)[2] = TRUE
    BY <1>2, <2>1 DEF Metadata, Seen, DirectoryType
  <2>3. new \in ReadRecord /\ reading' = [reading EXCEPT ![r] = new] /\ reading'[r] = new
    BY <1>1, <1>2, <2>2 DEF ReadRecord, Reading, OpenAttempt
  <2>4. Metadata(d)' = Metadata(d) /\ directory' = directory /\ at' = at
    BY DEF OpenAttempt, Metadata
  <2>5. at[directory[d].by] \in Closing
    BY <1>2 DEF Inv, DirectoryInv
  <2>6. ReaderInv(r)'
    BY <1>2, <2>2, <2>3, <2>4, <2>5 DEF ReaderInv
  <2>7. QED
    BY <2>3, <2>6, Reads DEF OpenAttempt
<1>3. CASE ~(directory[d].by # NoOne /\ directory[d].closed)
  <2> DEFINE new == [reading[r] EXCEPT !.at = "rejected"]
  <2>1. new \in ReadRecord /\ reading' = [reading EXCEPT ![r] = new] /\ reading'[r].at = "rejected"
    BY <1>1, <1>3 DEF ReadRecord, OpenAttempt
  <2>2. ReaderInv(r)'
    BY <2>1 DEF ReaderInv, Reading
  <2>3. QED
    BY <2>1, <2>2, Reads DEF OpenAttempt
<1>4. QED
    BY <1>2, <1>3

(* The later steps change only where the reader is.                        *)
LEMMA ReadsOn ==
    ASSUME Inv, NEW r \in Readers, NEW next \in {"again", "final", "accepted", "rejected"},
           reading[r].at \in Reading, Read(r, next),
           next \in Reading /\ directory[reading[r].dir].closed => Complete(reading[r].dir),
           UNCHANGED <<marker, directory, at, executed, losses>>
    PROVE  Inv'
<1> DEFINE new == [reading[r] EXCEPT !.at = next]
<1>1. reading \in [Readers -> ReadRecord] /\ reading[r] \in ReadRecord
    BY DEF Inv, ReadingType, ReadRecord
<1>2. /\ new \in ReadRecord /\ new.at = next /\ new.dir = reading[r].dir /\ new.seen = reading[r].seen
    BY <1>1 DEF ReadRecord, Reading
<1>3. reading' = [reading EXCEPT ![r] = new] /\ reading'[r] = new
    BY <1>1 DEF Read
<1>4. ReaderInv(r)'
    BY <1>2, <1>3 DEF Inv, ReaderInv, Complete, Metadata
<1>5. QED
    BY <1>2, <1>3, <1>4, Reads

LEMMA ReadStepStep ==
    ASSUME Inv, NEW r \in Readers, ReadStep(r) PROVE Inv'
<1>1. CASE \E d \in Dirs : OpenAttempt(r, d)
    BY <1>1, OpenAttemptStep
<1>2. CASE ReadMembers(r)
    BY <1>2, ReadsOn DEF ReadMembers, Reading
<1>3. CASE ReadAgain(r)
    BY <1>3, ReadsOn DEF ReadAgain, Reading
<1>4. CASE FinishRead(r)
    BY <1>4, ReadsOn DEF FinishRead, Reading
<1>5. QED
    BY <1>1, <1>2, <1>3, <1>4 DEF ReadStep

(* What may be there after the power was lost. *)
LEMMA Images ==
    ASSUME NEW old \in DirectoryType, NEW n \in 0..old.whole, NEW closed \in BOOLEAN,
           NEW terminal \in {"absent", "part", "whole"}, NEW new,
           new = Recovered(old, n, closed, terminal)
    PROVE  /\ new \in DirectoryType
           /\ new.by = old.by /\ new.whole = n /\ new.closed = closed /\ new.disk = "all"
           /\ new.part => old.part /\ n = old.whole
<1>1. n \in 0..MemberCount
    BY SlotAssumption DEF DirectoryType
<1>2. QED
    BY <1>1 DEF DirectoryType, Recovered

LEMMA Survivors ==
    ASSUME Inv, NEW d \in Dirs, NEW new \in SurvivingDirectories(d)
    PROVE  /\ new \in DirectoryType
           /\ new.by \in {NoOne, directory[d].by}
           /\ new.by = NoOne =>
                /\ new.closed = FALSE /\ new.whole = 0 /\ new.part = FALSE /\ new.disk = "empty"
           /\ new.part => directory[d].part /\ new.whole = directory[d].whole
           /\ new.whole <= directory[d].whole
           /\ new.closed => directory[d].closed \/ directory[d].disk = "closed"
           /\ new.disk # "closed"
<1> DEFINE old == directory[d]
<1>1. old \in DirectoryType
    BY DEF Inv, SlotTypeOK, DirectoryType
<1>2. /\ NoDirectory \in DirectoryType /\ NoDirectory.by = NoOne
      /\ NoDirectory.closed = FALSE /\ NoDirectory.whole = 0 /\ NoDirectory.part = FALSE
      /\ NoDirectory.disk = "empty"
    BY SlotAssumption DEF NoDirectory, DirectoryType
<1>3. CASE new = NoDirectory
    BY <1>1, <1>2, <1>3 DEF DirectoryType
<1>4. CASE new # NoDirectory
  <2>1. /\ old.by # NoOne
        /\ new \in {Recovered(old, n, closed, terminal) :
                n \in IF old.disk = "empty" THEN 0..old.whole ELSE {old.whole},
                closed \in IF old.disk = "all" THEN {old.closed} ELSE {old.disk = "closed", old.closed},
                terminal \in IF old.disk = "all" THEN {old.terminal} ELSE {"absent", old.terminal}}
    BY <1>4 DEF SurvivingDirectories
  <2>2. PICK n \in IF old.disk = "empty" THEN 0..old.whole ELSE {old.whole},
             closed \in IF old.disk = "all" THEN {old.closed} ELSE {old.disk = "closed", old.closed},
             terminal \in IF old.disk = "all" THEN {old.terminal} ELSE {"absent", old.terminal} :
                new = Recovered(old, n, closed, terminal)
    BY <2>1
  <2>3. /\ n \in 0..old.whole /\ closed \in BOOLEAN /\ terminal \in {"absent", "part", "whole"}
        /\ closed => old.closed \/ old.disk = "closed"
    <3>1. n \in 0..old.whole /\ terminal \in {"absent", "part", "whole"}
        BY <1>1, <2>2, SlotAssumption DEF DirectoryType
    <3>2. old.closed \in BOOLEAN
        BY <1>1 DEF DirectoryType
    <3>3. closed = old.closed \/ closed = (old.disk = "closed")
        BY <2>2, Zenon
    <3>4. closed \in BOOLEAN /\ (closed => old.closed \/ old.disk = "closed")
        BY <3>2, <3>3, Zenon
    <3>5. QED
        BY <3>1, <3>4
  <2>4. /\ new \in DirectoryType
        /\ new.by = old.by /\ new.whole = n /\ new.closed = closed /\ new.disk = "all"
        /\ new.part => old.part /\ n = old.whole
    BY <1>1, <2>2, <2>3, Images
  <2>5. QED
    BY <1>1, <2>1, <2>3, <2>4 DEF DirectoryType
<1>5. QED
    BY <1>3, <1>4

LEMMA PowerLossStep ==
    ASSUME Inv, PowerLoss PROVE Inv'
<1>1. ASSUME NEW d \in Dirs PROVE directory'[d] \in SurvivingDirectories(d)
    BY <1>1 DEF PowerLoss
<1>2. /\ at \in [Attempts -> Steps] /\ directory \in [Dirs -> DirectoryType]
      /\ marker \in [Slots -> MarkerType] /\ executed' = executed
    BY DEF Inv, SlotTypeOK, DirectoryType, MarkerType, PowerLoss
<1>3. ASSUME NEW p \in Attempts
      PROVE  /\ at'[p] = IF at[p] \in Ended \cup {"ready"} THEN at[p] ELSE "crashed"
             /\ at'[p] \in Steps
    BY <1>2 DEF PowerLoss, Steps, Ended
<1>4. ASSUME NEW s \in Slots
      PROVE  /\ marker'[s] \in MarkerType
             /\ marker'[s].by \in {NoOne, marker[s].by}
             /\ marker[s].durable => marker'[s] = marker[s]
  <2>1. marker'[s] \in SurvivingMarkers(s) /\ marker[s] \in MarkerType
    BY <1>2 DEF PowerLoss
  <2>2. NoMarker \in MarkerType /\ NoMarker.by = NoOne
    BY DEF NoMarker, MarkerType
  <2>3. /\ [marker[s] EXCEPT !.durable = marker[s].by # NoOne] \in MarkerType
        /\ [marker[s] EXCEPT !.durable = marker[s].by # NoOne].by = marker[s].by
    BY <2>1 DEF MarkerType
  <2>4. QED
    BY <2>1, <2>2, <2>3 DEF SurvivingMarkers
<1>5. SlotTypeOK' /\ MarkersInv'
  <2>1. directory' \in [Dirs -> DirectoryType]
    BY <1>1, Survivors DEF PowerLoss
  <2>2. marker' \in [Slots -> MarkerType]
    BY <1>4 DEF PowerLoss
  <2>3. at' \in [Attempts -> Steps]
    BY <1>3 DEF PowerLoss
  <2>4. DOMAIN reading' = Readers /\ losses' \in 0..MaxPowerLosses /\ executed' \subseteq Attempts
    BY SlotAssumption DEF PowerLoss, Inv, SlotTypeOK
  <2>5. MarkersInv'
    BY <1>4 DEF MarkersInv, Inv
  <2>6. QED
    BY <2>1, <2>2, <2>3, <2>4, <2>5 DEF SlotTypeOK, DirectoryType, MarkerType
<1>6. ASSUME NEW r \in Readers
      PROVE  reading'[r] \in ReadRecord /\ reading'[r].at \notin Reading
  <2>1. reading[r] \in ReadRecord
    BY DEF Inv, ReadingType, ReadRecord
  <2>2. /\ [reading[r] EXCEPT !.at = "rejected"] \in ReadRecord
        /\ [reading[r] EXCEPT !.at = "rejected"].at = "rejected"
    BY <2>1 DEF ReadRecord
  <2>3. reading'[r] = IF reading[r].at \in {"idle", "accepted"} THEN reading[r]
                      ELSE [reading[r] EXCEPT !.at = "rejected"]
    BY DEF PowerLoss
  <2>4. QED
    BY <2>1, <2>2, <2>3 DEF Reading
<1>7. ReadingType' /\ \A r \in Readers : ReaderInv(r)'
    BY <1>6 DEF ReadingType, ReadRecord, ReaderInv, PowerLoss
<1>8. ASSUME NEW p \in Attempts PROVE AttemptInv(p)'
  <2>1. AttemptInv(p) /\ SlotOf[p] \in Slots
    BY SlotAssumption DEF Inv
  <2>2. at'[p] \notin Holding \cup {"marked"} /\ (at[p] \in Past => at'[p] \in Past)
    BY <1>3 DEF Holding, Located, Evident, Ended, Past, Closing
  <2>3. QED
    BY <1>2, <1>4, <2>1, <2>2 DEF AttemptInv, Owned, Holding, Located
<1>9. ASSUME NEW d \in Dirs PROVE DirectoryInv(d)'
  <2> DEFINE p == directory[d].by
  <2>1. DirectoryInv(d) /\ directory[d] \in DirectoryType
    BY <1>2 DEF Inv
  <2>2. p \in Attempts \cup {NoOne} /\ directory[d].whole \in Nat
    BY <2>1, SlotAssumption DEF DirectoryType
  <2>3. /\ directory'[d] \in DirectoryType
        /\ directory'[d].by \in {NoOne, p}
        /\ directory'[d].by = NoOne =>
             /\ directory'[d].closed = FALSE /\ directory'[d].whole = 0
             /\ directory'[d].part = FALSE /\ directory'[d].disk = "empty"
        /\ directory'[d].part => directory[d].part /\ directory'[d].whole = directory[d].whole
        /\ directory'[d].whole <= directory[d].whole
        /\ directory'[d].closed => directory[d].closed \/ directory[d].disk = "closed"
        /\ directory'[d].disk # "closed"
    BY <1>1, Survivors
  <2>4. CASE directory'[d].by = NoOne
    BY <2>3, <2>4 DEF DirectoryInv
  <2>5. CASE directory'[d].by # NoOne
    <3>1. directory'[d].by = p /\ p \in Attempts /\ DirOf[p] = d
        BY <2>1, <2>2, <2>3, <2>5 DEF DirectoryInv
    <3>2. /\ at[p] \in Placed => at'[p] \in Placed
          /\ at[p] \in Closing => at'[p] \in Closing
          /\ at'[p] # "record"
        BY <1>3, <3>1 DEF Placed, Located, Evident, Closing, Ended
    <3>3. directory'[d].whole > 0 => directory[d].whole > 0
        BY <2>2, <2>3, SlotAssumption DEF DirectoryType
    <3>4. QED
        BY <1>2, <2>1, <2>3, <2>5, <3>1, <3>2, <3>3 DEF DirectoryInv
  <2>6. QED
    BY <2>4, <2>5
<1>10. QED
    BY <1>5, <1>7, <1>8, <1>9 DEF Inv

-----------------------------------------------------------------------------
(* Theorems *)

LEMMA Inductive == Inv /\ [SlotNext]_slotVars => Inv'
<1> SUFFICES ASSUME Inv, [SlotNext]_slotVars PROVE Inv'
    OBVIOUS
<1>1. CASE UNCHANGED slotVars
    BY <1>1 DEF slotVars, Inv, MarkersInv, SlotTypeOK, ReadingType, AttemptInv, Owned, DirectoryInv, ReaderInv,
        Complete, Metadata
<1>2. ASSUME NEW p \in Attempts, Reserve(p) PROVE Inv'
    BY <1>2, CreateMarkerStep, PersistMarkerStep, MakeDirectoryStep, PersistDirectoryStep DEF Reserve
<1>3. ASSUME NEW p \in Attempts, WriteAttempt(p) PROVE Inv'
    BY <1>3, MishapStep, BeginMemberStep, FinishMemberStep, CloseDirectoryStep, SyncDirectoryStep
    DEF WriteAttempt
<1>4. ASSUME NEW p \in Attempts, Record(p) PROVE Inv'
    BY <1>4, ReopenPrivateStep, BeginRecordStep, FinishRecordStep DEF Record
<1>5. CASE PowerLoss
    BY <1>5, PowerLossStep
<1>6. QED
    BY <1>1, <1>2, <1>3, <1>4, <1>5, ExecuteStep, MishapStep, ReadStepStep DEF SlotNext

LEMMA InvariantHolds == SlotSpec => []Inv
<1>1. QED
    BY InitialState, Inductive, PTL DEF SlotSpec

(* Every variable keeps its type; in particular no member is written past  *)
(* the fixed list of names.                                                *)
THEOREM SlotTypes == SlotSpec => []SlotTypeOK
<1>1. Inv => SlotTypeOK
    BY DEF Inv
<1>2. QED
    BY <1>1, InvariantHolds, PTL

(* No two invocations execute a candidate for the same slot, whatever call *)
(* fails, whoever is killed, and whenever the power goes: _reserve_slot_marker. *)
THEOREM SlotsExecuteOnce == SlotSpec => []OneExecutionPerSlot
<1>1. Inv => OneExecutionPerSlot
  <2> SUFFICES ASSUME Inv, NEW p \in executed, NEW q \in executed, SlotOf[p] = SlotOf[q] PROVE p = q
    BY DEF OneExecutionPerSlot
  <2>1. p \in Attempts /\ q \in Attempts
    BY DEF Inv, SlotTypeOK
  <2>2. Owned(p) /\ Owned(q)
    BY <2>1 DEF Inv, AttemptInv
  <2>3. QED
    BY <2>2 DEF Owned
<1>2. QED
    BY <1>1, InvariantHolds, PTL

(* What read_attempt accepts is closed, whole, without a terminal record,  *)
(* and the work of the invocation that owns its slot for good.             *)
THEOREM ReadersAcceptClosedAttempts == SlotSpec => AcceptedAttemptIsClosed
<1> DEFINE Accepts(r) ==
        LET d == reading[r].dir
            p == directory[d].by
        IN /\ directory[d].closed /\ Complete(d)
           /\ p \in executed /\ DirOf[p] = d
           /\ marker[SlotOf[p]] = [by |-> p, durable |-> TRUE]
<1>1. ASSUME Inv, [SlotNext]_slotVars, NEW r \in Readers,
             reading'[r].at = "accepted", reading[r].at # "accepted"
      PROVE  Accepts(r)
  <2>1. reading \in [Readers -> ReadRecord] /\ reading' \in [Readers -> ReadRecord]
    BY <1>1, Inductive DEF Inv, ReadingType, ReadRecord
  <2>2. FinishRead(r) /\ Metadata(reading[r].dir) = reading[r].seen
    <3>1. ASSUME NEW q \in Readers, ReadStep(q)
          PROVE  FinishRead(r) /\ Metadata(reading[r].dir) = reading[r].seen
        BY <1>1, <2>1, <3>1 DEF ReadStep, OpenAttempt, ReadMembers, ReadAgain, FinishRead, Read, ReadRecord
    <3>2. ASSUME PowerLoss PROVE FALSE
        BY <1>1, <2>1, <3>2 DEF PowerLoss, ReadRecord
    <3>3. ASSUME UNCHANGED reading PROVE FALSE
        BY <1>1, <3>3
    <3>4. ASSUME NEW p \in Attempts, Reserve(p) \/ Execute(p) \/ WriteAttempt(p) \/ Record(p) \/ Mishap(p)
          PROVE  UNCHANGED reading
        BY <3>4 DEF Reserve, CreateMarker, PersistMarker, MakeDirectory, PersistDirectory, Execute,
            WriteAttempt, Publish, BeginMember, FinishMember, CloseDirectory, SyncDirectory,
            VerifyClosure, VerifyNames, Record, ReopenPrivate, BeginRecord, FinishRecord, Mishap,
            Refuse, ReserveFails, WorkFails, PublishFails, FailUnrecorded, RecordFails, Crash
    <3>5. QED
        BY <1>1, <3>1, <3>2, <3>3, <3>4 DEF SlotNext, slotVars
  <2> DEFINE d == reading[r].dir
             p == directory[d].by
  <2>3. /\ d \in Dirs /\ p # NoOne /\ reading[r].seen[2] = TRUE /\ directory[d] \in DirectoryType
        /\ directory[d].closed => Complete(d)
    BY <1>1, <2>2 DEF Inv, ReaderInv, FinishRead, Reading, SlotTypeOK, DirectoryType
  <2>4. directory[d].closed = TRUE
    BY <2>2, <2>3 DEF Metadata
  <2>5. p \in Attempts /\ p \in executed /\ DirOf[p] = d
    BY <1>1, <2>3, <2>4, SlotAssumption DEF Inv, DirectoryInv, DirectoryType, Complete
  <2>6. SlotOf[p] \in Slots /\ Owned(p) /\ marker[SlotOf[p]] \in MarkerType
    BY <1>1, <2>5, SlotAssumption DEF Inv, AttemptInv, SlotTypeOK, MarkerType
  <2>7. marker[SlotOf[p]] = [by |-> p, durable |-> TRUE]
    BY <2>6 DEF Owned, MarkerType
  <2>8. QED
    BY <2>3, <2>4, <2>5, <2>7
<1>2. Inv /\ [SlotNext]_slotVars =>
        [\A r \in Readers : reading'[r].at = "accepted" /\ reading[r].at # "accepted" => Accepts(r)]_slotVars
    BY <1>1
<1>3. QED
    BY <1>2, InvariantHolds, PTL DEF SlotSpec, AcceptedAttemptIsClosed

-----------------------------------------------------------------------------
(* Refinement *)

Evidence(d) == IF directory[d].closed /\ Complete(d) THEN directory[d].by ELSE NoOne

Stutters == UNCHANGED Contract!contractVars

LEMMA NothingShows ==
    ASSUME \A s \in Slots : marker'[s].by = marker[s].by, executed' = executed,
           \A d \in Dirs : Evidence(d)' = Evidence(d)
    PROVE  Stutters
    BY DEF Stutters, Contract!contractVars, Evidence

(* A directory that is not closed before and after a step shows nothing.   *)
LEMMA NothingClosed ==
    ASSUME Inv, NEW d \in Dirs, NEW new \in DirectoryType,
           directory' = [directory EXCEPT ![d] = new],
           directory[d].closed = FALSE, new.closed = FALSE,
           marker' = marker, executed' = executed
    PROVE  Stutters
<1>1. \A e \in Dirs : directory'[e] = IF e = d THEN new ELSE directory[e]
    BY DEF Inv, SlotTypeOK
<1>2. ASSUME NEW e \in Dirs PROVE Evidence(e)' = Evidence(e)
    BY <1>1 DEF Evidence, Complete
<1>3. QED
    BY <1>2, NothingShows

LEMMA OpenDirectory ==
    ASSUME Inv, NEW p \in Attempts, at[p] \in {"made", "write", "record"}
    PROVE  /\ DirOf[p] \in Dirs /\ Own(p) \in DirectoryType /\ Own(p) = directory[DirOf[p]]
           /\ Own(p).closed = FALSE /\ Own(p).by = p
<1>1. at[p] \in Located /\ (at[p] \in Closing => at[p] = "record")
    BY DEF Located, Evident, Closing
<1>2. QED
    BY <1>1, OwnDirectory DEF DirectoryType, Own

LEMMA ReserveRefines ==
    ASSUME Inv, NEW p \in Attempts, Reserve(p) PROVE Contract!Next \/ Stutters
<1>1. CASE CreateMarker(p) /\ marker[SlotOf[p]].by = NoOne
  <2> DEFINE owner == [s \in Slots |-> marker[s].by]
  <2>1. SlotOf[p] \in Slots /\ marker \in [Slots -> MarkerType]
    BY SlotAssumption DEF Inv, SlotTypeOK, MarkerType
  <2>2. /\ marker' = [marker EXCEPT ![SlotOf[p]] = [by |-> p, durable |-> FALSE]]
        /\ UNCHANGED <<directory, executed>>
    BY <1>1 DEF CreateMarker
  <2>3. owner' = [owner EXCEPT ![SlotOf[p]] = p] /\ owner[SlotOf[p]] = NoOne
    BY <1>1, <2>1, <2>2
  <2>4. Contract!Consume(p)
    BY <2>2, <2>3 DEF Contract!Consume, Complete
  <2>5. QED
    BY <2>4 DEF Contract!Next
<1>2. CASE CreateMarker(p) /\ marker[SlotOf[p]].by # NoOne
    BY <1>2, NothingShows DEF CreateMarker, Evidence, Complete
<1>3. CASE PersistMarker(p)
  <2>1. marker \in [Slots -> MarkerType] /\ marker' = [marker EXCEPT ![SlotOf[p]].durable = TRUE]
    BY <1>3 DEF Inv, SlotTypeOK, MarkerType, PersistMarker
  <2>2. \A s \in Slots : marker'[s].by = marker[s].by
    BY <2>1, SlotAssumption DEF MarkerType
  <2>3. QED
    BY <1>3, <2>2, NothingShows DEF PersistMarker, Evidence, Complete
<1>4. CASE MakeDirectory(p) /\ Own(p).by = NoOne
  <2> DEFINE new == [NoDirectory EXCEPT !.by = p]
  <2>1. NoDirectory \in DirectoryType /\ NoDirectory.closed = FALSE
    BY SlotAssumption DEF NoDirectory, DirectoryType
  <2>2. new \in DirectoryType /\ new.closed = FALSE
    BY <2>1 DEF DirectoryType
  <2>3. DirOf[p] \in Dirs /\ directory[DirOf[p]].closed = FALSE
    BY <1>4, SlotAssumption DEF Inv, DirectoryInv, Own
  <2>4. QED
    BY <1>4, <2>2, <2>3, NothingClosed DEF MakeDirectory
<1>5. CASE MakeDirectory(p) /\ Own(p).by # NoOne
    BY <1>5, NothingShows DEF MakeDirectory, Evidence, Complete
<1>6. CASE PersistDirectory(p)
  <2> DEFINE new == [Own(p) EXCEPT !.durable = TRUE]
  <2>1. at[p] = "made" /\ directory' = [directory EXCEPT ![DirOf[p]] = new]
    BY <1>6 DEF PersistDirectory, Own
  <2>2. /\ DirOf[p] \in Dirs /\ Own(p) \in DirectoryType /\ Own(p) = directory[DirOf[p]]
        /\ Own(p).closed = FALSE
    BY <2>1, OpenDirectory
  <2>3. new \in DirectoryType /\ new.closed = FALSE
    BY <2>2 DEF DirectoryType
  <2>4. QED
    BY <1>6, <2>1, <2>2, <2>3, NothingClosed DEF PersistDirectory
<1>7. QED
    BY <1>1, <1>2, <1>3, <1>4, <1>5, <1>6 DEF Reserve

LEMMA ExecuteRefines ==
    ASSUME Inv, NEW p \in Attempts, Execute(p) PROVE Contract!Next
<1>1. at[p] = "issued" /\ executed' = executed \cup {p} /\ UNCHANGED <<marker, directory>>
    BY DEF Execute
<1>2. SlotOf[p] \in Slots /\ marker[SlotOf[p]].by = p /\ p \notin executed
    BY <1>1, SlotAssumption DEF Inv, AttemptInv, Owned, Holding, Located, Past, Evident, Closing
<1>3. Contract!Execute(p)
    BY <1>1, <1>2 DEF Contract!Execute, Complete
<1>4. QED
    BY <1>3 DEF Contract!Next

LEMMA WriteRefines ==
    ASSUME Inv, NEW p \in Attempts, WriteAttempt(p) PROVE Contract!Next \/ Stutters
<1>1. CASE Publish(p) \/ VerifyClosure(p) \/ VerifyNames(p)
    BY <1>1, NothingShows DEF Publish, VerifyClosure, VerifyNames, Evidence, Complete
<1>2. CASE BeginMember(p)
  <2> DEFINE new == [Own(p) EXCEPT !.part = TRUE]
  <2>1. at[p] = "write" /\ directory' = [directory EXCEPT ![DirOf[p]] = new]
    BY <1>2 DEF BeginMember, Own
  <2>2. DirOf[p] \in Dirs /\ Own(p) \in DirectoryType /\ directory[DirOf[p]].closed = FALSE /\ Own(p).closed = FALSE
    BY <2>1, OpenDirectory
  <2>3. new \in DirectoryType /\ new.closed = FALSE
    BY <2>2 DEF DirectoryType
  <2>4. QED
    BY <1>2, <2>1, <2>2, <2>3, NothingClosed DEF BeginMember
<1>3. CASE FinishMember(p)
  <2> DEFINE new == [Own(p) EXCEPT !.part = FALSE, !.whole = Own(p).whole + 1]
  <2>1. at[p] = "write" /\ directory' = [directory EXCEPT ![DirOf[p]] = new]
    BY <1>3 DEF FinishMember, Own, Inv, SlotTypeOK
  <2>2. DirOf[p] \in Dirs /\ Own(p) \in DirectoryType /\ directory[DirOf[p]].closed = FALSE /\ Own(p).closed = FALSE
    BY <2>1, OpenDirectory
  <2>3. Own(p).whole + 1 \in 0..MemberCount
    BY <1>3, <2>1, <2>2, OwnDirectory, SlotAssumption DEF FinishMember, DirectoryType, Located, Evident
  <2>4. new \in DirectoryType /\ new.closed = FALSE
    BY <2>2, <2>3 DEF DirectoryType
  <2>5. QED
    BY <1>3, <2>1, <2>2, <2>4, NothingClosed DEF FinishMember
<1>4. CASE CloseDirectory(p)
  <2> DEFINE d == DirOf[p]
             evidence == [e \in Dirs |-> IF directory[e].closed /\ Complete(e) THEN directory[e].by ELSE NoOne]
  <2>1. /\ at[p] = "write" /\ directory' = [directory EXCEPT ![d].closed = TRUE]
        /\ directory \in [Dirs -> DirectoryType] /\ UNCHANGED <<marker, executed>>
    BY <1>4 DEF CloseDirectory, Inv, SlotTypeOK, DirectoryType
  <2>2. d \in Dirs /\ directory[d].closed = FALSE /\ directory[d].by = p
    BY <2>1, OpenDirectory
  <2>3. /\ \A e \in Dirs : e # d => directory'[e] = directory[e]
        /\ directory'[d].by = p
    BY <2>1, <2>2 DEF DirectoryType
  <2>4. evidence' = evidence \/ evidence' = [evidence EXCEPT ![d] = p]
    BY <2>2, <2>3 DEF Complete
  <2>5. p \in executed /\ SlotOf[p] \in Slots /\ marker[SlotOf[p]].by = p /\ evidence[d] = NoOne
    BY <2>1, <2>2, SlotAssumption DEF Inv, AttemptInv, Owned, Holding, Located, Evident
  <2>6. CASE evidence' = evidence
    BY <2>1, <2>6 DEF Stutters, Contract!contractVars
  <2>7. CASE evidence' = [evidence EXCEPT ![d] = p]
    <3>1. Contract!Publish(p)
        BY <2>1, <2>5, <2>7 DEF Contract!Publish
    <3>2. QED
        BY <3>1 DEF Contract!Next
  <2>8. QED
    BY <2>4, <2>6, <2>7
<1>5. CASE SyncDirectory(p)
  <2>1. /\ directory \in [Dirs -> DirectoryType] /\ UNCHANGED <<marker, executed>>
        /\ directory' = [directory EXCEPT ![DirOf[p]].disk = "closed"]
    BY <1>5 DEF SyncDirectory, Inv, SlotTypeOK, DirectoryType
  <2>2. \A e \in Dirs : /\ directory'[e].closed = directory[e].closed /\ directory'[e].by = directory[e].by
                        /\ directory'[e].whole = directory[e].whole /\ directory'[e].part = directory[e].part
                        /\ directory'[e].terminal = directory[e].terminal
    BY <2>1, SlotAssumption DEF DirectoryType
  <2>3. QED
    BY <2>1, <2>2, NothingShows DEF Evidence, Complete
<1>6. QED
    BY <1>1, <1>2, <1>3, <1>4, <1>5 DEF WriteAttempt

LEMMA RecordRefines ==
    ASSUME Inv, NEW p \in Attempts, Record(p) PROVE Contract!Next \/ Stutters
<1>1. CASE ReopenPrivate(p)
  <2> DEFINE d == DirOf[p]
             evidence == [e \in Dirs |-> IF directory[e].closed /\ Complete(e) THEN directory[e].by ELSE NoOne]
  <2>1. /\ at[p] = "terminal" /\ directory' = [directory EXCEPT ![d].closed = FALSE]
        /\ directory \in [Dirs -> DirectoryType] /\ UNCHANGED <<marker, executed>>
    BY <1>1 DEF ReopenPrivate, Inv, SlotTypeOK, DirectoryType
  <2>2. d \in Dirs /\ directory[d].by = p
    BY <2>1, OwnDirectory DEF Located, Own
  <2>3. /\ \A e \in Dirs : e # d => directory'[e] = directory[e]
        /\ directory'[d].closed = FALSE
    BY <2>1, <2>2 DEF DirectoryType
  <2>4. evidence' = [evidence EXCEPT ![d] = NoOne] /\ evidence[d] \in {p, NoOne}
    BY <2>2, <2>3 DEF Complete
  <2>5. CASE evidence[d] = NoOne
    <3>1. evidence' = evidence
        BY <2>4, <2>5
    <3>2. QED
        BY <2>1, <3>1 DEF Stutters, Contract!contractVars
  <2>6. CASE evidence[d] = p
    <3>1. Contract!Withdraw(p)
        BY <2>1, <2>4, <2>6 DEF Contract!Withdraw
    <3>2. QED
        BY <3>1 DEF Contract!Next
  <2>7. QED
    BY <2>4, <2>5, <2>6
<1>2. CASE BeginRecord(p)
  <2> DEFINE new == [Own(p) EXCEPT !.terminal = "part"]
  <2>1. at[p] = "record" /\ directory' = [directory EXCEPT ![DirOf[p]] = new]
    BY <1>2 DEF BeginRecord, Own
  <2>2. DirOf[p] \in Dirs /\ Own(p) \in DirectoryType /\ directory[DirOf[p]].closed = FALSE /\ Own(p).closed = FALSE
    BY <2>1, OpenDirectory
  <2>3. new \in DirectoryType /\ new.closed = FALSE
    BY <2>2 DEF DirectoryType
  <2>4. QED
    BY <1>2, <2>1, <2>2, <2>3, NothingClosed DEF BeginRecord
<1>3. CASE FinishRecord(p)
  <2> DEFINE new == [Own(p) EXCEPT !.terminal = "whole", !.disk = "all"]
  <2>1. at[p] = "record" /\ directory' = [directory EXCEPT ![DirOf[p]] = new]
    BY <1>3 DEF FinishRecord, Own, Inv, SlotTypeOK
  <2>2. DirOf[p] \in Dirs /\ Own(p) \in DirectoryType /\ directory[DirOf[p]].closed = FALSE /\ Own(p).closed = FALSE
    BY <2>1, OpenDirectory
  <2>3. new \in DirectoryType /\ new.closed = FALSE
    BY <2>2 DEF DirectoryType
  <2>4. QED
    BY <1>3, <2>1, <2>2, <2>3, NothingClosed DEF FinishRecord
<1>4. QED
    BY <1>1, <1>2, <1>3 DEF Record

LEMMA PowerLossRefines ==
    ASSUME Inv, PowerLoss PROVE Contract!Next
<1> DEFINE owner == [s \in Slots |-> marker[s].by]
           evidence == [e \in Dirs |-> IF directory[e].closed /\ Complete(e) THEN directory[e].by ELSE NoOne]
<1>1. Inv' /\ executed' = executed
    BY PowerLossStep DEF PowerLoss
<1>2. ASSUME NEW s \in Slots
      PROVE  /\ owner'[s] \in Attempts \cup {NoOne}
             /\ owner'[s] # owner[s] => owner'[s] = NoOne /\ owner[s] \notin executed
  <2>1. marker'[s] \in SurvivingMarkers(s) /\ marker[s] \in MarkerType /\ marker'[s] \in MarkerType
    BY <1>1 DEF PowerLoss, Inv, SlotTypeOK, MarkerType
  <2>2. marker'[s].by \in {NoOne, marker[s].by} /\ (marker[s].durable => marker'[s] = marker[s])
    BY <2>1 DEF SurvivingMarkers, NoMarker, MarkerType
  <2>3. ASSUME marker'[s].by # marker[s].by, marker[s].by \in executed PROVE FALSE
    <3> DEFINE p == marker[s].by
    <3>1. p \in Attempts /\ marker[SlotOf[p]].by = p /\ marker[SlotOf[p]].durable = TRUE /\ p # NoOne
        BY <2>3, SlotAssumption DEF Inv, SlotTypeOK, AttemptInv, Owned
    <3>2. SlotOf[p] = s
        BY <3>1 DEF Inv, MarkersInv
    <3>3. QED
        BY <2>2, <2>3, <3>1, <3>2
  <2>4. QED
    BY <2>1, <2>2, <2>3 DEF MarkerType
<1>3. ASSUME NEW d \in Dirs, evidence'[d] # NoOne
      PROVE  /\ evidence'[d] \in executed /\ evidence[d] \in {NoOne, evidence'[d]}
             /\ DirOf[evidence'[d]] = d /\ owner[SlotOf[evidence'[d]]] = evidence'[d]
  <2> DEFINE p == directory'[d].by
  <2>1. /\ directory'[d].closed /\ Complete(d)' /\ p # NoOne /\ evidence'[d] = p
    BY <1>3
  <2>2. directory'[d] \in SurvivingDirectories(d)
    BY DEF PowerLoss
  <2>3. p = directory[d].by
    BY <2>1, <2>2, Survivors
  <2>4. p \in executed /\ DirOf[p] = d
    BY <1>1, <2>1, SlotAssumption DEF Inv, DirectoryInv, Complete
  <2>5. p \in Attempts /\ SlotOf[p] \in Slots /\ marker[SlotOf[p]].by = p
    BY <2>4, SlotAssumption DEF Inv, SlotTypeOK, AttemptInv, Owned
  <2>6. QED
    BY <2>1, <2>3, <2>4, <2>5
<1>4. owner' \in [Slots -> Attempts \cup {NoOne}] /\ evidence' \in [Dirs -> executed \cup {NoOne}]
    BY <1>2, <1>3
<1>5. Contract!Lose
  <2>1. owner' \in [Slots -> Attempts \cup {NoOne}]
        /\ \A s \in Slots : owner'[s] # owner[s] => owner'[s] = NoOne /\ owner[s] \notin executed
    BY <1>2, <1>4
  <2>2. \A d \in Dirs : evidence'[d] # NoOne =>
            /\ evidence[d] \in {NoOne, evidence'[d]}
            /\ DirOf[evidence'[d]] = d /\ owner[SlotOf[evidence'[d]]] = evidence'[d]
    BY <1>3
  <2>3. QED
    BY <1>1, <1>4, <2>1, <2>2, Zenon DEF Contract!Lose
<1>6. QED
    BY <1>5 DEF Contract!Next

(* The ledger and the attempt directories implement the contract of the    *)
(* slots: every step is one of its steps or is not visible to it.          *)
THEOREM SlotsImplementContract == SlotSpec => ImplementsSlotContract
<1>1. SlotInit => Contract!Init
    BY DEF SlotInit, NoMarker, NoDirectory, Contract!Init
<1>2. Inv /\ [SlotNext]_slotVars => [Contract!Next]_(Contract!contractVars)
  <2> SUFFICES ASSUME Inv, [SlotNext]_slotVars PROVE Contract!Next \/ Stutters
    BY DEF Stutters
  <2>1. CASE UNCHANGED slotVars
    BY <2>1, NothingShows DEF slotVars, Evidence, Complete
  <2>2. ASSUME NEW p \in Attempts, Mishap(p) PROVE Stutters
    BY <2>2, NothingShows DEF Mishap, Refuse, ReserveFails, WorkFails, PublishFails, FailUnrecorded, RecordFails,
        Crash, Evidence, Complete
  <2>3. ASSUME NEW r \in Readers, ReadStep(r) PROVE Stutters
    BY <2>3, NothingShows DEF ReadStep, OpenAttempt, ReadMembers, ReadAgain, FinishRead, Evidence, Complete
  <2>4. QED
    BY <2>1, <2>2, <2>3, ReserveRefines, ExecuteRefines, WriteRefines, RecordRefines, PowerLossRefines
    DEF SlotNext
<1>3. QED
    BY <1>1, <1>2, InvariantHolds, PTL DEF SlotSpec, ImplementsSlotContract, Contract!Spec

-----------------------------------------------------------------------------
(* The driver of one attempt *)

Roles == {ROLE_ORDER[i] : i \in DOMAIN ROLE_ORDER}
CaseStatuses == {"failed", "inconclusive", "supported", "observation"}
Observing == {"prepare", "open", "run", "salvage"}
Deriving == {"adjudicate", "build", "publish"}

Observations ==
    [role : Roles, variant : {"complete-v1", "incomplete-v1"},
     lifecycle : {"none", "clean", "dirty"}, requests : Nat \cup {Absent},
     responses : Nat \cup {Absent}, marked : BOOLEAN,
     status : {"supported", "failed", "inconclusive"}]

(* The verdict on every case, when there is one; a held-out case has no    *)
(* "observation".                                                          *)
Adjudications ==
    {f \in [Cases -> CaseStatuses] :
        \A case \in Cases : case[1] = "held-out" => f[case] # "observation"}

DriverTypes ==
    /\ phase \in Observing \cup Deriving \cup {"ended"} /\ turn \in DOMAIN ROLE_ORDER
    /\ responses \in Seq(Roles \X (Nat \ {0}))
    /\ observations \in Seq(Observations)
    /\ kinds \in Seq({"whole", "short", "bad"}) /\ Len(kinds) = Len(observations)
    /\ adjudications \in Adjudications \cup {<<>>}

(* An observation for every role that had its turn. *)
Turns ==
    /\ Len(observations) <= Len(ROLE_ORDER)
    /\ phase = "prepare" => turn = 1
    /\ phase \in Observing => Len(observations) = turn - 1
    /\ phase \in Deriving => Len(observations) = Len(ROLE_ORDER)

Counted(item) == IF item.responses = Absent THEN 0 ELSE item.responses

(* What an observation says fits its role and what the session really was. *)
Fits(item, kind, role) ==
    /\ item.role = role
    /\ item.requests = Absent <=> item.responses = Absent
    /\ item.requests # Absent => item.requests <= Count(role) /\ item.responses <= item.requests
    /\ item.variant = "complete-v1" =>
        item.requests = Count(role) /\ item.responses = Count(role)
    /\ item.variant = "incomplete-v1" => item.status # "supported"
    /\ kind = "whole" <=> ~Unhealthy(item) /\ ~Short(item)
    /\ kind = "bad" => Unhealthy(item)

Faithful == \A i \in DOMAIN observations : Fits(observations[i], kinds[i], ROLE_ORDER[i])

(* What was kept for adjudication is what the observations count, in the   *)
(* global order.                                                           *)
Held == UNION {{ROLE_ORDER[i]} \X (1..Counted(observations[i])) : i \in DOMAIN observations}
Kept ==
    /\ Received = Held
    /\ \A i, j \in DOMAIN responses : i < j => Before(responses[i], responses[j])

(* A status is published only when everything was derived. *)
Derived ==
    /\ published = "none" <=> phase # "ended"
    /\ phase \in {"build", "publish"} => adjudications \in Adjudications
    /\ published \notin {"none", "recorded", "lost"} =>
        /\ Len(observations) = Len(ROLE_ORDER) /\ adjudications \in Adjudications
        /\ published = DerivedStatus

DriverInv ==
    /\ DriverTypes /\ Turns /\ Faithful
    /\ Kept /\ Derived

-----------------------------------------------------------------------------
(* One session *)

(* What the transport promises of a session that was closed. *)
LEMMA SessionFacts ==
    ASSUME NEW role \in Roles, NEW s \in Sessions(role)
    PROVE  /\ s # Nil
           /\ Count(role) \in Nat \ {0} /\ s.sent \in 0..Count(role)
           /\ Len(s.answers) \in Nat /\ DOMAIN s.answers = 1..Len(s.answers)
           /\ Len(s.answers) \in {s.sent - 1, s.sent}
           /\ \A i \in DOMAIN s.answers : s.answers[i] \in {"valid", "invalid", "wrong"}
           /\ s.trailing \in BOOLEAN /\ s.clean \in BOOLEAN
           /\ s.status \in {"supported", "failed", "inconclusive"}
           /\ s.custody \in {"whole", "missing", "mismatch"}
           /\ s.clean => ~s.trailing /\ s.status # "failed"
           /\ s.observed \in BOOLEAN
           /\ s.status = "supported" => s.clean /\ s.observed
           /\ s.status = "inconclusive" => ~s.observed
           /\ Summary(s) \in ReturnedSessions(Count(role)) /\ s.status = "supported" =>
                Len(s.answers) = Count(role)
<1>1. Count(role) \in Nat \ {0}
  BY AttemptAssumption DEF Count, Roles
<1>2. PICK k \in 0..Count(role) : s.answers \in [1..k -> {"valid", "invalid", "wrong"}]
  BY DEF Sessions
<1>3. k \in Nat /\ s.answers \in Seq({"valid", "invalid", "wrong"}) /\ Len(s.answers) = k
  BY <1>1, <1>2
<1>4. s # Nil
  BY DEF Sessions, Nil
<1>5. s.sent \in 0..Count(role)
  BY DEF Sessions
<1> DEFINE sum == Summary(s)
<1>6. /\ sum.sent = s.sent /\ sum.answered = Len(s.answers) /\ sum.trailing = s.trailing
      /\ sum.status = s.status /\ sum.clean = s.clean
      /\ sum.observed = s.observed
  BY DEF Summary
<1>7. sum \in ClosedSessions(Count(role))
  BY DEF Sessions
<1> HIDE DEF sum
<1>8. /\ sum.answered \in {sum.sent - 1, sum.sent}
      /\ sum.clean => ~sum.trailing /\ sum.status # "failed"
      /\ sum.status = "supported" => sum.clean /\ sum.observed
      /\ sum.status = "inconclusive" => ~sum.observed
      /\ sum \in ReturnedSessions(Count(role)) /\ sum.status = "supported" =>
            sum.answered = Count(role)
  BY <1>7 DEF ClosedSessions, ReturnedSessions
<1>9. /\ s.trailing \in BOOLEAN /\ s.clean \in BOOLEAN /\ s.observed \in BOOLEAN
      /\ s.status \in {"supported", "failed", "inconclusive"}
      /\ s.custody \in {"whole", "missing", "mismatch"}
  BY DEF Sessions
<1> QED BY <1>1, <1>2, <1>3, <1>4, <1>5, <1>6, <1>8, <1>9 DEF sum

(* The validated answers are a prefix; how long it is says whether there   *)
(* was another one.                                                        *)
LEMMA PrefixIsInterval ==
    ASSUME NEW role \in Roles, NEW s \in Sessions(role)
    PROVE  LET k == Cardinality(ValidPrefix(s))
           IN /\ k \in Nat /\ ValidPrefix(s) = 1..k /\ k <= s.sent
              /\ (\A i \in DOMAIN s.answers : s.answers[i] = "valid") => k = Len(s.answers)
<1> DEFINE S == ValidPrefix(s)
           n == Len(s.answers)
           k == Cardinality(S)
<1>1. n \in Nat /\ DOMAIN s.answers = 1..n /\ n <= s.sent /\ s.sent \in Nat
  BY SessionFacts
<1>2. S \subseteq 1..n /\ \A i \in S : 1..i \subseteq S
  BY <1>1 DEF ValidPrefix
<1>3. IsFiniteSet(1..n) /\ Cardinality(1..n) = n
  <2> HIDE DEF n
  <2> QED BY <1>1, FS_Interval
<1>4. IsFiniteSet(S) /\ k \in Nat
  BY <1>2, <1>3, FS_Subset, FS_CardinalityType
<1>5. \A i \in S : i <= k
  <2> TAKE i \in S
  <2>1. i \in Nat /\ Cardinality(1..i) = i
    BY <1>1, <1>2, FS_Interval
  <2>2. Cardinality(1..i) <= k
    BY <1>2, <1>4, FS_Subset
  <2> QED BY <2>1, <2>2
<1>6. S \subseteq 1..k /\ IsFiniteSet(1..k) /\ Cardinality(1..k) = k
  <2> HIDE DEF k, S, n
  <2>1. S \subseteq 1..k
    BY <1>1, <1>2, <1>4, <1>5
  <2>2. IsFiniteSet(1..k) /\ Cardinality(1..k) = k
    BY <1>4, FS_Interval
  <2> QED BY <2>1, <2>2
<1>7. S = 1..k
  BY <1>6, FS_Subset
<1>8. k <= s.sent
  <2>1. k <= n
    BY <1>2, <1>3, FS_Subset
  <2> QED BY <2>1, <1>1, <1>4, SessionFacts
<1>9. ASSUME \A i \in DOMAIN s.answers : s.answers[i] = "valid" PROVE k = n
  <2>1. S = 1..n
    BY <1>1, <1>9 DEF ValidPrefix
  <2> QED BY <2>1, <1>3
<1> QED BY <1>4, <1>7, <1>8, <1>9

LEMMA NthIsItself ==
    ASSUME NEW k \in Nat, NEW n \in 1..k
    PROVE  Nth(1..k, n) = n
<1>1. \A i \in 1..k : Cardinality({j \in 1..k : j < i}) = i - 1
  <2> TAKE i \in 1..k
  <2>1. {j \in 1..k : j < i} = 1..(i - 1)
    OBVIOUS
  <2>2. Cardinality(1..(i - 1)) = i - 1
    BY FS_Interval
  <2> QED BY <2>1, <2>2
<1>2. \A i \in 1..k : Cardinality({j \in 1..k : j < i}) = n - 1 <=> i = n
  BY <1>1
<1> QED BY <1>2 DEF Nth

(* What is kept of a session are the requests of its prefix, in order. *)
LEMMA PairsAreThePrefix ==
    ASSUME NEW role \in Roles, NEW s \in Sessions(role)
    PROVE  Pairs(role, s) = [n \in 1..Cardinality(ValidPrefix(s)) |-> <<role, n>>]
<1> DEFINE k == Cardinality(ValidPrefix(s))
<1>1. k \in Nat /\ ValidPrefix(s) = 1..k
  BY PrefixIsInterval
<1>2. \A n \in 1..k : Nth(ValidPrefix(s), n) = n
  BY <1>1, NthIsItself
<1>3. s # Nil
  BY SessionFacts
<1>4. Pairs(role, s) = [n \in 1..k |-> <<role, Nth(ValidPrefix(s), n)>>]
  BY <1>3 DEF Pairs
<1> QED BY <1>2, <1>4

-----------------------------------------------------------------------------
(* One observation *)

(* What TransportPrefix reads off a session. *)
LEMMA ViewFacts ==
    ASSUME NEW role \in Roles, NEW s \in Sessions(role)
    PROVE  LET k == Cardinality(ValidPrefix(s))
               extra == \E i \in DOMAIN s.answers : s.answers[i] # "valid"
               missing == s.sent < Count(role) \/ k < s.sent
               view == TransportPrefix(role, s)
           IN /\ view.requests = s.sent /\ view.responses = k
              /\ view.marked \in BOOLEAN /\ (view.marked <=> extra \/ s.trailing \/ missing)
              /\ extra \/ s.trailing => view.status = "failed"
              /\ ~extra /\ ~s.trailing /\ missing /\ s.status = "supported" =>
                    view.status = "inconclusive"
              /\ ~extra /\ ~s.trailing /\ ~(missing /\ s.status = "supported") =>
                    view.status = s.status
              /\ ~extra => k = Len(s.answers)
<1> DEFINE k == Cardinality(ValidPrefix(s))
           extra == \E i \in DOMAIN s.answers : s.answers[i] # "valid"
           missing == s.sent < Count(role) \/ k < s.sent
<1>1. s # Nil /\ s.trailing \in BOOLEAN
  BY SessionFacts
<1>2. TransportPrefix(role, s) =
        [requests |-> s.sent, responses |-> k, marked |-> extra \/ s.trailing \/ missing,
         status |-> IF extra \/ s.trailing THEN "failed"
                    ELSE IF missing /\ s.status = "supported" THEN "inconclusive" ELSE s.status]
  BY <1>1 DEF TransportPrefix, View
<1>3. ~extra => k = Len(s.answers)
  BY PrefixIsInterval
<1> HIDE DEF k, extra, missing
<1>4. extra \in BOOLEAN /\ missing \in BOOLEAN
  BY DEF extra, missing
<1>5. LET view == TransportPrefix(role, s)
      IN /\ view.requests = s.sent /\ view.responses = k
         /\ view.marked \in BOOLEAN /\ (view.marked <=> extra \/ s.trailing \/ missing)
         /\ extra \/ s.trailing => view.status = "failed"
         /\ ~extra /\ ~s.trailing /\ missing /\ s.status = "supported" =>
               view.status = "inconclusive"
         /\ ~extra /\ ~s.trailing /\ ~(missing /\ s.status = "supported") =>
               view.status = s.status
  BY <1>1, <1>2, <1>4
<1> QED BY <1>3, <1>5 DEF k, extra, missing

(* The observation of a role whose session ran to its end. *)
LEMMA ReturnedFits ==
    ASSUME NEW role \in Roles, NEW s \in Sessions(role),
           Summary(s) \in ReturnedSessions(Count(role))
    PROVE  LET item == ProcessObservation(role, s)
               kind == Kind(role, s, TRUE)
           IN /\ item \in Observations /\ kind \in {"whole", "short", "bad"}
              /\ Fits(item, kind, role) /\ item.responses = Cardinality(ValidPrefix(s))
<1> DEFINE view == TransportPrefix(role, s)
           k == Cardinality(ValidPrefix(s))
           extra == \E i \in DOMAIN s.answers : s.answers[i] # "valid"
           missing == s.sent < Count(role) \/ k < s.sent
           lacking == s.custody = "missing" \/ ~s.observed
           status == IF s.custody = "mismatch" \/ (lacking /\ view.status = "supported")
                     THEN "failed" ELSE view.status
           complete == /\ s.custody = "whole" /\ s.observed /\ ~view.marked
                       /\ view.requests = Count(role) /\ view.responses = Count(role)
           life == IF s.clean THEN "clean" ELSE "dirty"
           item == ProcessObservation(role, s)
           kind == Kind(role, s, TRUE)
<1>1. /\ s # Nil /\ Count(role) \in Nat \ {0} /\ s.sent \in Nat /\ s.sent <= Count(role)
      /\ s.trailing \in BOOLEAN /\ s.clean \in BOOLEAN
      /\ s.status \in {"supported", "failed", "inconclusive"}
      /\ s.custody \in {"whole", "missing", "mismatch"}
      /\ s.status = "supported" => Len(s.answers) = Count(role)
      /\ s.clean => ~s.trailing /\ s.status # "failed"
      /\ s.observed \in BOOLEAN
      /\ s.status = "supported" => s.clean /\ s.observed
      /\ s.status = "inconclusive" => ~s.observed
  BY SessionFacts
<1>2. k \in Nat /\ k <= s.sent
  BY PrefixIsInterval
<1>3. /\ view.requests = s.sent /\ view.responses = k
      /\ view.marked \in BOOLEAN /\ (view.marked <=> extra \/ s.trailing \/ missing)
      /\ extra \/ s.trailing => view.status = "failed"
      /\ ~extra /\ ~s.trailing /\ missing /\ s.status = "supported" => view.status = "inconclusive"
      /\ ~extra /\ ~s.trailing /\ ~(missing /\ s.status = "supported") => view.status = s.status
      /\ ~extra => k = Len(s.answers)
  BY ViewFacts
<1>4. item = [role |-> role, variant |-> IF complete THEN "complete-v1" ELSE "incomplete-v1",
              lifecycle |-> life, requests |-> view.requests, responses |-> view.responses,
              marked |-> view.marked,
              status |-> IF complete THEN status
                         ELSE IF status = "supported" THEN "inconclusive" ELSE status]
  BY <1>1 DEF ProcessObservation, Incomplete, Lifecycle
<1>5. kind = IF \/ s.status = "failed" \/ s.trailing \/ s.custody = "mismatch" \/ extra
                \/ s.status = "supported" /\ s.custody # "whole"
             THEN "bad"
             ELSE IF s.status = "supported" /\ s.sent = Count(role) THEN "whole" ELSE "short"
  BY <1>1 DEF Kind
<1> HIDE DEF item, kind, view, k, extra
<1>6. view.status \in {"supported", "failed", "inconclusive"}
  BY <1>1, <1>3
<1>7. item \in Observations
  BY <1>1, <1>2, <1>3, <1>4, <1>6 DEF Observations
<1>8. Fits(item, kind, role)
  <2>1. CASE complete
    <3>1. ~extra /\ ~s.trailing /\ ~missing /\ s.custody = "whole" /\ view.status = s.status
      BY <1>1, <1>3, <2>1
    <3> QED BY <1>1, <1>2, <1>3, <1>4, <1>5, <2>1, <3>1 DEF Fits, Unhealthy, Short, Absent
  <2>2. CASE ~complete
    <3>1. kind # "whole"
      BY <1>1, <1>2, <1>3, <1>5, <2>2
    <3>2. ASSUME kind = "bad" PROVE status = "failed" \/ ~s.clean
      <4>1. CASE s.status = "supported" /\ s.custody = "missing" /\ ~extra /\ ~s.trailing
        BY <1>1, <1>2, <1>3, <4>1
      <4> QED BY <1>1, <1>3, <1>5, <3>2, <4>1
    <3>3. item.status = "failed" <=> status = "failed"
      BY <1>4, <2>2
    <3>4. item.variant = "incomplete-v1" /\ item.status # "supported"
      BY <1>4, <2>2
    <3>5. item.role = role /\ item.requests = s.sent /\ item.responses = k /\ item.lifecycle = life
      BY <1>3, <1>4
    <3> HIDE DEF status, complete, life
    <3>6. life = "dirty" <=> ~s.clean
      BY DEF life
    <3> QED BY <1>1, <1>2, <3>1, <3>2, <3>3, <3>4, <3>5, <3>6 DEF Fits, Unhealthy, Short, Absent
  <2> QED BY <2>1, <2>2
<1>9. item.responses = k
  BY <1>3, <1>4
<1>10. kind \in {"whole", "short", "bad"}
  BY <1>5
<1> QED BY <1>7, <1>8, <1>9, <1>10 DEF item, kind, k

(* The observation of a role that raised, of a session or of none. *)
LEMMA SalvagedFits ==
    ASSUME NEW role \in Roles, NEW s \in {Nil} \cup Sessions(role), NEW opened \in BOOLEAN,
           s # Nil => opened
    PROVE  LET item == Salvaged(role, s, opened)
               kind == IF item.status = "failed" THEN "bad" ELSE Kind(role, s, FALSE)
           IN /\ item \in Observations /\ kind \in {"whole", "short", "bad"}
              /\ Fits(item, kind, role)
              /\ item.responses = IF s = Nil THEN Absent ELSE Cardinality(ValidPrefix(s))
<1> DEFINE view == TransportPrefix(role, s)
           doubtful == opened /\ (s = Nil \/ s.custody # "whole")
           status == IF doubtful THEN "failed" ELSE view.status
           life == Lifecycle(s)
           item == Salvaged(role, s, opened)
           kind == IF item.status = "failed" THEN "bad" ELSE Kind(role, s, FALSE)
<1>1. item = [role |-> role, variant |-> "incomplete-v1", lifecycle |-> life,
              requests |-> view.requests, responses |-> view.responses, marked |-> view.marked,
              status |-> IF status = "supported" THEN "inconclusive" ELSE status]
  BY DEF Salvaged, Incomplete
<1>2. CASE s = Nil
  <2>1. view = Unobserved /\ life = "none"
    BY <1>2 DEF TransportPrefix, Lifecycle
  <2>2. kind = IF item.status = "failed" THEN "bad" ELSE "short"
    BY <1>2 DEF Kind
  <2> HIDE DEF kind, item, view, life
  <2>3. item = [role |-> role, variant |-> "incomplete-v1", lifecycle |-> "none",
                requests |-> Absent, responses |-> Absent, marked |-> TRUE,
                status |-> IF opened THEN "failed" ELSE "inconclusive"]
    BY <1>1, <1>2, <2>1 DEF Unobserved
  <2>4. item \in Observations
    BY <2>3 DEF Observations
  <2>5. Fits(item, kind, role)
    BY <2>2, <2>3 DEF Fits, Unhealthy, Short
  <2>6. kind \in {"whole", "short", "bad"} /\ item.responses = Absent
    BY <2>2, <2>3
  <2> QED BY <1>2, <2>4, <2>5, <2>6 DEF kind, item
<1>3. CASE s \in Sessions(role)
  <2> DEFINE k == Cardinality(ValidPrefix(s))
             extra == \E i \in DOMAIN s.answers : s.answers[i] # "valid"
             missing == s.sent < Count(role) \/ k < s.sent
  <2>1. /\ s # Nil /\ Count(role) \in Nat \ {0} /\ s.sent \in Nat /\ s.sent <= Count(role)
        /\ s.trailing \in BOOLEAN /\ s.clean \in BOOLEAN
        /\ s.status \in {"supported", "failed", "inconclusive"}
        /\ s.custody \in {"whole", "missing", "mismatch"}
        /\ s.clean => ~s.trailing /\ s.status # "failed"
        /\ s.status = "supported" => s.clean
    BY <1>3, SessionFacts
  <2>2. k \in Nat /\ k <= s.sent
    BY <1>3, PrefixIsInterval
  <2>3. /\ view.requests = s.sent /\ view.responses = k
        /\ view.marked \in BOOLEAN
        /\ extra \/ s.trailing => view.status = "failed"
        /\ ~extra /\ ~s.trailing /\ missing /\ s.status = "supported" => view.status = "inconclusive"
        /\ ~extra /\ ~s.trailing /\ ~(missing /\ s.status = "supported") => view.status = s.status
    BY <1>3, ViewFacts
  <2>4. Kind(role, s, FALSE) =
            IF \/ s.status = "failed" \/ s.trailing \/ s.custody = "mismatch" \/ extra
               \/ s.status = "supported" /\ s.custody # "whole"
            THEN "bad" ELSE "short"
    BY <2>1 DEF Kind
  <2>5. life = IF s.clean THEN "clean" ELSE "dirty"
    BY <2>1 DEF Lifecycle
  <2> HIDE DEF item, view, k, extra, life
  <2>6. view.status \in {"supported", "failed", "inconclusive"}
    BY <2>1, <2>3
  <2>7. item \in Observations
    BY <1>1, <2>1, <2>2, <2>3, <2>5, <2>6 DEF Observations
  <2>8. Fits(item, kind, role)
    <3>1. kind # "whole"
      BY <2>4
    <3>2. ASSUME kind = "bad" PROVE status = "failed" \/ ~s.clean
      <4>1. CASE item.status = "failed"
        BY <1>1, <4>1
      <4>2. CASE item.status # "failed"
        BY <2>1, <2>3, <2>4, <3>2, <4>2
      <4> QED BY <4>1, <4>2
    <3>3. item.status = "failed" <=> status = "failed"
      BY <1>1
    <3>4. item.variant = "incomplete-v1" /\ item.status # "supported"
      BY <1>1
    <3>5. item.role = role /\ item.requests = s.sent /\ item.responses = k /\ item.lifecycle = life
      BY <1>1, <2>3
    <3> HIDE DEF status, kind
    <3> QED BY <2>1, <2>2, <2>5, <3>1, <3>2, <3>3, <3>4, <3>5 DEF Fits, Unhealthy, Short, Absent
  <2>9. item.responses = k
    BY <1>1, <2>3
  <2>10. kind \in {"whole", "short", "bad"}
    BY <2>4
  <2> HIDE DEF kind
  <2> QED BY <2>1, <2>7, <2>8, <2>9, <2>10 DEF item, kind, k
<1> QED BY <1>2, <1>3

-----------------------------------------------------------------------------
(* The invariant *)

LEMMA RoleFacts ==
    ASSUME DriverInv
    PROVE  /\ Role \in Roles /\ Role = ROLE_ORDER[turn] /\ turn \in 1..3
           /\ DOMAIN ROLE_ORDER = 1..3 /\ Len(ROLE_ORDER) = 3
           /\ \A i, j \in 1..3 : ROLE_ORDER[i] = ROLE_ORDER[j] => i = j
BY DEF DriverInv, DriverTypes, Role, Roles, ROLE_ORDER

(* One observation and its counted prefix more. *)
LEMMA KeepPreservesInv ==
    ASSUME DriverInv, phase \in {"run", "salvage"},
           NEW s \in {Nil} \cup Sessions(Role), NEW item \in Observations,
           NEW kind \in {"whole", "short", "bad"}, Fits(item, kind, Role),
           item.responses = IF s = Nil THEN Absent ELSE Cardinality(ValidPrefix(s)),
           Keep(s, item, kind)
    PROVE  DriverInv'
<1> DEFINE k == Counted(item)
           new == Pairs(Role, s)
           m == turn - 1
<1>1. /\ Role \in Roles /\ Role = ROLE_ORDER[turn] /\ turn \in 1..3
      /\ DOMAIN ROLE_ORDER = 1..3 /\ Len(ROLE_ORDER) = 3
      /\ \A i, j \in 1..3 : ROLE_ORDER[i] = ROLE_ORDER[j] => i = j
  BY RoleFacts
<1>2. /\ Len(observations) = m /\ Len(kinds) = m /\ m \in 0..2
      /\ observations \in Seq(Observations) /\ kinds \in Seq({"whole", "short", "bad"})
      /\ responses \in Seq(Roles \X (Nat \ {0}))
      /\ adjudications \in Adjudications \cup {<<>>}
      /\ published = "none"
  BY <1>1 DEF DriverInv, DriverTypes, Turns, Derived, Observing
<1>3. /\ responses' = responses \o new /\ observations' = Append(observations, item)
      /\ kinds' = Append(kinds, kind)
      /\ turn = 3 => phase' = "adjudicate" /\ turn' = turn
      /\ turn # 3 => phase' = "open" /\ turn' = turn + 1
      /\ adjudications' = adjudications /\ published' = published
  BY <1>1 DEF Keep
<1>4. k \in Nat /\ new = [n \in 1..k |-> <<Role, n>>]
  <2>1. CASE s = Nil
    <3>1. k = 0
      BY <2>1 DEF Counted
    <3>2. new = <<>>
      BY <2>1 DEF Pairs
    <3> QED BY <3>1, <3>2
  <2>2. CASE s \in Sessions(Role)
    <3>1. s # Nil /\ Cardinality(ValidPrefix(s)) \in Nat
      BY <1>1, <2>2, SessionFacts, PrefixIsInterval
    <3>2. k = Cardinality(ValidPrefix(s))
      BY <3>1 DEF Counted, Absent
    <3>3. new = [n \in 1..Cardinality(ValidPrefix(s)) |-> <<Role, n>>]
      BY <1>1, <2>2, PairsAreThePrefix
    <3> HIDE DEF k, new
    <3> QED BY <3>1, <3>2, <3>3
  <2> QED BY <2>1, <2>2
<1> HIDE DEF k, new
<1>5. DriverTypes'
  <2>1. new \in Seq(Roles \X (Nat \ {0}))
    BY <1>1, <1>4
  <2>2. responses' \in Seq(Roles \X (Nat \ {0}))
    BY <1>2, <1>3, <2>1
  <2>3. observations' \in Seq(Observations) /\ kinds' \in Seq({"whole", "short", "bad"})
    BY <1>2, <1>3
  <2>4. Len(kinds') = Len(observations')
    BY <1>2, <1>3
  <2>5. adjudications' \in (Adjudications \cup {<<>>})'
    BY <1>2, <1>3 DEF Adjudications, Cases, Dispatched
  <2>6. phase' \in Observing \cup Deriving \cup {"ended"} /\ turn' \in DOMAIN ROLE_ORDER
    BY <1>1, <1>3 DEF Observing, Deriving
  <2> QED BY <2>2, <2>3, <2>4, <2>5, <2>6 DEF DriverTypes
<1>6. Turns'
  <2>1. Len(observations') = turn
    BY <1>1, <1>2, <1>3
  <2> QED BY <1>1, <1>3, <2>1 DEF Turns, Observing, Deriving
<1>7. Faithful'
  <2> SUFFICES ASSUME NEW i \in DOMAIN observations'
               PROVE  Fits(observations'[i], kinds'[i], ROLE_ORDER[i])
    BY DEF Faithful, Fits, Unhealthy, Short
  <2>1. CASE i = turn
    BY <1>1, <1>2, <1>3, <2>1
  <2>2. CASE i # turn
    <3>1. i \in DOMAIN observations /\ observations'[i] = observations[i] /\ kinds'[i] = kinds[i]
      BY <1>1, <1>2, <1>3, <2>2
    <3> QED BY <3>1 DEF DriverInv, Faithful
  <2> QED BY <2>1, <2>2
<1>8. Kept'
  <2>1. Received' = Received \cup ({Role} \X (1..k))
    <3>1. \A i \in 1..Len(responses) : (responses \o new)[i] = responses[i]
      BY <1>2, <1>4
    <3>2. \A n \in 1..k : (responses \o new)[Len(responses) + n] = <<Role, n>>
      BY <1>2, <1>4
    <3>3. DOMAIN (responses \o new) = 1..(Len(responses) + k) /\ Len(responses) \in Nat
      BY <1>2, <1>4
    <3>4. ASSUME NEW p \in {(responses \o new)[i] : i \in DOMAIN (responses \o new)}
          PROVE  p \in Received \cup ({Role} \X (1..k))
      <4>1. PICK i \in 1..(Len(responses) + k) : p = (responses \o new)[i]
        BY <3>3
      <4>2. CASE i <= Len(responses)
        <5>1. i \in DOMAIN responses /\ p = responses[i]
          BY <1>2, <3>1, <3>3, <4>1, <4>2
        <5> QED BY <5>1 DEF Received
      <4>3. CASE i > Len(responses)
        <5>1. i - Len(responses) \in 1..k /\ Len(responses) + (i - Len(responses)) = i
          BY <1>4, <3>3, <4>3
        <5>2. p = <<Role, i - Len(responses)>>
          BY <3>2, <4>1, <5>1
        <5> QED BY <5>1, <5>2
      <4> QED BY <3>3, <4>2, <4>3
    <3>5. ASSUME NEW p \in Received
          PROVE  p \in {(responses \o new)[i] : i \in DOMAIN (responses \o new)}
      <4>1. PICK i \in DOMAIN responses : p = responses[i]
        BY DEF Received
      <4>2. i \in 1..Len(responses)
        BY <1>2, <4>1
      <4> QED BY <1>4, <3>1, <3>3, <4>1, <4>2
    <3>6. ASSUME NEW p \in {Role} \X (1..k)
          PROVE  p \in {(responses \o new)[i] : i \in DOMAIN (responses \o new)}
      <4>1. PICK n \in 1..k : p = <<Role, n>>
        OBVIOUS
      <4>2. Len(responses) + n \in DOMAIN (responses \o new)
        BY <1>4, <3>3
      <4> QED BY <3>2, <4>1, <4>2
    <3>7. Received' = {(responses \o new)[i] : i \in DOMAIN (responses \o new)}
      BY <1>3 DEF Received
    <3> HIDE DEF Received
    <3> QED BY <3>4, <3>5, <3>6, <3>7
  <2>2. Held' = Held \cup ({Role} \X (1..k))
    <3>1. DOMAIN observations' = DOMAIN observations \cup {turn}
      BY <1>1, <1>2, <1>3
    <3>2. \A i \in DOMAIN observations : observations'[i] = observations[i] /\ i # turn
      BY <1>1, <1>2, <1>3
    <3>3. observations'[turn] = item
      BY <1>1, <1>2, <1>3
    <3>4. Held' = UNION {{ROLE_ORDER[i]} \X (1..Counted(observations'[i])) :
                            i \in DOMAIN observations \cup {turn}}
      BY <3>1 DEF Held, Counted
    <3> DEFINE Block(i) == {ROLE_ORDER[i]} \X (1..Counted(observations'[i]))
               all == UNION {Block(i) : i \in DOMAIN observations \cup {turn}}
               old == UNION {Block(i) : i \in DOMAIN observations}
    <3>5. Block(turn) = {Role} \X (1..k)
      BY <1>1, <3>3 DEF k
    <3>6. Held = old /\ Held' = all
      BY <3>2, <3>4 DEF Held
    <3> HIDE DEF Block
    <3>7. \A p : p \in all <=> \E i \in DOMAIN observations \cup {turn} : p \in Block(i)
      OBVIOUS
    <3>8. \A p : p \in old <=> \E i \in DOMAIN observations : p \in Block(i)
      OBVIOUS
    <3> HIDE DEF all, old
    <3>9. \A p : p \in all <=> p \in old \cup Block(turn)
      BY <3>7, <3>8
    <3>10. all = old \cup Block(turn)
      BY <3>9
    <3> QED BY <3>5, <3>6, <3>10
  <2>3. Received' = Held'
    BY <2>1, <2>2 DEF DriverInv, Kept
  <2>4. ASSUME NEW i \in DOMAIN responses', NEW j \in DOMAIN responses', i < j
        PROVE  Before(responses'[i], responses'[j])
    <3>1. DOMAIN responses' = 1..(Len(responses) + k) /\ Len(responses) \in Nat
      BY <1>2, <1>3, <1>4
    <3>2. CASE j <= Len(responses)
      <4>1. /\ i \in DOMAIN responses /\ j \in DOMAIN responses
            /\ responses'[i] = responses[i] /\ responses'[j] = responses[j]
        BY <1>2, <1>3, <1>4, <2>4, <3>1, <3>2
      <4> QED BY <2>4, <4>1 DEF DriverInv, Kept
    <3>3. CASE j > Len(responses)
      <4>1. j - Len(responses) \in 1..k /\ responses'[j] = <<Role, j - Len(responses)>>
        BY <1>2, <1>3, <1>4, <3>1, <3>3
      <4>2. CASE i <= Len(responses)
        <5>1. i \in DOMAIN responses /\ responses'[i] = responses[i]
          BY <1>2, <1>3, <1>4, <3>1, <4>2
        <5>2. responses[i] \in Held
          BY <5>1 DEF DriverInv, Kept, Received
        <5>3. PICK h \in DOMAIN observations :
                responses[i] \in {ROLE_ORDER[h]} \X (1..Counted(observations[h]))
          BY <5>2 DEF Held
        <5>4. responses[i][1] = ROLE_ORDER[h] /\ h \in 1..3 /\ h < turn
          BY <1>1, <1>2, <5>3
        <5> QED BY <1>1, <4>1, <5>1, <5>4 DEF Before
      <4>3. CASE i > Len(responses)
        <5>1. i - Len(responses) \in 1..k /\ responses'[i] = <<Role, i - Len(responses)>>
          BY <1>2, <1>3, <1>4, <3>1, <4>3
        <5>2. i - Len(responses) < j - Len(responses)
          BY <2>4, <3>1
        <5> QED BY <1>1, <4>1, <5>1, <5>2 DEF Before
      <4> QED BY <3>1, <4>2, <4>3
    <3> QED BY <3>1, <3>2, <3>3
  <2> QED BY <2>3, <2>4 DEF Kept, Before
<1>9. Derived'
  BY <1>1, <1>2, <1>3 DEF Derived
<1> QED BY <1>5, <1>6, <1>7, <1>8, <1>9 DEF DriverInv

(* Everything but the phase and what is published stays. *)
LEMMA FrameKeepsInv ==
    ASSUME DriverInv, UNCHANGED <<turn, responses, observations, kinds>>
    PROVE  /\ Faithful' /\ Kept'
           /\ UNCHANGED adjudications /\ phase' \in Observing \cup Deriving \cup {"ended"}
                => DriverTypes'
<1>1. Faithful'
  BY DEF DriverInv, Faithful, Fits, Unhealthy, Short
<1>2. Kept'
  <2>1. Received' = Received /\ Held' = Held
    BY DEF Received, Held, Counted
  <2> QED BY <2>1 DEF DriverInv, Kept, Before
<1>3. ASSUME UNCHANGED adjudications, phase' \in Observing \cup Deriving \cup {"ended"}
      PROVE  DriverTypes'
  <2>1. Adjudications' = Adjudications
    BY DEF Adjudications, Cases, Dispatched
  <2> QED BY <1>3, <2>1 DEF DriverInv, DriverTypes
<1> QED BY <1>1, <1>2, <1>3

LEMMA AbandonPreservesInv ==
    ASSUME DriverInv, Abandon
    PROVE  DriverInv'
<1>1. /\ UNCHANGED <<turn, responses, observations, kinds, adjudications>>
      /\ phase' = "ended" /\ published' \in {"recorded", "lost"}
  BY DEF Abandon
<1>2. Turns'
  BY <1>1 DEF DriverInv, Turns, Observing, Deriving
<1>3. Faithful' /\ Kept' /\ DriverTypes'
  BY <1>1, <1>2, FrameKeepsInv
<1>4. Derived'
  BY <1>1 DEF Derived
<1> QED BY <1>2, <1>3, <1>4 DEF DriverInv

(* The verdicts have their types; a held-out case that was scored is       *)
(* supported or not.                                                       *)
LEMMA VerdictsTyped ==
    ASSUME NEW failed, NEW unsure
    PROVE  [case \in Cases |-> Verdict(case, failed, unsure)] \in Adjudications
BY DEF Verdict, Adjudications, CaseStatuses

LEMMA AdjudicatePreservesInv ==
    ASSUME DriverInv, Adjudicate
    PROVE  DriverInv'
<1>1. CASE ~Correlated
  BY <1>1, AbandonPreservesInv DEF Adjudicate
<1>2. CASE Correlated
  <2>1. /\ phase = "adjudicate" /\ phase' = "build"
        /\ UNCHANGED <<turn, session, responses, observations, kinds, published>>
    BY <1>2 DEF Adjudicate
  <2>2. PICK failed \in SUBSET Scored, unsure \in SUBSET Scored :
            adjudications' = [case \in Cases |-> Verdict(case, failed, unsure)]
    BY <1>2 DEF Adjudicate
  <2>3. adjudications' \in Adjudications
    BY <2>2, VerdictsTyped
  <2>4. Adjudications' = Adjudications
    BY DEF Adjudications, Cases, Dispatched
  <2>5. Faithful' /\ Kept'
    BY <2>1, FrameKeepsInv
  <2>6. Turns' /\ DriverTypes'
    BY <2>1, <2>3, <2>4
    DEF DriverInv, DriverTypes, Turns, Observing, Deriving
  <2>7. Derived'
    BY <2>1, <2>3, <2>4 DEF DriverInv, Derived
  <2> QED BY <2>5, <2>6, <2>7 DEF DriverInv
<1> QED BY <1>1, <1>2

LEMMA PublishPreservesInv ==
    ASSUME DriverInv, NEW works \in BOOLEAN, PublishResult(works)
    PROVE  DriverInv'
<1>1. CASE ~works
  BY <1>1, AbandonPreservesInv DEF PublishResult
<1>2. CASE works
  <2>1. /\ phase = "publish" /\ phase' = "ended" /\ published' = DerivedStatus
        /\ UNCHANGED <<turn, session, responses, observations, kinds, adjudications>>
    BY <1>2 DEF PublishResult
  <2>2. Turns'
    BY <2>1 DEF DriverInv, Turns, Observing, Deriving
  <2>3. Faithful' /\ Kept' /\ DriverTypes'
    BY <2>1, <2>2, FrameKeepsInv
  <2>4. Adjudications' = Adjudications
    BY DEF Adjudications, Cases, Dispatched
  <2>5. DerivedStatus' = DerivedStatus
    BY <2>1 DEF DerivedStatus, ProcessHealth, Cases, Dispatched, Unhealthy, Short
  <2>6. DerivedStatus \in {"supported", "failed", "inconclusive"}
    BY DEF DerivedStatus
  <2>7. adjudications \in Adjudications /\ Len(observations) = Len(ROLE_ORDER)
    BY <2>1 DEF DriverInv, Derived, Turns, Deriving
  <2>8. Derived'
    BY <2>1, <2>4, <2>5, <2>6, <2>7 DEF Derived
  <2> QED BY <2>2, <2>3, <2>8 DEF DriverInv
<1> QED BY <1>1, <1>2

(* A step that only moves on. *)
LEMMA MovePreservesInv ==
    ASSUME DriverInv, UNCHANGED <<turn, responses, observations, kinds, adjudications, published>>,
           \/ phase = "prepare" /\ phase' = "open"
           \/ phase = "open" /\ phase' \in {"run", "salvage"}
           \/ phase = "run" /\ phase' = "salvage"
           \/ phase = "build" /\ phase' = "publish"
           \/ phase' = phase
    PROVE  DriverInv'
<1>1. Turns'
  BY DEF DriverInv, Turns, Observing, Deriving
<1>2. phase' \in Observing \cup Deriving \cup {"ended"}
  BY DEF DriverInv, DriverTypes, Observing, Deriving
<1>3. Faithful' /\ Kept' /\ DriverTypes'
  BY <1>1, <1>2, FrameKeepsInv
<1>4. Adjudications' = Adjudications
  BY DEF Adjudications, Cases, Dispatched
<1>5. DerivedStatus' = DerivedStatus
  BY DEF DerivedStatus, ProcessHealth, Cases, Dispatched, Unhealthy, Short
<1>6. Derived'
  BY <1>4, <1>5 DEF DriverInv, Derived
<1> QED BY <1>1, <1>3, <1>6 DEF DriverInv

LEMMA DriverInitInv == Init => DriverInv
<1> SUFFICES ASSUME Init PROVE DriverInv
  OBVIOUS
<1>1. DriverTypes
  BY DEF Init, DriverTypes, Observing, ROLE_ORDER
<1>2. Turns
  BY DEF Init, Turns, Observing, Deriving, ROLE_ORDER
<1>3. Faithful
  BY DEF Init, Faithful
<1>4. Kept
  <2>1. Received = {} /\ Held = {}
    BY DEF Init, Received, Held
  <2> QED BY <2>1 DEF Init, Kept
<1>5. Derived
  BY DEF Init, Derived
<1> QED BY <1>1, <1>2, <1>3, <1>4, <1>5 DEF DriverInv

LEMMA DriverNextInv == DriverInv /\ [Next]_attemptVars => DriverInv'
<1> SUFFICES ASSUME DriverInv, [Next]_attemptVars PROVE DriverInv'
  OBVIOUS
<1>1. ASSUME NEW works \in BOOLEAN, Prepare(works) PROVE DriverInv'
  BY <1>1, AbandonPreservesInv, MovePreservesInv DEF Prepare
<1>2. ASSUME NEW works \in BOOLEAN, PublishResult(works) PROVE DriverInv'
  BY <1>2, PublishPreservesInv
<1>3. ASSUME NEW outcome \in {"opened", "unopened"}, Open(outcome) PROVE DriverInv'
  BY <1>3, MovePreservesInv DEF Open
<1>4. ASSUME NEW closed \in BOOLEAN, RunRaises(closed) PROVE DriverInv'
  BY <1>4, MovePreservesInv DEF RunRaises
<1>5. CASE RunReturns
  <2>1. PICK s \in Sessions(Role) :
            /\ Summary(s) \in ReturnedSessions(Count(Role))
            /\ Keep(s, ProcessObservation(Role, s), Kind(Role, s, TRUE))
    BY <1>5 DEF RunReturns
  <2>2. Role \in Roles /\ s # Nil /\ phase = "run"
    BY <1>5, RoleFacts, SessionFacts DEF RunReturns
  <2> DEFINE item == ProcessObservation(Role, s)
             kind == Kind(Role, s, TRUE)
  <2>3. /\ item \in Observations /\ kind \in {"whole", "short", "bad"}
        /\ Fits(item, kind, Role) /\ item.responses = Cardinality(ValidPrefix(s))
    BY <2>1, <2>2, ReturnedFits
  <2>4. Keep(s, item, kind)
    BY <2>1
  <2> HIDE DEF item, kind
  <2> QED BY <2>2, <2>3, <2>4, KeepPreservesInv
<1>6. CASE Salvage
  <2> DEFINE opened == session.status # "unopened"
  <2>1. PICK s \in {Nil} \cup (IF session.status = "raised" THEN Sessions(Role) ELSE {}) :
            LET kept == Salvaged(Role, s, opened)
                kind == IF kept.status = "failed" THEN "bad" ELSE Kind(Role, s, FALSE)
            IN Keep(s, kept, kind)
    BY <1>6 DEF Salvage
  <2>2. Role \in Roles /\ phase = "salvage" /\ s \in {Nil} \cup Sessions(Role)
    BY <1>6, <2>1, RoleFacts DEF Salvage
  <2>3. opened \in BOOLEAN /\ (s # Nil => opened)
    BY <2>1
  <2> DEFINE item == Salvaged(Role, s, opened)
             kind == IF item.status = "failed" THEN "bad" ELSE Kind(Role, s, FALSE)
  <2>4. /\ item \in Observations /\ kind \in {"whole", "short", "bad"}
        /\ Fits(item, kind, Role)
        /\ item.responses = IF s = Nil THEN Absent ELSE Cardinality(ValidPrefix(s))
    BY <2>2, <2>3, SalvagedFits
  <2>5. Keep(s, item, kind)
    BY <2>1
  <2> HIDE DEF item, kind, opened
  <2> QED BY <2>2, <2>4, <2>5, KeepPreservesInv
<1>7. CASE Adjudicate
  BY <1>7, AdjudicatePreservesInv
<1>8. CASE TypedMismatch
  BY <1>8, AbandonPreservesInv DEF TypedMismatch
<1>9. CASE Build
  BY <1>9, AbandonPreservesInv, MovePreservesInv DEF Build
<1>10. CASE UNCHANGED attemptVars
  BY <1>10, MovePreservesInv DEF attemptVars
<1> QED BY <1>1, <1>2, <1>3, <1>4, <1>5, <1>6, <1>7, <1>8, <1>9, <1>10 DEF Next

LEMMA DriverAlwaysInv == Spec => []DriverInv
BY DriverInitInv, DriverNextInv, PTL DEF Spec

-----------------------------------------------------------------------------
(* The properties *)

LEMMA CountedFacts ==
    ASSUME DriverInv, NEW i \in DOMAIN observations
    PROVE  /\ i \in 1..3 /\ ROLE_ORDER[i] \in Roles /\ observations[i] \in Observations
           /\ Count(ROLE_ORDER[i]) \in Nat \ {0}
           /\ Counted(observations[i]) \in 0..Count(ROLE_ORDER[i])
           /\ Fits(observations[i], kinds[i], ROLE_ORDER[i])
<1>1. i \in 1..3 /\ ROLE_ORDER[i] \in Roles /\ observations[i] \in Observations
  BY DEF DriverInv, DriverTypes, Turns, Roles, ROLE_ORDER
<1>2. Count(ROLE_ORDER[i]) \in Nat \ {0}
  BY <1>1, AttemptAssumption DEF Count, Roles
<1>3. Fits(observations[i], kinds[i], ROLE_ORDER[i])
  BY DEF DriverInv, Faithful
<1>4. /\ observations[i].responses \in Nat \cup {Absent}
      /\ observations[i].requests \in Nat \cup {Absent}
  BY <1>1 DEF Observations
<1>5. Counted(observations[i]) \in 0..Count(ROLE_ORDER[i])
  BY <1>2, <1>3, <1>4 DEF Fits, Counted, Absent
<1> QED BY <1>1, <1>2, <1>3, <1>5

(* The responses of a role are the prefix its observation counts. *)
LEMMA ReceivedIsCounted ==
    ASSUME DriverInv, NEW i \in DOMAIN observations
    PROVE  LET role == ROLE_ORDER[i]
               n == Counted(observations[i])
           IN /\ {pair \in Received : pair[1] = role} = {role} \X (1..n)
              /\ ReceivedOf(role) = n
<1> DEFINE role == ROLE_ORDER[i]
           n == Counted(observations[i])
           S == {pair \in Received : pair[1] = role}
<1>1. n \in Nat
  BY CountedFacts
<1>2. \A h \in DOMAIN observations : ROLE_ORDER[h] = role => h = i
  BY CountedFacts, RoleFacts
<1>3. \A p : p \in Received <=>
            \E h \in DOMAIN observations : p \in {ROLE_ORDER[h]} \X (1..Counted(observations[h]))
  BY DEF DriverInv, Kept, Held
<1>4. S \subseteq {role} \X (1..n)
  BY <1>2, <1>3
<1>5. {role} \X (1..n) \subseteq S
  BY <1>3
<1>6. S = {role} \X (1..n)
  BY <1>4, <1>5
<1>7. Cardinality({role} \X (1..n)) = n
  <2> HIDE DEF n, role
  <2>1. IsFiniteSet({role}) /\ Cardinality({role}) = 1
    BY FS_Singleton
  <2>2. IsFiniteSet(1..n) /\ Cardinality(1..n) = n
    BY <1>1, FS_Interval
  <2>3. Cardinality({role} \X (1..n)) = Cardinality({role}) * Cardinality(1..n)
    BY <2>1, <2>2, FS_Product
  <2> QED BY <1>1, <2>1, <2>2, <2>3
<1> QED BY <1>6, <1>7 DEF ReceivedOf

LEMMA InvCounts == DriverInv => ResponsesAreCountedPrefixes
<1> SUFFICES ASSUME DriverInv, NEW i \in DOMAIN observations
             PROVE  LET item == observations[i]
                        indexes == {pair[2] : pair \in {pair \in Received : pair[1] = item.role}}
                    IN indexes = 1..Counted(item)
  BY DEF ResponsesAreCountedPrefixes, Counted
<1>1. observations[i].role = ROLE_ORDER[i]
  BY CountedFacts DEF Fits
<1>2. {pair \in Received : pair[1] = ROLE_ORDER[i]}
        = {ROLE_ORDER[i]} \X (1..Counted(observations[i]))
  BY ReceivedIsCounted
<1> DEFINE n == Counted(observations[i])
<1>3. {pair[2] : pair \in {ROLE_ORDER[i]} \X (1..n)} = 1..n
  <2> DEFINE pairs == {ROLE_ORDER[i]} \X (1..n)
  <2>1. \A k \in 1..n : <<ROLE_ORDER[i], k>> \in pairs /\ <<ROLE_ORDER[i], k>>[2] = k
    OBVIOUS
  <2>2. \A pair \in pairs : pair[2] \in 1..n
    OBVIOUS
  <2> HIDE DEF n, pairs
  <2>3. \A k \in 1..n : \E pair \in pairs : pair[2] = k
    BY <2>1
  <2>4. {pair[2] : pair \in pairs} = 1..n
    BY <2>2, <2>3
  <2> QED BY <2>4 DEF pairs
<1> QED BY <1>1, <1>2, <1>3

LEMMA InvCorrelates == DriverInv => Correlated
<1> SUFFICES ASSUME DriverInv PROVE Correlated
  OBVIOUS
<1>1. ASSUME NEW i \in DOMAIN responses
      PROVE  responses[i][2] \in 1..Count(responses[i][1])
  <2>1. responses[i] \in Held
    BY DEF DriverInv, Kept, Received
  <2>2. PICK h \in DOMAIN observations :
            responses[i] \in {ROLE_ORDER[h]} \X (1..Counted(observations[h]))
    BY <2>1 DEF Held
  <2>3. Count(ROLE_ORDER[h]) \in Nat /\ Counted(observations[h]) \in 0..Count(ROLE_ORDER[h])
    BY CountedFacts
  <2>4. responses[i][1] = ROLE_ORDER[h] /\ responses[i][2] \in 1..Counted(observations[h])
    BY <2>2
  <2> QED BY <2>3, <2>4
<1> QED BY <1>1 DEF DriverInv, Kept, Correlated

LEMMA InvAccepts == DriverInv /\ phase \in Deriving => ContractAccepts
<1> SUFFICES ASSUME DriverInv, phase \in Deriving PROVE ContractAccepts
  OBVIOUS
<1>1. Len(observations) = Len(ROLE_ORDER)
  BY DEF DriverInv, Turns
<1>2. ASSUME NEW i \in DOMAIN observations
      PROVE  LET item == observations[i]
             IN /\ item.role = ROLE_ORDER[i]
                /\ IF item.variant = "complete-v1"
                   THEN item.requests = Count(item.role) /\ item.responses = ReceivedOf(item.role)
                   ELSE /\ item.status # "supported"
                        /\ item.requests = Absent <=> item.responses = Absent
                        /\ item.requests # Absent =>
                             /\ item.requests <= Count(item.role) /\ item.responses <= item.requests
                             /\ item.responses <= ReceivedOf(item.role)
  <2> DEFINE item == observations[i]
             role == ROLE_ORDER[i]
  <2>1. Fits(item, kinds[i], role) /\ item \in Observations /\ Count(role) \in Nat \ {0}
    BY CountedFacts
  <2>2. ReceivedOf(role) = Counted(item)
    BY ReceivedIsCounted
  <2>3. /\ item.responses \in Nat \cup {Absent} /\ item.requests \in Nat \cup {Absent}
        /\ item.variant \in {"complete-v1", "incomplete-v1"}
    BY <2>1 DEF Observations
  <2> HIDE DEF item, role
  <2>4. item.role = role
    BY <2>1 DEF Fits
  <2>5. CASE item.variant = "complete-v1"
    BY <2>1, <2>2, <2>3, <2>4, <2>5 DEF Fits, Counted, Absent, item, role
  <2>6. CASE item.variant = "incomplete-v1"
    BY <2>1, <2>2, <2>3, <2>4, <2>6 DEF Fits, Counted, Absent, item, role
  <2> QED BY <2>3, <2>5, <2>6
<1> QED BY <1>1, <1>2 DEF ContractAccepts

LEMMA InvIsHonest == DriverInv => PublishedStatusIsHonest
<1> SUFFICES ASSUME DriverInv PROVE PublishedStatusIsHonest
  OBVIOUS
<1> DEFINE verdicts == {adjudications[case] : case \in DOMAIN adjudications}
           whole == [i \in DOMAIN ROLE_ORDER |-> "whole"]
<1>1. CASE published \in {"none", "recorded", "lost"}
  BY <1>1 DEF PublishedStatusIsHonest, DriverInv, Derived
<1>2. CASE published \notin {"none", "recorded", "lost"}
  <2>1. /\ phase = "ended" /\ Len(observations) = 3 /\ published = DerivedStatus
        /\ adjudications \in Adjudications
    BY <1>2, RoleFacts DEF DriverInv, Derived
  <2>2. /\ DOMAIN observations = 1..3 /\ DOMAIN kinds = 1..3
        /\ kinds \in Seq({"whole", "short", "bad"}) /\ DOMAIN ROLE_ORDER = 1..3
    BY <2>1, RoleFacts DEF DriverInv, DriverTypes
  <2>3. \A i \in 1..3 : /\ kinds[i] = "whole" <=> ~Unhealthy(observations[i]) /\ ~Short(observations[i])
                        /\ kinds[i] = "bad" => Unhealthy(observations[i])
    BY <2>2 DEF DriverInv, Faithful, Fits
  <2>4. kinds = whole <=> \A i \in 1..3 : kinds[i] = "whole"
    <3>1. kinds = [i \in 1..3 |-> kinds[i]]
      BY <2>2
    <3> QED BY <2>2, <3>1
  <2>5. ProcessHealth = "supported" <=> kinds = whole
    BY <2>2, <2>3, <2>4 DEF ProcessHealth
  <2>6. ProcessHealth \in {"supported", "failed", "inconclusive"}
    BY DEF ProcessHealth
  <2>7. (\E i \in DOMAIN kinds : kinds[i] = "bad") => ProcessHealth = "failed"
    BY <2>2, <2>3 DEF ProcessHealth
  <2>8. /\ DOMAIN adjudications = Cases
        /\ \A case \in Cases : adjudications[case] \in CaseStatuses
        /\ \A case \in Cases : case[1] = "held-out" => adjudications[case] # "observation"
    BY <2>1 DEF Adjudications
  <2>9. /\ published = IF "failed" \in verdicts \cup {ProcessHealth} THEN "failed"
                       ELSE IF "inconclusive" \in verdicts \cup {ProcessHealth} THEN "inconclusive"
                       ELSE IF \A case \in Cases :
                                    case[1] = "held-out" => adjudications[case] = "supported"
                            THEN "supported" ELSE "inconclusive"
    BY <2>1, <2>8 DEF DerivedStatus
  <2>10. \A case \in Cases : adjudications[case] \in verdicts
    BY <2>8
  <2> HIDE DEF verdicts, whole
  <2>11. /\ published = "supported" <=> kinds = whole /\ verdicts \cap {"failed", "inconclusive"} = {}
    <3>1. ASSUME verdicts \cap {"failed", "inconclusive"} = {}
          PROVE  \A case \in Cases : case[1] = "held-out" => adjudications[case] = "supported"
      BY <2>8, <2>10, <3>1 DEF CaseStatuses
    <3> QED BY <2>5, <2>6, <2>9, <3>1
  <2>12. published \in {"supported", "inconclusive"} =>
            "failed" \notin verdicts /\ \A i \in DOMAIN kinds : kinds[i] # "bad"
    BY <2>7, <2>9
  <2> QED BY <1>2, <2>1, <2>11, <2>12 DEF PublishedStatusIsHonest, verdicts, whole
<1> QED BY <1>1, <1>2

(* What the driver kept of a role are the responses to a prefix of its     *)
(* requests, as long as its observation says (_transport_prefix).          *)
THEOREM KeptIsAlwaysAPrefix == Spec => []ResponsesAreCountedPrefixes
BY DriverAlwaysInv, InvCounts, PTL

(* Whatever the three sessions did, and wherever they raised,              *)
(* correlate_responses and _validate_result_obj accept what was kept: a    *)
(* failed session ends in a published result.                              *)
THEOREM EvidenceIsAlwaysAccepted == Spec => []EvidenceIsAccepted
<1>1. DriverInv => EvidenceIsAccepted
  BY InvCorrelates, InvAccepts DEF EvidenceIsAccepted, Deriving
<1> QED BY <1>1, DriverAlwaysInv, PTL

(* A published "supported" rests on three whole sessions and on every      *)
(* case; a failure anywhere is published as failed (_derived_status).      *)
THEOREM PublishedStatusIsAlwaysHonest == Spec => []PublishedStatusIsHonest
BY DriverAlwaysInv, InvIsHonest, PTL
=============================================================================
