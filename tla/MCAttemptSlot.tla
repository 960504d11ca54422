----------------------------- MODULE MCAttemptSlot -----------------------------
(* Three invocations: two for one slot under different attempt ids, and a  *)
(* third for another slot that was given the first one's attempt id.       *)
EXTENDS AttemptSlot

CONSTANTS p1, p2, p3, s1, s2, d1, d2, r1

MCAttempts == {p1, p2, p3}
MCSlots == {s1, s2}
MCDirs == {d1, d2}
MCReaders == {r1}
MCSlotOf == [p \in MCAttempts |-> IF p = p3 THEN s2 ELSE s1]
MCDirOf == [p \in MCAttempts |-> IF p = p2 THEN d2 ELSE d1]
=============================================================================
