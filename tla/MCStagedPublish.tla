---- MODULE MCStagedPublish ----
EXTENDS StagedPublish, TLC

BuilderSymmetry == Permutations(Builders) \cup Permutations(Members)
====
