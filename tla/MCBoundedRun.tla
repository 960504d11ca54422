---- MODULE MCBoundedRun ----
EXTENDS BoundedRun, TLC
====
