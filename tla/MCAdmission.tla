----------------------------- MODULE MCAdmission -----------------------------
(* Two keys; every budget is small enough for a document to reach it and   *)
(* for the next step to exceed it, inside nested objects and arrays.       *)
EXTENDS Admission

MCKeys == {"x", "y"}
=============================================================================
