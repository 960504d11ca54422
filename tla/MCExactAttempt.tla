---- MODULE MCExactAttempt ----
EXTENDS ExactAttempt, TLC

(* One request each for development and controls, two held out. *)
MCRequestCount == "development" :> 1 @@ "held-out" :> 2 @@ "controls" :> 1
====
