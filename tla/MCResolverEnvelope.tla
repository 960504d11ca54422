-------------------------- MODULE MCResolverEnvelope --------------------------
(***************************************************************************)
(* Three phases, the dependency phase in the middle; two diagnostics.      *)
(* Retention is only truncated where a phase completed, and observations   *)
(* beside their primary report the second diagnostic or none.              *)
(***************************************************************************)
EXTENDS ResolverEnvelope

MCReported ==
    {o \in Constructible :
        /\ o.diagnostics \in {{}, {2}}
        /\ o.outcome \in {"ResourceNotice", "Unsupported", "InternalTrustLoss"} => o.diagnostics = {}
        /\ o.outcome # "Complete" => o.diagnostics_complete
        /\ o.outcome \in {"Unsupported", "InternalTrustLoss"} => o.primary = 1}
=============================================================================
