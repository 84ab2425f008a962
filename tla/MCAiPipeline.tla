---------------------------- MODULE MCAiPipeline ----------------------------
(***************************************************************************)
(* Instances of AiPipeline for TLC: ann and bob share the workers, and ann *)
(* asks more often than the limit allows.                                  *)
(***************************************************************************)
EXTENDS AiPipeline

CONSTANTS r1, r2, r3, ann, bob

MCUserOf == [r \in Requests |-> IF r = r3 THEN bob ELSE ann]
MCActionOf == [r \in Requests |-> IF r = r1 THEN "translate" ELSE "summarize"]

=============================================================================
