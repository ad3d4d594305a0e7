--------------------------- MODULE MCOrchestrator ---------------------------
(* Small instances of Orchestrator for TLC. *)
EXTENDS Orchestrator

CONSTANT p1

MCProviderOf == [a \in Account |-> p1]
=============================================================================
