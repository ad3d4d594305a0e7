--------------------------- MODULE MCLeaseManager ---------------------------
(* Small instances of LeaseManager for TLC. *)
EXTENDS LeaseManager, TLC

CONSTANTS a1, a2, p1, p2

MCProviderOf == (a1 :> p1 @@ a2 :> p2)
MCOneProvider == [a \in Account |-> p1]
=============================================================================
