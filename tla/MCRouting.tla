----------------------------- MODULE MCRouting -----------------------------
(* A small instance of Routing for TLC. *)
EXTENDS Routing, TLC

CONSTANTS a1, a2, p1, p2

MCAccounts == <<a1, a2>>
MCProviderOf == (a1 :> p1) @@ (a2 :> p2)
MCContextLimit == (a1 :> 1) @@ (a2 :> 2)
MCCapability == (a1 :> 255) @@ (a2 :> 285)
=============================================================================
