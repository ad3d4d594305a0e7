---------------------------- MODULE MCServices ----------------------------
(***************************************************************************)
(* The services around the orchestrator that share no state with one       *)
(* another, in one run: the first state chooses the part that moves, and   *)
(* the others stay in their initial states.  Running them together would   *)
(* multiply their states and show nothing more.                            *)
(***************************************************************************)
EXTENDS Journal, FileWorkspace, RedisClient, DeadLetterQueue, Throttle, Routing,
        RecoveryCascade, TLC

CONSTANTS
  t1, t2, i1, i2,
  a1, a2, p1, p2

VARIABLE part

(* Two threads that share one FileWorkspace: LosesNoUpdate says nothing of *)
(* threads with objects of their own.                                      *)
MCThread == {t1, t2}
MCInstance == {i1, i2}
MCOwners == {[t \in MCThread |-> i1]}

MCAccounts == <<a1, a2>>
MCProviderOf == (a1 :> p1) @@ (a2 :> p2)
MCContextLimit == (a1 :> 1) @@ (a2 :> 2)
MCCapability == (a1 :> 255) @@ (a2 :> 285)

Parts == {"files", "store", "journal", "queue", "bucket", "router", "cascade"}

Moving(p) ==
  /\ part = p /\ part' = p
  /\ IF p = "files" THEN TRUE ELSE UNCHANGED vars
  /\ IF p = "store" THEN TRUE ELSE UNCHANGED storeVars
  /\ IF p = "journal" THEN TRUE ELSE UNCHANGED journalVars
  /\ IF p = "queue" THEN TRUE ELSE UNCHANGED dlqVars
  /\ IF p = "bucket" THEN TRUE ELSE UNCHANGED throttleVars
  /\ IF p = "router" THEN TRUE ELSE UNCHANGED routingVars
  /\ IF p = "cascade" THEN TRUE ELSE UNCHANGED cascadeVars

ServicesInit ==
  /\ part \in Parts
  /\ Init
  /\ StoreInit /\ JournalInit /\ QueueInit /\ ThrottleInit /\ RoutingInit
  /\ CascadeInit /\ (part # "cascade" => \A s \in CascadeStep : handlers[s] = "none")

ServicesNext ==
  \/ Moving("files") /\ Next
  \/ Moving("store") /\ StoreNext
  \/ Moving("journal") /\ JournalNext
  \/ Moving("queue") /\ QueueNext
  \/ Moving("bucket") /\ ThrottleNext
  \/ Moving("router") /\ RoutingNext
  \/ Moving("cascade") /\ CascadeNext

servicesVars == <<part, vars, storeVars, journalVars, dlqVars, throttleVars, routingVars,
                  cascadeVars>>

ServicesSpec == ServicesInit /\ [][ServicesNext]_servicesVars
=============================================================================
