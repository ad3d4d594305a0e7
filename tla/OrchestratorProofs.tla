------------------------- MODULE OrchestratorProofs -------------------------
(***************************************************************************)
(* Theorems about the reactive loop, for any number of tasks, accounts,    *)
(* leases and threads: it makes of the pool and of the engine only what    *)
(* their own modules describe, and a jailing reaches whoever works on the  *)
(* account.                                                                *)
(***************************************************************************)
EXTENDS Orchestrator, TLAPS

(* An agent that is bound is bound to the account of the lease it holds:   *)
(* a lease keeps its account from its grant on, and an agent that lets go  *)
(* of its lease unbinds its task in the same step.  What is still to be    *)
(* emitted is a jailing.                                                   *)
Agents ==
    /\ bound \in [Task -> Account \cup {NoAccount}]
    /\ leaseOf \in [Task -> Lease \cup {NoLease}]
    /\ leaseState \in [Lease -> LM!LeaseState]
    /\ leaseAccount \in [Lease -> Account \cup {NoAccount}]
    /\ emitting \in [Caller -> [account : Account, new : {"JAIL"}] \cup {NoEvent}]

BoundToLease ==
    /\ \A l \in Lease : leaseState[l] # "REQUESTED" => leaseAccount[l] \in Account
    /\ \A t \in Task :
          IF leaseOf[t] = NoLease
          THEN bound[t] = NoAccount
          ELSE /\ leaseState[leaseOf[t]] # "REQUESTED"
               /\ bound[t] \in {NoAccount, leaseAccount[leaseOf[t]]}

LoopInv == Agents /\ BoundToLease

LEMMA LoopInit == Init => LoopInv
  <1> SUFFICES ASSUME Init PROVE LoopInv
    OBVIOUS
  <1>1. Agents
    BY DEF Init, LM!Init, WE!Init, Agents, LM!LeaseState
  <1> QED
    BY <1>1 DEF Init, LM!Init, WE!Init, LoopInv, BoundToLease

LEMMA LoopStep == LoopInv /\ [Next]_vars => LoopInv'
  <1> SUFFICES ASSUME LoopInv, [Next]_vars PROVE LoopInv'
    OBVIOUS
  <1> USE NoLeaseAssumption DEF LoopInv, Agents, BoundToLease, engineVars, agentVars, poolVars,
          LM!leaseVars, LM!accountVars, LM!LeaseState
  <1>1. CASE Startup
    BY <1>1 DEF Startup, LM!RegisterAccounts
  <1>2. ASSUME NEW t \in Task, Submit(t) \/ Halt(t) \/ Resume(t) PROVE LoopInv'
    BY <1>2 DEF Submit, Halt, Resume, WE!StartTask, WE!HaltTask, WE!ResumeTask
  <1>3. ASSUME NEW t \in Task, Acquire(t) PROVE LoopInv'
    <2>1. PICK l \in Lease : LM!RequestLease(l, {}) /\ leaseOf' = [leaseOf EXCEPT ![t] = l]
      BY <1>3 DEF Acquire
    <2>2. PICK a \in Account : /\ leaseState' = [leaseState EXCEPT ![l] = "ACTIVE"]
                               /\ leaseAccount' = [leaseAccount EXCEPT ![l] = a]
      BY <2>1 DEF LM!RequestLease, LM!Candidates
    <2>3. /\ leaseState[l] = "REQUESTED" /\ emitting' = emitting
          /\ bound' = bound /\ leaseOf[t] = NoLease
      BY <1>3, <2>1 DEF Acquire, LM!RequestLease
    <2> QED
      BY <2>1, <2>2, <2>3
  <1>4. ASSUME NEW t \in Task, Bind(t) PROVE LoopInv'
    BY <1>4 DEF Bind, WE!BindTaskAccount
  <1>5. ASSUME NEW t \in Task, Ask(t) PROVE LoopInv'
    <2>1. CASE LM!IsAlive(leaseOf[t])
      BY <1>5, <2>1 DEF Ask
    <2>2. CASE ~LM!IsAlive(leaseOf[t])
      BY <1>5, <2>2 DEF Ask, WE!UnbindTaskAccount
    <2> QED
      BY <2>1, <2>2
  <1>6. ASSUME NEW t \in Task, Step(t) PROVE LoopInv'
    BY <1>6 DEF Step, WE!ExecuteStep
  <1>7. ASSUME NEW t \in Task, Finish(t) PROVE LoopInv'
    BY <1>7 DEF Finish, LM!ReleaseLease, WE!UnbindTaskAccount
  <1>8. ASSUME NEW t \in Task, KeepAlive(t) PROVE LoopInv'
    BY <1>8 DEF KeepAlive, LM!Heartbeat
  <1>9. ASSUME NEW c \in Caller, NEW a \in Account, Jail(c, a) PROVE LoopInv'
    <2>1. /\ leaseState' \in [Lease -> LM!LeaseState]
          /\ \A l \in Lease : leaseState'[l] = "REQUESTED" <=> leaseState[l] = "REQUESTED"
      BY <1>9 DEF Jail, LM!MarkUnavailable, LM!ExpireLeasesOn, LM!ActiveLeasesOn
    <2>2. emitting' \in [Caller -> [account : Account, new : {"JAIL"}] \cup {NoEvent}]
      BY <1>9 DEF Jail, LM!MarkUnavailable
    <2>3. UNCHANGED <<leaseAccount, leaseOf, bound>>
      BY <1>9 DEF Jail, LM!MarkUnavailable
    <2> QED
      BY <2>1, <2>2, <2>3
  <1>10. ASSUME NEW c \in Caller, Deliver(c) PROVE LoopInv'
    BY <1>10 DEF Deliver, LM!Emit, WE!HandleAccountEvent
  <1>11. CASE Reclaim
    <2>1. /\ leaseState' \in [Lease -> LM!LeaseState]
          /\ \A l \in Lease : leaseState'[l] = "REQUESTED" <=> leaseState[l] = "REQUESTED"
      BY <1>11 DEF Reclaim, LM!ReclaimExpired, LM!Due
    <2>2. UNCHANGED <<leaseAccount, leaseOf, bound, emitting>>
      BY <1>11 DEF Reclaim, LM!ReclaimExpired
    <2> QED
      BY <2>1, <2>2
  <1>12. CASE Tick
    BY <1>12 DEF Tick, LM!Tick
  <1>13. CASE UNCHANGED vars
    BY <1>13 DEF vars
  <1> QED
    BY <1>1, <1>2, <1>3, <1>4, <1>5, <1>6, <1>7, <1>8, <1>9, <1>10, <1>11, <1>12, <1>13 DEF Next

LEMMA LoopInvariant == Spec => []LoopInv
  BY LoopInit, LoopStep, PTL DEF Spec

(* Once the event of a jailing is delivered, no task whose agent holds a   *)
(* lease on the account is left executing.                                 *)
THEOREM JailingsReachHolders == Spec => JailReachesHolders
<1>1. LoopInv /\ [Next]_vars =>
        [\A c \in Caller, t \in Task :
            /\ Deliver(c)
            /\ emitting[c].new = "JAIL"
            /\ leaseOf[t] # NoLease
            /\ leaseAccount[leaseOf[t]] = emitting[c].account
            => wf'[t] \notin Executing]_vars
  <2> SUFFICES ASSUME LoopInv, NEW c \in Caller, NEW t \in Task, Deliver(c),
                      emitting[c].new = "JAIL", leaseOf[t] # NoLease,
                      leaseAccount[leaseOf[t]] = emitting[c].account
               PROVE  wf'[t] \notin Executing
    OBVIOUS
  <2>1. bound[t] \in {NoAccount, emitting[c].account}
    BY DEF LoopInv, BoundToLease
  <2>2. wf'[t] = IF t \in WE!Replanned(emitting[c].account) THEN "PLANNING" ELSE wf[t]
    BY DEF Deliver, WE!HandleAccountEvent
  <2> QED
    BY <2>1, <2>2 DEF WE!Replanned, Executing
<1> QED
  BY <1>1, LoopInvariant, PTL DEF Spec, JailReachesHolders

-----------------------------------------------------------------------------
(* A jailing ends every lease on its account, and none is granted on a     *)
(* jailed one: while an account is JAIL, no lease on it is in force.       *)
JailedIsUnleased ==
    /\ accountState \in [Account -> LM!AccountState \cup {"ABSENT"}]
    /\ \A l \in Lease : leaseState[l] = "ACTIVE" => accountState[leaseAccount[l]] # "JAIL"

(* What a step may do to a jailed account a: keep it, or be the late       *)
(* release that JailEndsLate excepts.                                      *)
GivenBackLate(a) ==
    \E t \in Task :
        /\ leaseOf[t] # NoLease
        /\ leaseAccount[leaseOf[t]] = a
        /\ leaseState[leaseOf[t]] = "EXPIRED"
        /\ leaseState'[leaseOf[t]] = "RELEASED"

KeptOrGivenBack ==
    \A a \in Account : accountState[a] = "JAIL" => accountState'[a] = "JAIL" \/ GivenBackLate(a)

(* An agent never holds a lease that was given back: it gives a lease back *)
(* only when it lets go of it, and leases are not shared.                  *)
HeldOnce ==
    /\ \A t \in Task : leaseOf[t] # NoLease => leaseState[leaseOf[t]] # "RELEASED"
    /\ \A t, u \in Task : leaseOf[t] # NoLease /\ leaseOf[t] = leaseOf[u] => t = u

JailInv == LoopInv /\ JailedIsUnleased /\ HeldOnce

LEMMA JailStep == JailInv /\ [Next]_vars => JailInv' /\ KeptOrGivenBack
  <1> SUFFICES ASSUME JailInv, [Next]_vars
               PROVE  JailedIsUnleased' /\ HeldOnce' /\ KeptOrGivenBack
    BY LoopStep DEF JailInv
  <1> USE NoLeaseAssumption DEF JailInv, LoopInv, Agents, BoundToLease, JailedIsUnleased, HeldOnce,
          KeptOrGivenBack, LM!LeaseState
  <1> DEFINE Goal == JailedIsUnleased' /\ HeldOnce' /\ KeptOrGivenBack
  <1>1. CASE Startup
    BY <1>1 DEF Startup, LM!RegisterAccounts, LM!Registered, LM!leaseVars, LM!AccountState, agentVars
  <1>2. ASSUME NEW t \in Task,
               \/ Submit(t) \/ Bind(t) \/ Step(t) \/ Halt(t) \/ Resume(t)
        PROVE  Goal
    BY <1>2 DEF Submit, Bind, Step, Halt, Resume, poolVars, agentVars
  <1>3. ASSUME NEW t \in Task, Acquire(t) PROVE Goal
    <2>1. PICK l \in Lease : LM!RequestLease(l, {}) /\ leaseOf' = [leaseOf EXCEPT ![t] = l]
      BY <1>3 DEF Acquire
    <2>2. PICK a \in LM!Candidates({}) :
              /\ leaseState' = [leaseState EXCEPT ![l] = "ACTIVE"]
              /\ leaseAccount' = [leaseAccount EXCEPT ![l] = a]
              /\ accountState' = [accountState EXCEPT ![a] = "ACTIVE"]
      BY <2>1 DEF LM!RequestLease
    <2>3. a \in Account /\ accountState[a] # "JAIL"
      BY <2>2 DEF LM!Candidates, LM!IsAvailable
    <2>4. leaseState[l] = "REQUESTED"
      BY <2>1 DEF LM!RequestLease
    <2>5. JailedIsUnleased'
      BY <2>2, <2>3, <2>4 DEF LM!AccountState
    <2>6. HeldOnce'
      BY <2>1, <2>2, <2>4
    <2>7. KeptOrGivenBack
      BY <2>2, <2>3
    <2> QED
      BY <2>5, <2>6, <2>7
  <1>4. ASSUME NEW t \in Task, Ask(t) PROVE Goal
    BY <1>4 DEF Ask, poolVars
  <1>5. ASSUME NEW t \in Task, Finish(t) PROVE Goal
    <2>1. leaseOf[t] \in Lease /\ leaseAccount[leaseOf[t]] \in Account
      BY <1>5 DEF Finish
    <2>2. /\ leaseState' = [leaseState EXCEPT ![leaseOf[t]] = "RELEASED"]
          /\ accountState' = [accountState EXCEPT ![leaseAccount[leaseOf[t]]] = "IDLE"]
          /\ leaseOf' = [leaseOf EXCEPT ![t] = NoLease]
          /\ leaseAccount' = leaseAccount
      BY <1>5 DEF Finish, LM!ReleaseLease
    <2>3. JailedIsUnleased'
      BY <2>1, <2>2 DEF LM!AccountState
    <2>4. HeldOnce'
      BY <2>1, <2>2
    <2>5. KeptOrGivenBack
      <3> SUFFICES ASSUME NEW a \in Account, accountState[a] = "JAIL", accountState'[a] # "JAIL"
                   PROVE  GivenBackLate(a)
        OBVIOUS
      <3>1. leaseAccount[leaseOf[t]] = a
        BY <2>1, <2>2
      <3>2. leaseState[leaseOf[t]] = "EXPIRED"
        <4>1. leaseState[leaseOf[t]] \notin {"ACTIVE", "REQUESTED", "RELEASED"}
          BY <2>1, <3>1
        <4> QED
          BY <2>1, <4>1
      <3> QED
        BY <2>1, <2>2, <3>1, <3>2 DEF GivenBackLate
    <2> QED
      BY <2>3, <2>4, <2>5
  <1>6. ASSUME NEW t \in Task, KeepAlive(t) PROVE Goal
    BY <1>6 DEF KeepAlive, LM!Heartbeat, LM!accountVars, agentVars
  <1>7. ASSUME NEW c \in Caller, NEW b \in Account, Jail(c, b) PROVE Goal
    <2>1. /\ accountState' = [accountState EXCEPT ![b] = "JAIL"]
          /\ leaseState' = [l \in Lease |-> IF leaseState[l] = "ACTIVE" /\ leaseAccount[l] = b
                                             THEN "EXPIRED" ELSE leaseState[l]]
          /\ UNCHANGED <<leaseAccount, leaseOf>>
      BY <1>7 DEF Jail, LM!MarkUnavailable, LM!ExpireLeasesOn, LM!ActiveLeasesOn, agentVars
    <2> QED
      BY <2>1 DEF LM!AccountState
  <1>8. ASSUME NEW c \in Caller, Deliver(c) PROVE Goal
    BY <1>8 DEF Deliver, LM!Emit, LM!accountVars, LM!leaseVars, agentVars
  <1>9. CASE Reclaim
    <2>1. /\ leaseState' = [l \in Lease |-> IF l \in LM!Due THEN "EXPIRED" ELSE leaseState[l]]
          /\ accountState' = [a \in Account |-> IF \E l \in LM!Due : leaseAccount[l] = a
                                                 THEN "COOLDOWN" ELSE accountState[a]]
          /\ UNCHANGED <<leaseAccount, leaseOf>>
      BY <1>9 DEF Reclaim, LM!ReclaimExpired, agentVars
    <2>2. \A l \in LM!Due : l \in Lease /\ leaseState[l] = "ACTIVE"
      BY DEF LM!Due
    <2> QED
      BY <2>1, <2>2 DEF LM!AccountState
  <1>10. CASE Tick
    BY <1>10 DEF Tick, LM!Tick, agentVars
  <1>11. CASE UNCHANGED vars
    BY <1>11 DEF vars, poolVars, agentVars
  <1> QED
    BY <1>1, <1>2, <1>3, <1>4, <1>5, <1>6, <1>7, <1>8, <1>9, <1>10, <1>11 DEF Next

(* For any tasks, agents, threads and accounts, whatever was reclaimed and *)
(* however late the agents are: a jailed account comes back to the pool    *)
(* only by the late release of a lease that had ended.                     *)
THEOREM JailingsLast == Spec => JailEndsLate
<1>1. Init => JailInv
  BY LoopInit, NoLeaseAssumption DEF Init, LM!Init, JailInv, JailedIsUnleased, HeldOnce
<1>2. JailInv /\ [Next]_vars => JailInv'
  BY JailStep
<1>3. JailInv /\ [Next]_vars =>
        [\A a \in Account :
            accountState[a] = "JAIL" /\ accountState'[a] # "JAIL"
            => \E t \in Task :
                  /\ leaseOf[t] # NoLease
                  /\ leaseAccount[leaseOf[t]] = a
                  /\ leaseState[leaseOf[t]] = "EXPIRED"
                  /\ leaseState'[leaseOf[t]] = "RELEASED"]_vars
  BY JailStep DEF KeptOrGivenBack, GivenBackLate
<1> QED
  BY <1>1, <1>2, <1>3, PTL DEF Spec, JailEndsLate

-----------------------------------------------------------------------------
(* Every step of the loop is a step of the pool, or leaves it alone.       *)
LEMMA PoolStep == LoopInv /\ [Next]_vars => [LM!Next]_(LM!vars)
  <1> SUFFICES ASSUME LoopInv, [Next]_vars PROVE [LM!Next]_(LM!vars)
    OBVIOUS
  <1> USE DEF LoopInv, Agents, poolVars
  <1>1. ASSUME UNCHANGED poolVars PROVE UNCHANGED LM!vars
    BY <1>1 DEF LM!vars
  <1>2. CASE Startup
    BY <1>2 DEF Startup, LM!Next
  <1>3. ASSUME NEW t \in Task,
               Submit(t) \/ Bind(t) \/ Ask(t) \/ Step(t) \/ Halt(t) \/ Resume(t)
        PROVE  UNCHANGED LM!vars
    BY <1>1, <1>3 DEF Submit, Bind, Ask, Step, Halt, Resume
  <1>4. ASSUME NEW t \in Task, Acquire(t) PROVE LM!Next
    BY <1>4 DEF Acquire, LM!Next, LM!Preference
  <1>5. ASSUME NEW t \in Task, Finish(t) \/ KeepAlive(t) PROVE LM!Next
    <2>1. leaseOf[t] \in Lease
      BY <1>5 DEF Finish, KeepAlive
    <2> QED
      BY <1>5, <2>1 DEF Finish, KeepAlive, LM!Next
  <1>6. ASSUME NEW c \in Caller, NEW a \in Account, Jail(c, a) PROVE LM!Next
    BY <1>6 DEF Jail, LM!Next, LM!AccountState
  <1>7. ASSUME NEW c \in Caller, Deliver(c) PROVE LM!Next
    BY <1>7 DEF Deliver, LM!Next
  <1>8. CASE Reclaim \/ Tick
    BY <1>8 DEF Reclaim, Tick, LM!Next
  <1>9. CASE UNCHANGED vars
    BY <1>1, <1>9 DEF vars
  <1> QED
    BY <1>2, <1>3, <1>4, <1>5, <1>6, <1>7, <1>8, <1>9 DEF Next

(* Every step of the loop is a step of the engine, or leaves it alone.     *)
LEMMA EngineStep == LoopInv /\ [Next]_vars => [WE!Next]_(WE!vars)
  <1> SUFFICES ASSUME LoopInv, [Next]_vars PROVE [WE!Next]_(WE!vars)
    OBVIOUS
  <1> USE DEF LoopInv, Agents, engineVars
  <1>1. ASSUME UNCHANGED engineVars PROVE UNCHANGED WE!vars
    BY <1>1 DEF WE!vars
  <1>2. CASE Startup \/ Reclaim \/ Tick
    BY <1>1, <1>2 DEF Startup, Reclaim, Tick
  <1>3. ASSUME NEW t \in Task, Acquire(t) \/ KeepAlive(t) PROVE UNCHANGED WE!vars
    BY <1>1, <1>3 DEF Acquire, KeepAlive
  <1>4. ASSUME NEW t \in Task, Submit(t) \/ Halt(t) \/ Resume(t) PROVE WE!Next
    BY <1>4 DEF Submit, Halt, Resume, WE!Next
  <1>5. ASSUME NEW t \in Task, Bind(t) PROVE WE!Next
    <2>1. leaseAccount[leaseOf[t]] \in Account
      BY <1>5 DEF Bind, BoundToLease
    <2> QED
      BY <1>5, <2>1 DEF Bind, WE!Next
  <1>6. ASSUME NEW t \in Task, Ask(t) PROVE WE!Next \/ UNCHANGED WE!vars
    BY <1>1, <1>6 DEF Ask, WE!Next
  <1>7. ASSUME NEW t \in Task, Step(t) PROVE WE!Next
    BY <1>7 DEF Step, WE!Next, WE!StepResult
  <1>8. ASSUME NEW t \in Task, Finish(t) PROVE WE!Next
    BY <1>8 DEF Finish, WE!Next
  <1>9. ASSUME NEW c \in Caller, NEW a \in Account, Jail(c, a) PROVE UNCHANGED WE!vars
    BY <1>1, <1>9 DEF Jail
  <1>10. ASSUME NEW c \in Caller, Deliver(c) PROVE WE!Next
    <2>1. emitting[c].account \in Account /\ emitting[c].new = "JAIL"
      BY <1>10 DEF Deliver, LM!Emit
    <2> QED
      BY <1>10, <2>1 DEF Deliver, WE!Next
  <1>11. CASE UNCHANGED vars
    BY <1>1, <1>11 DEF vars
  <1> QED
    BY <1>2, <1>3, <1>4, <1>5, <1>6, <1>7, <1>8, <1>9, <1>10, <1>11 DEF Next

(* The loop makes only legal use of its parts: whatever holds of every     *)
(* behaviour of the pool or of the engine holds inside the loop, however   *)
(* agents, threads and events interleave.                                  *)
THEOREM LoopUsesItsParts == Spec => LM!Spec /\ WE!Spec
<1>1. Init => LM!Init /\ WE!Init
  BY DEF Init
<1> QED
  BY <1>1, PoolStep, EngineStep, LoopInvariant, PTL DEF Spec, LM!Spec, WE!Spec
=============================================================================
