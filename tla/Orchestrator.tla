---------------------------- MODULE Orchestrator ----------------------------
(***************************************************************************)
(* The reactive loop of the orchestrator: LeaseManager and WorkflowEngine  *)
(* wired as their docstrings and test_lease_reactive.py wire them (the     *)
(* engine's handler listens to the manager's events), driven by one agent  *)
(* per task.                                                               *)
(*                                                                         *)
(* An agent is honest: it acquires one lease at a time, binds its task to  *)
(* the leased account, asks whether the lease is alive before each step,   *)
(* and releases every lease it acquired exactly once.  Each of these is a  *)
(* call of its own, so anything may happen in between: a jailing, a late   *)
(* event, a reclamation.                                                   *)
(***************************************************************************)
EXTENDS Integers, FiniteSets

CONSTANTS
    Account, Lease, Provider, ProviderOf, Caller, NoAccount, NoEvent,
    TTL, LongCooldown, ShortCooldown,
    JailAfter, CooldownAfter, RateLimitAfter, WarmupSteps,
    Task, Action, LoopLimit, MaxRetries,
    NoLease             \* agent that holds no lease

ASSUME NoLeaseAssumption == NoLease \notin Lease

VARIABLES
    accountState, cooldownLeft, failures, warmup,
    leaseState, leaseAccount, ttlLeft, emitting,
    wf, status, counts, bound, retries,
    leaseOf,            \* the lease each task's agent works under
    cleared             \* whether its last question found the lease alive

LM == INSTANCE LeaseManager
WE == INSTANCE WorkflowEngine

poolVars == <<accountState, cooldownLeft, failures, warmup,
              leaseState, leaseAccount, ttlLeft, emitting>>
engineVars == <<wf, status, counts, bound, retries>>
agentVars == <<leaseOf, cleared>>
vars == <<poolVars, engineVars, agentVars>>

Executing == {"EXECUTING", "TESTING", "FIX"}

Init ==
    /\ LM!Init
    /\ WE!Init
    /\ leaseOf = [t \in Task |-> NoLease]
    /\ cleared = [t \in Task |-> FALSE]

-----------------------------------------------------------------------------
(* startup() registers the default accounts. *)
Startup ==
    /\ \A a \in Account : ~LM!Registered(a)
    /\ LM!RegisterAccounts(Account, "IDLE")
    /\ UNCHANGED <<engineVars, agentVars>>

(* submit_task. *)
Submit(t) ==
    /\ WE!StartTask(t)
    /\ UNCHANGED <<poolVars, agentVars>>

Acquire(t) ==
    /\ leaseOf[t] = NoLease
    /\ WE!Runnable(t)
    /\ \E l \in Lease :
          /\ LM!RequestLease(l, {})
          /\ leaseOf' = [leaseOf EXCEPT ![t] = l]
    /\ UNCHANGED <<engineVars, cleared>>

Bind(t) ==
    /\ leaseOf[t] # NoLease
    /\ bound[t] = NoAccount
    /\ WE!BindTaskAccount(t, leaseAccount[leaseOf[t]])
    /\ UNCHANGED <<poolVars, agentVars>>

(* The agent finds its lease alive and may step, or finds it dead and lets *)
(* go of it.                                                               *)
Ask(t) ==
    /\ bound[t] # NoAccount
    /\ ~cleared[t]
    /\ IF LM!IsAlive(leaseOf[t])
       THEN /\ cleared' = [cleared EXCEPT ![t] = TRUE]
            /\ UNCHANGED <<engineVars, leaseOf>>
       ELSE /\ leaseOf' = [leaseOf EXCEPT ![t] = NoLease]
            /\ WE!UnbindTaskAccount(t)
            /\ UNCHANGED cleared
    /\ UNCHANGED poolVars

Step(t) ==
    /\ cleared[t]
    /\ \E h \in Action, result \in {"ok", "failed"} : WE!ExecuteStep(t, h, result)
    /\ cleared' = [cleared EXCEPT ![t] = FALSE]
    /\ UNCHANGED <<poolVars, leaseOf>>

Finish(t) ==
    /\ leaseOf[t] # NoLease
    /\ ~WE!Runnable(t)
    /\ LM!ReleaseLease(leaseOf[t])
    /\ WE!UnbindTaskAccount(t)
    /\ leaseOf' = [leaseOf EXCEPT ![t] = NoLease]
    /\ cleared' = [cleared EXCEPT ![t] = FALSE]

(* halt_task and resume_task: anybody may call these two endpoints.        *)
Halt(t) ==
    /\ WE!HaltTask(t)
    /\ UNCHANGED <<poolVars, agentVars>>

Resume(t) ==
    /\ WE!ResumeTask(t)
    /\ UNCHANGED <<poolVars, agentVars>>

KeepAlive(t) ==
    /\ leaseOf[t] # NoLease
    /\ LM!Heartbeat(leaseOf[t])
    /\ UNCHANGED <<engineVars, agentVars>>

Jail(c, a) ==
    /\ LM!MarkUnavailable(c, a, "JAIL")
    /\ UNCHANGED <<engineVars, agentVars>>

(* _emit calls the engine's handler in the thread that jailed the account. *)
Deliver(c) ==
    /\ LM!Emit(c)
    /\ WE!HandleAccountEvent(emitting[c].account, emitting[c].new)
    /\ UNCHANGED agentVars

Reclaim ==
    /\ LM!ReclaimExpired
    /\ UNCHANGED <<engineVars, agentVars>>

Tick ==
    /\ LM!Tick
    /\ UNCHANGED <<engineVars, agentVars>>

Next ==
    \/ Startup
    \/ \E t \in Task : \/ Submit(t) \/ Acquire(t) \/ Bind(t) \/ Ask(t)
                       \/ Step(t) \/ Finish(t) \/ KeepAlive(t)
                       \/ Halt(t) \/ Resume(t)
    \/ \E c \in Caller, a \in Account : Jail(c, a)
    \/ \E c \in Caller : Deliver(c)
    \/ Reclaim
    \/ Tick

Spec == Init /\ [][Next]_vars

-----------------------------------------------------------------------------
(* Properties. *)

(* Account -> JAIL -> Force Expire Lease -> Workflow -> REPLAN: once the   *)
(* event is delivered, no task whose agent works under a lease on the      *)
(* account is left executing, not even one that had not bound itself yet.  *)
JailReachesHolders ==
    [][\A c \in Caller, t \in Task :
          /\ Deliver(c)
          /\ emitting[c].new = "JAIL"
          /\ leaseOf[t] # NoLease
          /\ leaseAccount[leaseOf[t]] = emitting[c].account
          => wf'[t] \notin Executing]_vars

(* "Permanently disable account" (account.py): a jailed account comes back *)
(* to the pool only when an agent gives back, late, a lease that the       *)
(* jailing or an earlier reclamation had ended (lease_manager.py:160); no  *)
(* lease in force, no reclamation and no other agent brings it back.       *)
JailEndsLate ==
    [][\A a \in Account :
          accountState[a] = "JAIL" /\ accountState'[a] # "JAIL"
          => \E t \in Task :
                /\ leaseOf[t] # NoLease
                /\ leaseAccount[leaseOf[t]] = a
                /\ leaseState[leaseOf[t]] = "EXPIRED"
                /\ leaseState'[leaseOf[t]] = "RELEASED"]_vars

(* lease.py: two agents never use the same account concurrently.           *)
Exclusive == LM!Exclusive
=============================================================================
