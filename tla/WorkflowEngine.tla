--------------------------- MODULE WorkflowEngine ---------------------------
(***************************************************************************)
(* WorkflowEngine: the finite-state machine that drives each task through  *)
(* planning, execution, testing and fixing, with its loop breaker, halt    *)
(* and resume, and its reaction to account events; and Task.status, which  *)
(* the engine moves along and Task.mark_failed moves behind its back.      *)
(*                                                                         *)
(* The engine's coroutines never suspend between reading and writing its   *)
(* maps, so each method is one action.                                     *)
(***************************************************************************)
EXTENDS Integers

CONSTANTS
    Task,           \* task ids
    Account,        \* account ids
    NoAccount,      \* task bound to no account
    Action,         \* keys of the loop detector (action_hash)
    LoopLimit,      \* an action may be repeated this often (3)
    MaxRetries      \* Task.max_retries (3)

ASSUME WorkflowAssumption ==
    /\ NoAccount \notin Account
    /\ LoopLimit \in Nat
    /\ MaxRetries \in Nat \ {0}

WorkflowState ==
    {"IDLE", "PLANNING", "EXECUTING", "TESTING", "REVIEW", "FIX", "DONE", "HALTED"}
TaskStatus ==
    {"IDLE", "PLANNING", "EXECUTING", "VERIFICATION", "DONE", "FAILED", "HALTED", "DLQ"}
StepResult == {"ok", "failed", "rejected"}

VARIABLES
    wf,         \* _task_states; a task not in the map reads as IDLE
    status,     \* Task.status
    counts,     \* _action_counts
    bound,      \* _task_accounts
    retries     \* Task.retry_count, saturated at MaxRetries

vars == <<wf, status, counts, bound, retries>>

(* The engine's maps and the tasks' fields stay within their domains.      *)
TypeOK ==
    /\ wf \in [Task -> WorkflowState]
    /\ status \in [Task -> TaskStatus]
    /\ counts \in [Task -> [Action -> 0 .. LoopLimit + 1]]
    /\ bound \in [Task -> Account \cup {NoAccount}]
    /\ retries \in [Task -> 0 .. MaxRetries]

NoActions == [h \in Action |-> 0]

Init ==
    /\ wf = [t \in Task |-> "IDLE"]
    /\ status = [t \in Task |-> "IDLE"]
    /\ counts = [t \in Task |-> NoActions]
    /\ bound = [t \in Task |-> NoAccount]
    /\ retries = [t \in Task |-> 0]

-----------------------------------------------------------------------------
(* _state_to_task_status. *)
StatusOf(w) ==
    CASE w \in {"TESTING", "REVIEW"} -> "VERIFICATION"
      [] w = "FIX" -> "EXECUTING"
      [] OTHER -> w

(* _resolve_next_state; {} stands for None.                                *)
ResolveNextState(w, result) ==
    CASE w = "TESTING" /\ result = "failed" -> {"FIX"}
      [] w = "REVIEW" /\ result \in {"rejected", "failed"} -> {"FIX"}
      [] w = "IDLE" -> {"PLANNING"}
      [] w \in {"PLANNING", "FIX"} -> {"EXECUTING"}
      [] w = "EXECUTING" -> {"TESTING"}
      [] w \in {"TESTING", "REVIEW"} -> {"DONE"}
      [] OTHER -> {}

Runnable(t) == status[t] \notin {"DONE", "DLQ", "FAILED", "HALTED"}

Move(t, w) ==
    /\ wf' = [wf EXCEPT ![t] = w]
    /\ status' = [status EXCEPT ![t] = StatusOf(w)]

-----------------------------------------------------------------------------
StartTask(t) ==
    /\ status[t] = "IDLE"
    /\ Move(t, "PLANNING")
    /\ counts' = [counts EXCEPT ![t] = NoActions]
    /\ UNCHANGED <<bound, retries>>

(* The action is counted before anything else, so the call that breaks the *)
(* loop is counted too.                                                    *)
ExecuteStep(t, h, result) ==
    /\ Runnable(t)
    /\ counts' = [counts EXCEPT ![t][h] = @ + 1]
    /\ IF counts[t][h] + 1 > LoopLimit
       THEN Move(t, "HALTED")
       ELSE IF ResolveNextState(wf[t], result) = {}
            THEN UNCHANGED <<wf, status>>
            ELSE \E w \in ResolveNextState(wf[t], result) : Move(t, w)
    /\ UNCHANGED <<bound, retries>>

HaltTask(t) ==
    /\ status[t] \notin {"DONE", "DLQ"}
    /\ Move(t, "HALTED")
    /\ UNCHANGED <<counts, bound, retries>>

ResumeTask(t) ==
    /\ status[t] = "HALTED"
    /\ Move(t, "PLANNING")
    /\ counts' = [counts EXCEPT ![t] = NoActions]
    /\ UNCHANGED <<bound, retries>>

ReplannedFinished(a) ==  \* mutant: finished tasks are sent back as well
    {t \in Task : wf[t] \notin {"IDLE", "PLANNING"} /\ bound[t] \in {NoAccount, a}}

ReplannedBound(a) ==  \* mutant: a task that is not bound yet is left alone
    {t \in Task : wf[t] \in {"EXECUTING", "TESTING", "FIX"} /\ bound[t] = a}

(* A task bound to no account counts as bound to the account of any event. *)
Replanned(a) ==
    {t \in Task : /\ wf[t] \in {"EXECUTING", "TESTING", "FIX"}
                  /\ bound[t] \in {NoAccount, a}}

HandleAccountEventAfresh(a, state) ==  \* mutant: a replan resets the loop detector
    /\ wf' = [t \in Task |-> IF state = "JAIL" /\ t \in Replanned(a)
                             THEN "PLANNING" ELSE wf[t]]
    /\ counts' = [t \in Task |-> IF state = "JAIL" /\ t \in Replanned(a)
                                 THEN NoActions ELSE counts[t]]
    /\ UNCHANGED <<status, bound, retries>>

(* Events of states other than JAIL return at once.                        *)
HandleAccountEvent(a, state) ==
    /\ wf' = [t \in Task |-> IF state = "JAIL" /\ t \in Replanned(a)
                             THEN "PLANNING" ELSE wf[t]]
    /\ UNCHANGED <<status, counts, bound, retries>>

BindTaskAccount(t, a) ==
    /\ bound' = [bound EXCEPT ![t] = a]
    /\ UNCHANGED <<wf, status, counts, retries>>

UnbindTaskAccount(t) ==
    /\ bound' = [bound EXCEPT ![t] = NoAccount]
    /\ UNCHANGED <<wf, status, counts, retries>>

(* Task.mark_failed.  The failure is counted before transition_to, which   *)
(* raises on a DONE task and does nothing on a DLQ task.                   *)
MarkFailed(t) ==
    /\ retries' = [retries EXCEPT ![t] = IF @ < MaxRetries THEN @ + 1 ELSE @]
    /\ status' = [status EXCEPT ![t] =
                     IF @ \in {"DONE", "DLQ"} THEN @
                     ELSE IF retries[t] + 1 >= MaxRetries THEN "DLQ" ELSE "FAILED"]
    /\ UNCHANGED <<wf, counts, bound>>

-----------------------------------------------------------------------------
Next ==
    \/ \E t \in Task : \/ StartTask(t)
                       \/ HaltTask(t)
                       \/ ResumeTask(t)
                       \/ UnbindTaskAccount(t)
                       \/ MarkFailed(t)
    \/ \E t \in Task, h \in Action, result \in StepResult : ExecuteStep(t, h, result)
    \/ \E t \in Task, a \in Account : BindTaskAccount(t, a)
    \/ \E a \in Account, state \in {"JAIL", "COOLDOWN"} : HandleAccountEvent(a, state)

Spec == Init /\ [][Next]_vars

(* Somebody keeps driving a started task: the client that polls the        *)
(* execute endpoint, or an agent loop.  Halts, resumes, jails and failures *)
(* may or may not happen.                                                  *)
DriveTask(t) == \E h \in Action, result \in StepResult : ExecuteStep(t, h, result)

FairSpec == Spec /\ \A t \in Task : WF_vars(wf[t] # "IDLE" /\ DriveTask(t))

-----------------------------------------------------------------------------
(* Properties. *)

(* Task.status and the engine's FSM are written by different code; they    *)
(* may differ only where a jailed account sent the FSM back to PLANNING    *)
(* (the status keeps the old phase until the next step), or after          *)
(* mark_failed, which the engine never sees.  In particular a DONE FSM has *)
(* a DONE task, so the stalled branch of execute_step is dead code.        *)
FsmAgreesWithStatus ==
    \A t \in Task :
        \/ status[t] = StatusOf(wf[t])
        \/ wf[t] = "PLANNING" /\ status[t] \in {"EXECUTING", "VERIFICATION"}
        \/ status[t] \in {"FAILED", "DLQ"} /\ wf[t] # "DONE"

(* The loop breaker cannot be outrun: a task that repeated an action more  *)
(* often than allowed is not runnable, whatever replans, failures and      *)
(* halts came in between, until resume_task starts its books afresh.       *)
LoopBreakerHolds ==
    \A t \in Task, h \in Action : counts[t][h] > LoopLimit => ~Runnable(t)

(* A task that used up its retries is in the DLQ, or was DONE before the   *)
(* last failure was reported; it never runs again, even if it was halted   *)
(* and resumed between its failures.                                       *)
SpentTasksAreParked ==
    \A t \in Task : retries[t] >= MaxRetries => status[t] \in {"DONE", "DLQ"}

(* DONE and DLQ are absorbing (task.py): no late event, halt, resume or    *)
(* failure moves a finished task, although events still reach its FSM.     *)
TerminalIsAbsorbing ==
    [][\A t \in Task : status[t] \in {"DONE", "DLQ"} => status'[t] = status[t]]_vars

(* The books of the loop breaker are wiped only for a fresh start: a       *)
(* replan after a jailed account does not hand a looping task new budget.  *)
BudgetIsKept ==
    [][\A t \in Task, h \in Action :
          counts'[t][h] < counts[t][h] => status[t] \in {"IDLE", "HALTED"}]_vars

(* Every started task that keeps being driven comes to rest: the loop      *)
(* breaker ends even FIX cycles and endless replanning.                    *)
DrivenTasksRest ==
    \A t \in Task : wf[t] # "IDLE" ~> ~Runnable(t)
=============================================================================
