------------------------ MODULE WorkflowEngineProofs ------------------------
(***************************************************************************)
(* Proofs about WorkflowEngine, for every set of tasks, accounts and       *)
(* actions, every loop limit and every retry budget.                       *)
(***************************************************************************)
EXTENDS WorkflowEngine, TLAPS

(* LoopBreakerHolds is what keeps the action counters in their range (a    *)
(* task is stepped only while runnable, hence within its limit), and       *)
(* SpentTasksAreParked is what keeps the retry counter in its own.         *)
CoreInv == TypeOK /\ LoopBreakerHolds /\ FsmAgreesWithStatus
EngineInv == CoreInv /\ SpentTasksAreParked

LEMMA StatusOfType ==
  ASSUME NEW w \in WorkflowState
  PROVE  StatusOf(w) \in TaskStatus
  BY DEF StatusOf, WorkflowState, TaskStatus

LEMMA ResolveType ==
  ASSUME NEW w \in WorkflowState, NEW result, NEW v \in ResolveNextState(w, result)
  PROVE  v \in {"PLANNING", "EXECUTING", "TESTING", "FIX", "DONE"}
  BY DEF ResolveNextState, WorkflowState

LEMMA EngineInit == Init => EngineInv
  BY WorkflowAssumption DEF Init, EngineInv, CoreInv, TypeOK, LoopBreakerHolds, FsmAgreesWithStatus,
     SpentTasksAreParked,
     NoActions, WorkflowState, TaskStatus, StatusOf

(* A move keeps FSM and status together.                                   *)
LEMMA MoveAgrees ==
  ASSUME TypeOK, FsmAgreesWithStatus, NEW t \in Task, NEW w \in WorkflowState, Move(t, w)
  PROVE  /\ wf' \in [Task -> WorkflowState]
         /\ status' \in [Task -> TaskStatus]
         /\ FsmAgreesWithStatus'
  BY StatusOfType DEF TypeOK, FsmAgreesWithStatus, Move

LEMMA CoreStep == EngineInv /\ [Next]_vars => CoreInv'
  <1> SUFFICES ASSUME EngineInv, [Next]_vars PROVE CoreInv'
    OBVIOUS
  <1>t. TypeOK /\ LoopBreakerHolds /\ FsmAgreesWithStatus /\ SpentTasksAreParked
    BY DEF EngineInv, CoreInv
  <1>z. NoActions \in [Action -> 0 .. LoopLimit + 1] /\ \A h \in Action : NoActions[h] = 0
    BY WorkflowAssumption DEF NoActions
  <1>1. ASSUME NEW t \in Task, StartTask(t) PROVE CoreInv'
    <2>1. Move(t, "PLANNING") /\ "PLANNING" \in WorkflowState
      BY <1>1 DEF StartTask, WorkflowState
    <2>2. TypeOK'
      BY <1>1, <1>t, <1>z, <2>1, MoveAgrees DEF StartTask, TypeOK
    <2>3. LoopBreakerHolds'
      BY <1>1, <1>t, <1>z, <2>1, WorkflowAssumption
      DEF StartTask, TypeOK, LoopBreakerHolds, Move, Runnable
    <2>4. QED
      BY <1>t, <2>1, <2>2, <2>3, MoveAgrees DEF CoreInv
  <1>2. ASSUME NEW t \in Task, HaltTask(t) PROVE CoreInv'
    <2>1. Move(t, "HALTED") /\ "HALTED" \in WorkflowState
      BY <1>2 DEF HaltTask, WorkflowState
    <2>2. TypeOK'
      BY <1>2, <1>t, <2>1, MoveAgrees DEF HaltTask, TypeOK
    <2>3. LoopBreakerHolds'
      BY <1>2, <1>t, <2>1 DEF HaltTask, TypeOK, LoopBreakerHolds, Move, Runnable, StatusOf
    <2>4. QED
      BY <1>t, <2>1, <2>2, <2>3, MoveAgrees DEF CoreInv
  <1>3. ASSUME NEW t \in Task, ResumeTask(t) PROVE CoreInv'
    <2>1. Move(t, "PLANNING") /\ "PLANNING" \in WorkflowState
      BY <1>3 DEF ResumeTask, WorkflowState
    <2>2. TypeOK'
      BY <1>3, <1>t, <1>z, <2>1, MoveAgrees DEF ResumeTask, TypeOK
    <2>3. LoopBreakerHolds'
      BY <1>3, <1>t, <1>z, <2>1, WorkflowAssumption
      DEF ResumeTask, TypeOK, LoopBreakerHolds, Move, Runnable
    <2>4. QED
      BY <1>t, <2>1, <2>2, <2>3, MoveAgrees DEF CoreInv
  <1>4. ASSUME NEW t \in Task, NEW h \in Action, NEW result \in StepResult,
               ExecuteStep(t, h, result)
        PROVE  CoreInv'
    <2>1. counts[t][h] \in 0 .. LoopLimit
      BY <1>4, <1>t, WorkflowAssumption DEF ExecuteStep, TypeOK, LoopBreakerHolds
    <2>2. counts' \in [Task -> [Action -> 0 .. LoopLimit + 1]]
      BY <1>4, <1>t, <2>1, WorkflowAssumption DEF ExecuteStep, TypeOK
    <2>3. CASE counts[t][h] + 1 > LoopLimit
      <3>1. Move(t, "HALTED") /\ "HALTED" \in WorkflowState
        BY <1>4, <2>3 DEF ExecuteStep, WorkflowState
      <3>2. TypeOK'
        BY <1>4, <1>t, <2>2, <3>1, MoveAgrees DEF ExecuteStep, TypeOK
      <3>3. LoopBreakerHolds'
        BY <1>4, <1>t, <3>1
        DEF ExecuteStep, TypeOK, LoopBreakerHolds, Move, Runnable, StatusOf
      <3>4. QED
        BY <1>t, <3>1, <3>2, <3>3, MoveAgrees DEF CoreInv
    <2>4. CASE counts[t][h] + 1 <= LoopLimit
      <3>1. \A k \in Action : counts'[t][k] > LoopLimit => FALSE
        <4>1. \A k \in Action : counts[t][k] <= LoopLimit
          BY <1>4, <1>t, WorkflowAssumption DEF ExecuteStep, LoopBreakerHolds, TypeOK
        <4>2. QED
          BY <1>4, <1>t, <2>1, <2>4, <4>1, WorkflowAssumption DEF ExecuteStep, TypeOK
      <3>2. LoopBreakerHolds'
        <4>1. \A u \in Task \ {t} : status'[u] = status[u] /\ counts'[u] = counts[u]
          BY <1>4, <1>t, <2>1, <2>4, WorkflowAssumption DEF ExecuteStep, TypeOK, Move
        <4>2. QED
          BY <1>t, <3>1, <4>1 DEF LoopBreakerHolds, Runnable
      <3>3. CASE ResolveNextState(wf[t], result) = {}
        <4>1. UNCHANGED <<wf, status>>
          BY <1>4, <2>1, <2>4, <3>3, WorkflowAssumption DEF ExecuteStep
        <4>2. QED
          BY <1>4, <1>t, <2>2, <3>2, <4>1
          DEF ExecuteStep, TypeOK, FsmAgreesWithStatus, CoreInv
      <3>4. CASE ResolveNextState(wf[t], result) # {}
        <4>1. PICK w \in ResolveNextState(wf[t], result) : Move(t, w)
          BY <1>4, <2>1, <2>4, <3>4, WorkflowAssumption DEF ExecuteStep
        <4>2. w \in WorkflowState
          BY <1>t, <4>1, ResolveType DEF TypeOK, WorkflowState
        <4>3. TypeOK'
          BY <1>4, <1>t, <2>2, <4>1, <4>2, MoveAgrees DEF ExecuteStep, TypeOK
        <4>4. QED
          BY <1>t, <3>2, <4>1, <4>2, <4>3, MoveAgrees DEF CoreInv
      <3>5. QED
        BY <3>3, <3>4
    <2>5. QED
      BY <2>1, <2>3, <2>4, WorkflowAssumption
  <1>5. ASSUME NEW t \in Task, NEW a \in Account, BindTaskAccount(t, a) PROVE CoreInv'
    BY <1>5, <1>t
    DEF BindTaskAccount, TypeOK, LoopBreakerHolds, FsmAgreesWithStatus, CoreInv, Runnable
  <1>6. ASSUME NEW t \in Task, UnbindTaskAccount(t) PROVE CoreInv'
    BY <1>6, <1>t
    DEF UnbindTaskAccount, TypeOK, LoopBreakerHolds, FsmAgreesWithStatus, CoreInv, Runnable
  <1>7. ASSUME NEW a \in Account, NEW state \in {"JAIL", "COOLDOWN"},
               HandleAccountEvent(a, state)
        PROVE  CoreInv'
    <2>1. TypeOK'
      BY <1>7, <1>t DEF HandleAccountEvent, TypeOK, WorkflowState
    <2>2. LoopBreakerHolds'
      BY <1>7, <1>t DEF HandleAccountEvent, LoopBreakerHolds, Runnable
    <2>3. FsmAgreesWithStatus'
      BY <1>7, <1>t
      DEF HandleAccountEvent, Replanned, FsmAgreesWithStatus, StatusOf, TypeOK, WorkflowState
    <2>4. QED
      BY <2>1, <2>2, <2>3 DEF CoreInv
  <1>8. ASSUME NEW t \in Task, MarkFailed(t) PROVE CoreInv'
    <2>1. TypeOK'
      BY <1>8, <1>t, WorkflowAssumption DEF MarkFailed, TypeOK, TaskStatus
    <2>2. LoopBreakerHolds'
      BY <1>8, <1>t DEF MarkFailed, TypeOK, LoopBreakerHolds, Runnable
    <2>3. FsmAgreesWithStatus'
      <3>1. CASE status[t] \in {"DONE", "DLQ"}
        <4>1. status' = status
          BY <1>8, <1>t, <3>1 DEF MarkFailed, TypeOK
        <4>2. QED
          BY <1>8, <1>t, <4>1 DEF MarkFailed, FsmAgreesWithStatus
      <3>2. CASE status[t] \notin {"DONE", "DLQ"}
        <4>1. wf[t] # "DONE"
          BY <1>t, <3>2 DEF FsmAgreesWithStatus, StatusOf
        <4>2. status'[t] \in {"FAILED", "DLQ"}
          BY <1>8, <1>t, <3>2 DEF MarkFailed, TypeOK
        <4>3. \A u \in Task \ {t} : status'[u] = status[u]
          BY <1>8, <1>t DEF MarkFailed, TypeOK
        <4>4. QED
          BY <1>8, <1>t, <4>1, <4>2, <4>3 DEF MarkFailed, FsmAgreesWithStatus
      <3>3. QED
        BY <3>1, <3>2
    <2>4. QED
      BY <2>1, <2>2, <2>3 DEF CoreInv
  <1>9. CASE UNCHANGED vars
    BY <1>9, <1>t DEF vars, TypeOK, LoopBreakerHolds, FsmAgreesWithStatus, CoreInv, Runnable
  <1>10. QED
    BY <1>1, <1>2, <1>3, <1>4, <1>5, <1>6, <1>7, <1>8, <1>9 DEF Next

LEMMA SpentStep == EngineInv /\ [Next]_vars => SpentTasksAreParked'
  <1> SUFFICES ASSUME EngineInv, [Next]_vars PROVE SpentTasksAreParked'
    OBVIOUS
  <1>t. TypeOK /\ SpentTasksAreParked
    BY DEF EngineInv, CoreInv
  <1> USE DEF TypeOK, SpentTasksAreParked, Move
  <1>1. ASSUME NEW t \in Task, StartTask(t) \/ HaltTask(t) \/ ResumeTask(t)
        PROVE  SpentTasksAreParked'
    BY <1>1, <1>t DEF StartTask, HaltTask, ResumeTask
  <1>2. ASSUME NEW t \in Task, NEW h \in Action, NEW result \in StepResult,
               ExecuteStep(t, h, result)
        PROVE  SpentTasksAreParked'
    <2>1. retries' = retries /\ \A u \in Task \ {t} : status'[u] = status[u]
      BY <1>2, <1>t DEF ExecuteStep
    <2>2. status[t] \notin {"DONE", "DLQ"}
      BY <1>2 DEF ExecuteStep, Runnable
    <2>3. QED
      BY <1>t, <2>1, <2>2
  <1>3. ASSUME NEW t \in Task, NEW a \in Account, BindTaskAccount(t, a)
        PROVE  SpentTasksAreParked'
    BY <1>3, <1>t DEF BindTaskAccount
  <1>4. ASSUME NEW t \in Task, UnbindTaskAccount(t)
        PROVE  SpentTasksAreParked'
    BY <1>4, <1>t DEF UnbindTaskAccount
  <1>5. ASSUME NEW a \in Account, NEW state \in {"JAIL", "COOLDOWN"},
               HandleAccountEvent(a, state)
        PROVE  SpentTasksAreParked'
    BY <1>5, <1>t DEF HandleAccountEvent
  <1>6. ASSUME NEW t \in Task, MarkFailed(t)
        PROVE  SpentTasksAreParked'
    BY <1>6, <1>t DEF MarkFailed
  <1>7. CASE UNCHANGED vars
    BY <1>7, <1>t DEF vars
  <1>8. QED
    BY <1>1, <1>2, <1>3, <1>4, <1>5, <1>6, <1>7 DEF Next

LEMMA EngineInvariant == Spec => []EngineInv
  <1>1. EngineInv /\ [Next]_vars => EngineInv'
    BY CoreStep, SpentStep DEF EngineInv
  <1>2. QED
    BY EngineInit, <1>1, PTL DEF Spec

(* The engine's maps and the tasks' fields keep their types; the action    *)
(* counters never pass LoopLimit + 1 and the retries never MaxRetries.     *)
THEOREM TypeCorrect == Spec => []TypeOK
  BY EngineInvariant, PTL DEF EngineInv, CoreInv

(* A task past the loop limit cannot be stepped, however many replans,     *)
(* halts and failures it went through.                                     *)
THEOREM LoopBreakerWorks == Spec => []LoopBreakerHolds
  BY EngineInvariant, PTL DEF EngineInv, CoreInv

(* The FSM and the task status diverge only by a replan or a failure.      *)
THEOREM FsmFollowsStatus == Spec => []FsmAgreesWithStatus
  BY EngineInvariant, PTL DEF EngineInv, CoreInv

(* A task whose retries are used up sits in the DLQ.                       *)
THEOREM SpentTasksStayParked == Spec => []SpentTasksAreParked
  BY EngineInvariant, PTL DEF EngineInv

-----------------------------------------------------------------------------
LEMMA AbsorbingStep ==
  ASSUME TypeOK, [Next]_vars, NEW t \in Task, status[t] \in {"DONE", "DLQ"}
  PROVE  status'[t] = status[t]
  <1> USE DEF TypeOK, Move
  <1>1. ASSUME NEW u \in Task, StartTask(u) \/ HaltTask(u) \/ ResumeTask(u)
        PROVE  status'[t] = status[t]
    BY <1>1 DEF StartTask, HaltTask, ResumeTask
  <1>2. ASSUME NEW u \in Task, NEW h \in Action, NEW result \in StepResult,
               ExecuteStep(u, h, result)
        PROVE  status'[t] = status[t]
    BY <1>2 DEF ExecuteStep, Runnable
  <1>3. ASSUME NEW u \in Task, NEW a \in Account, BindTaskAccount(u, a)
        PROVE  status'[t] = status[t]
    BY <1>3 DEF BindTaskAccount
  <1>4. ASSUME NEW u \in Task, UnbindTaskAccount(u)
        PROVE  status'[t] = status[t]
    BY <1>4 DEF UnbindTaskAccount
  <1>5. ASSUME NEW a \in Account, NEW state \in {"JAIL", "COOLDOWN"},
               HandleAccountEvent(a, state)
        PROVE  status'[t] = status[t]
    BY <1>5 DEF HandleAccountEvent
  <1>6. ASSUME NEW u \in Task, MarkFailed(u)
        PROVE  status'[t] = status[t]
    BY <1>6 DEF MarkFailed
  <1>7. CASE UNCHANGED vars
    BY <1>7 DEF vars
  <1>8. QED
    BY <1>1, <1>2, <1>3, <1>4, <1>5, <1>6, <1>7 DEF Next

(* DONE and DLQ are never left.                                            *)
THEOREM FinishedStaysFinished == Spec => TerminalIsAbsorbing
  <1>1. TypeOK /\ [Next]_vars
          => [\A t \in Task : status[t] \in {"DONE", "DLQ"} => status'[t] = status[t]]_vars
    BY AbsorbingStep
  <1>2. QED
    BY <1>1, TypeCorrect, PTL DEF Spec, TerminalIsAbsorbing

LEMMA BudgetStep ==
    TypeOK /\ [Next]_vars
      => [\A t \in Task, h \in Action :
            counts'[t][h] < counts[t][h] => status[t] \in {"IDLE", "HALTED"}]_vars
  <1> SUFFICES ASSUME TypeOK, Next, NEW t \in Task, NEW h \in Action,
                      counts'[t][h] < counts[t][h]
               PROVE  status[t] \in {"IDLE", "HALTED"}
    OBVIOUS
  <1>1. counts \in [Task -> [Action -> Nat]] /\ counts[t][h] \in Nat
    BY DEF TypeOK
  <1>2. ASSUME NEW s \in Task, StartTask(s) \/ ResumeTask(s) PROVE status[t] \in {"IDLE", "HALTED"}
    <2>1. CASE s = t
      BY <1>2, <2>1 DEF StartTask, ResumeTask
    <2>2. CASE s # t
      BY <1>1, <1>2, <2>2 DEF StartTask, ResumeTask
    <2>3. QED
      BY <2>1, <2>2
  <1>3. ASSUME NEW s \in Task, NEW k \in Action, NEW result \in StepResult, ExecuteStep(s, k, result)
        PROVE  FALSE
    <2>1. counts' = [counts EXCEPT ![s][k] = counts[s][k] + 1] /\ counts[s][k] \in Nat
      BY <1>1, <1>3 DEF ExecuteStep, TypeOK
    <2>2. counts'[t][h] = counts[t][h] \/ counts'[t][h] = counts[t][h] + 1
      BY <1>1, <2>1
    <2>3. QED
      BY <1>1, <2>2
  <1>4. counts' # counts
    BY <1>1
  <1>5. QED
    BY <1>2, <1>3, <1>4
      DEF Next, HaltTask, UnbindTaskAccount, MarkFailed, BindTaskAccount, HandleAccountEvent

(* However often a jailed account sends its tasks back to planning, the    *)
(* counts of the loop breaker are wiped only by a start or a resume.       *)
THEOREM BudgetLasts == Spec => BudgetIsKept
  <1>1. TypeOK /\ [Next]_vars
          => [\A t \in Task, h \in Action :
                counts'[t][h] < counts[t][h] => status[t] \in {"IDLE", "HALTED"}]_vars
    BY BudgetStep
  <1>2. QED
    BY <1>1, TypeCorrect, PTL DEF Spec, BudgetIsKept
=============================================================================
