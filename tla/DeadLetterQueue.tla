-------------------------- MODULE DeadLetterQueue --------------------------
(***************************************************************************)
(* orchestrator/dlq.py: a bounded list of failed tasks.  `push` calls the  *)
(* registered alerts before it returns, and an alert may use the queue     *)
(* itself (retry the task, push another one, register an alert), so the    *)
(* model keeps the stack of pushes that are calling alerts.                *)
(***************************************************************************)
EXTENDS Lists, FiniteSets

CONSTANTS
  DTask,        \* tasks that fail
  MaxEntries,   \* max_entries
  MaxAlerts,    \* bound: registered callbacks
  MaxPushes,    \* bound: pushes in a behaviour
  MaxDepth      \* bound: pushes nested through alerts

ASSUME QueueAssumption == MaxEntries \in Nat

VARIABLES
  entries,   \* _entries: records [task, no]; `no` stands for the error and the logs of the push
  alerts,    \* how many callbacks are registered
  pushing,   \* pushes that have not returned, innermost last: [entry, next callback]
  pushed,    \* number of pushes so far
  latest     \* the number of each task's last push, 0 before the first

dlqVars == <<entries, alerts, pushing, pushed, latest>>

QueueInit ==
  /\ entries = <<>>
  /\ alerts = 0
  /\ pushing = <<>>
  /\ pushed = 0
  /\ latest = [t \in DTask |-> 0]

Innermost == pushing[Len(pushing)]
Alerting == Innermost.next <= alerts

(* Calls come from outside when no push is open, else from the alert that  *)
(* the innermost push is calling.                                          *)
Callable == IF pushing = <<>> THEN TRUE ELSE Alerting

Without(s, t) == Outside(s, {s[i] : i \in {i \in DOMAIN s : s[i].task = t}})
Trimmed(s) == IF Len(s) > MaxEntries THEN Tail(s) ELSE s
DLQEntry(t) == [task |-> t, no |-> pushed + 1]
OpenPush(e) == pushing' = Append(pushing, [entry |-> e, next |-> 1])

(* Mutant: a task that is queued keeps its first entry too.                *)
PushDuplicate(t) ==
  /\ Callable
  /\ pushed < MaxPushes
  /\ Len(pushing) < MaxDepth
  /\ LET e == DLQEntry(t) IN
     /\ entries' = Trimmed(Append(entries, e))
     /\ OpenPush(e)
  /\ pushed' = pushed + 1
  /\ latest' = [latest EXCEPT ![t] = pushed + 1]
  /\ UNCHANGED alerts

PushFailed(t) ==
  /\ Callable
  /\ pushed < MaxPushes
  /\ Len(pushing) < MaxDepth
  /\ LET e == DLQEntry(t) IN
     /\ entries' = Trimmed(Append(Without(entries, t), e))
     /\ OpenPush(e)
  /\ pushed' = pushed + 1
  /\ latest' = [latest EXCEPT ![t] = pushed + 1]
  /\ UNCHANGED alerts

(* The alert returns or raises: push goes on with the next one either way. *)
AlertEnds ==
  /\ pushing # <<>>
  /\ Alerting
  /\ pushing' = [pushing EXCEPT ![Len(pushing)].next = @ + 1]
  /\ UNCHANGED <<entries, alerts, pushed, latest>>

PushReturns ==
  /\ pushing # <<>>
  /\ ~Alerting
  /\ pushing' = SubSeq(pushing, 1, Len(pushing) - 1)
  /\ UNCHANGED <<entries, alerts, pushed, latest>>

PopFailed(t) ==
  /\ Callable
  /\ entries' = Without(entries, t)
  /\ UNCHANGED <<alerts, pushing, pushed, latest>>

ClearQueue ==
  /\ Callable
  /\ entries' = <<>>
  /\ UNCHANGED <<alerts, pushing, pushed, latest>>

RegisterAlert ==
  /\ Callable
  /\ alerts < MaxAlerts
  /\ alerts' = alerts + 1
  /\ UNCHANGED <<entries, pushing, pushed, latest>>

QueueNext ==
  \/ \E t \in DTask : PushFailed(t) \/ PopFailed(t)
  \/ AlertEnds \/ PushReturns \/ ClearQueue \/ RegisterAlert

QueueSpec == QueueInit /\ [][QueueNext]_dlqVars

(* push's promise: whatever the alerts do to the queue while a push is     *)
(* calling them, the queue is within its limit, has one entry per task,    *)
(* the one of its last push, and keeps them in the order of those pushes,  *)
(* so that what a full queue drops is the oldest.                          *)
OneEntryPerTask ==
  /\ Len(entries) <= MaxEntries
  /\ \A i \in DOMAIN entries : entries[i].no = latest[entries[i].task]
  /\ \A i, j \in DOMAIN entries : i < j => entries[i].no < entries[j].no
=============================================================================
