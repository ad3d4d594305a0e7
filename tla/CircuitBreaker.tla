--------------------------- MODULE CircuitBreaker ---------------------------
(***************************************************************************)
(* CircuitBreaker of utils/backoff.py, through which every adapter sends   *)
(* its prompts (adapters/base.py, protected_send).                         *)
(*                                                                         *)
(* Calls run concurrently on one event loop.  A call suspends only while   *)
(* its function runs: the lock of the probe slots is never held across an  *)
(* await, so entering the breaker is one action and returning from the     *)
(* function another.  The function may succeed, raise, or be cancelled;    *)
(* a cancelled call records nothing but gives its probe slot back.         *)
(***************************************************************************)
EXTENDS Integers, FiniteSets

CONSTANTS
    Caller,             \* coroutines that call through the breaker
    Threshold,          \* failure_threshold
    RecoveryTimeout,    \* recovery_timeout_ms
    MaxProbes           \* half_open_max_calls

ASSUME BreakerAssumption ==
    /\ IsFiniteSet(Caller)
    /\ Threshold \in Nat \ {0}
    /\ RecoveryTimeout \in Nat
    /\ MaxProbes \in Nat \ {0}

VARIABLES
    state,          \* _state
    failureCount,   \* _failure_count, saturated at Threshold
    timeLeft,       \* time until _recovery_timeout_ms since the last failure
    halfOpenUsed,   \* _half_open_used
    running         \* what each caller awaits: nothing, a call, a probe

vars == <<state, failureCount, timeLeft, halfOpenUsed, running>>

(* The breaker's fields stay within their domains.                         *)
TypeOK ==
    /\ state \in {"CLOSED", "OPEN", "HALF_OPEN"}
    /\ failureCount \in 0 .. Threshold
    /\ timeLeft \in 0 .. RecoveryTimeout
    /\ halfOpenUsed \in Int
    /\ running \in [Caller -> {"nothing", "call", "probe"}]

Init ==
    /\ state = "CLOSED"
    /\ failureCount = 0
    /\ timeLeft = 0
    /\ halfOpenUsed = 0
    /\ running = [c \in Caller |-> "nothing"]

Probing == {c \in Caller : running[c] = "probe"}

-----------------------------------------------------------------------------

RecordSuccess ==
    /\ failureCount' = 0
    /\ state' = IF state = "HALF_OPEN" THEN "CLOSED" ELSE state
    /\ UNCHANGED timeLeft

RecordFailure ==
    /\ failureCount' = IF failureCount < Threshold THEN failureCount + 1 ELSE Threshold
    /\ timeLeft' = RecoveryTimeout
    /\ state' = IF failureCount + 1 >= Threshold THEN "OPEN" ELSE state

MayRecoverNever == FALSE  \* mutant: the timeout is never seen to elapse

(* The test of _maybe_transition_to_half_open.  An OPEN circuit always has *)
(* a last failure.                                                         *)
MayRecover == state = "OPEN" /\ timeLeft = 0

(* Reading the state property moves an OPEN circuit on.                    *)
ReadState ==
    /\ MayRecover
    /\ state' = "HALF_OPEN"
    /\ halfOpenUsed' = 0
    /\ UNCHANGED <<failureCount, timeLeft, running>>

(* The start of call: the transition that is due, then the slot.  A caller *)
(* that finds the circuit OPEN, or every slot taken, is rejected.          *)
Enter(c) ==
    /\ running[c] = "nothing"
    /\ \/ /\ state = "CLOSED"
          /\ running' = [running EXCEPT ![c] = "call"]
          /\ UNCHANGED <<state, halfOpenUsed>>
       \/ /\ MayRecover
          /\ state' = "HALF_OPEN"
          /\ halfOpenUsed' = 1
          /\ running' = [running EXCEPT ![c] = "probe"]
       \/ /\ state = "HALF_OPEN"
          /\ halfOpenUsed < MaxProbes
          /\ halfOpenUsed' = halfOpenUsed + 1
          /\ running' = [running EXCEPT ![c] = "probe"]
          /\ UNCHANGED state
    /\ UNCHANGED <<failureCount, timeLeft>>

GiveBackUnlessCancelled(c, outcome) ==  \* mutant: no finally around the probe
    halfOpenUsed' = IF running[c] = "probe" /\ outcome # "cancelled"
                    THEN halfOpenUsed - 1 ELSE halfOpenUsed

GiveBack(c, outcome) ==
    halfOpenUsed' = IF running[c] = "probe" THEN halfOpenUsed - 1 ELSE halfOpenUsed

(* The rest of call once the function is done.                             *)
Return(c, outcome) ==
    /\ running[c] # "nothing"
    /\ \/ outcome = "success" /\ RecordSuccess
       \/ outcome = "failure" /\ RecordFailure
       \/ outcome = "cancelled" /\ UNCHANGED <<state, failureCount, timeLeft>>
    /\ GiveBack(c, outcome)
    /\ running' = [running EXCEPT ![c] = "nothing"]

Tick ==
    /\ timeLeft > 0
    /\ timeLeft' = timeLeft - 1
    /\ UNCHANGED <<state, failureCount, halfOpenUsed, running>>

Outcome == {"success", "failure", "cancelled"}

Next ==
    \/ ReadState
    \/ \E c \in Caller : Enter(c)
    \/ \E c \in Caller, outcome \in Outcome : Return(c, outcome)
    \/ Tick

Spec == Init /\ [][Next]_vars

(* Time passes, the functions called end one way or another (adapters put  *)
(* timeouts on their requests), and somebody goes on calling.              *)
FairSpec ==
    /\ Spec
    /\ WF_vars(Tick)
    /\ \A c \in Caller : /\ WF_vars(\E outcome \in Outcome : Return(c, outcome))
                         /\ WF_vars(Enter(c))

-----------------------------------------------------------------------------
(* Properties. *)

(* The breaker has tripped whenever the threshold is reached: calls that   *)
(* return late, in whatever order, never leave or bring it CLOSED with its *)
(* failures still on the books, where one more failure would trip it.      *)
ClosedHasBudget == state = "CLOSED" => failureCount < Threshold

(* No slot leaks: every slot that is taken is taken by a probe still under *)
(* way, so a HALF_OPEN breaker with no probe under way admits one, also    *)
(* after probes were cancelled or the circuit opened and recovered again.  *)
SlotsAreHeldByProbes == halfOpenUsed <= Cardinality(Probing)

(* The OPEN circuit protects the provider for the whole recovery timeout   *)
(* after the last failure: calls that began before it opened and succeed   *)
(* late do not close it.                                                   *)
OpenSitsOutTheTimeout ==
    [][state = "OPEN" /\ timeLeft > 0 => state' = "OPEN"]_vars

(* An OPEN circuit is tried again, however many late failures restart its  *)
(* timeout.                                                                *)
OpenIsProbed == state = "OPEN" ~> state = "HALF_OPEN"

=============================================================================
