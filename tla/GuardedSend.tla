---------------------------- MODULE GuardedSend ----------------------------
(***************************************************************************)
(* protected_send of ProviderAdapter: a send through the circuit breaker   *)
(* of the adapter, then the validation of what came back.  The breaker     *)
(* does the accounting.  A send that reports its failure in its answer     *)
(* returns, so the breaker records a success.                              *)
(***************************************************************************)
EXTENDS CircuitBreaker, Sequences

CONSTANT Validates      \* validate_responses

VARIABLES
    answers,    \* what each caller was told last
    ended       \* how the last sends that returned or raised did, oldest first

guardVars == <<vars, answers, ended>>

(* What a response can hold that the checks of level 1 tell apart.         *)
Content == {"text", "blank", "broken block", "injection"}
Response == [success : BOOLEAN, content : Content]

GuardInit ==
    /\ Init
    /\ answers = [c \in Caller |-> "none"]
    /\ ended = <<>>

-----------------------------------------------------------------------------
(* Errors refuse a response; a suspicious pattern lowers the score, and    *)
(* level 2, a stub, passes it.                                             *)
Level1(response) ==
    [passed |-> response.success /\ response.content \notin {"blank", "broken block"},
     score |-> IF ~response.success \/ response.content = "blank" THEN 0
               ELSE IF response.content = "broken block" THEN 50
               ELSE IF response.content = "injection" THEN 70 ELSE 100]
Level2 == [passed |-> TRUE, score |-> 100]

Passed(response) ==
    LET first == Level1(response)
    IN  first.passed /\ (first.score < 100 => Level2.passed)

LastOf(s) == IF Len(s) > Threshold THEN Tail(s) ELSE s
Told(c, answer) == answers' = [answers EXCEPT ![c] = answer]

(* call, up to the send.                                                   *)
Begin(c) == Enter(c) /\ UNCHANGED <<answers, ended>>

(* The breaker is OPEN, or HALF_OPEN with its slots taken.                 *)
Rejected(c) ==
    /\ running[c] = "nothing"
    /\ \/ state = "OPEN" /\ ~MayRecover
       \/ state = "HALF_OPEN" /\ halfOpenUsed >= MaxProbes
    /\ Told(c, "failure")
    /\ UNCHANGED <<vars, ended>>

SendReturns(c, response) ==
    /\ Return(c, "success")
    /\ Told(c, IF response.success /\ (Validates => Passed(response))
               THEN "success" ELSE "failure")
    /\ ended' = LastOf(Append(ended, "returned"))

SendRaisesTwice(c) ==  \* mutant: protected_send records the failure too
    /\ running[c] # "nothing"
    /\ failureCount' = IF failureCount + 2 < Threshold THEN failureCount + 2 ELSE Threshold
    /\ timeLeft' = RecoveryTimeout
    /\ state' = IF failureCount + 2 >= Threshold THEN "OPEN" ELSE state
    /\ GiveBack(c, "failure")
    /\ running' = [running EXCEPT ![c] = "nothing"]
    /\ Told(c, "failure")
    /\ ended' = LastOf(Append(ended, "raised"))

(* The exception, which the breaker has recorded, becomes an answer.       *)
SendRaises(c) ==
    /\ Return(c, "failure")
    /\ Told(c, "failure")
    /\ ended' = LastOf(Append(ended, "raised"))

(* A cancelled caller is told nothing.                                     *)
SendCancelled(c) == Return(c, "cancelled") /\ Told(c, "none") /\ UNCHANGED ended

(* safe_health_check asks the adapter unless the circuit is OPEN, and the  *)
(* question is what moves an OPEN circuit on.                              *)
SafeHealthCheck == ReadState /\ UNCHANGED <<answers, ended>>

PassTime == Tick /\ UNCHANGED <<answers, ended>>

GuardNext ==
    \/ \E c \in Caller : \/ Begin(c) \/ Rejected(c) \/ SendRaises(c) \/ SendCancelled(c)
                         \/ \E response \in Response : SendReturns(c, response)
    \/ SafeHealthCheck \/ PassTime

GuardSpec == GuardInit /\ [][GuardNext]_guardVars

-----------------------------------------------------------------------------
(* Each failure is counted once: the circuit opens on an exception, and    *)
(* only when that many sends in a row raised, in the order they ended,     *)
(* whatever was cancelled, rejected or probed in between.  A failure told  *)
(* in an answer, or a response that does not pass, does not count.         *)
OpensOnRaises ==
    [][state # "OPEN" /\ state' = "OPEN"
         => Len(ended') = Threshold /\ \A i \in DOMAIN ended' : ended'[i] = "raised"]_guardVars
=============================================================================
