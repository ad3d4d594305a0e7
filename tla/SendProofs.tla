----------------------------- MODULE SendProofs -----------------------------
(***************************************************************************)
(* What the sends of a provider and the fan-outs keep, for any number of   *)
(* requests and of calls.                                                  *)
(***************************************************************************)
EXTENDS ProviderSend, FanOut, TLAPS

-----------------------------------------------------------------------------
(* ProviderSend.  The strengthening says which pages and drivers an        *)
(* attempt can find: a driver is held only by a request that has not       *)
(* launched yet or runs on it, and the second attempt always reuses the    *)
(* page of the first.                                                      *)

(* What a request has in hand at each point of its send. *)
RequestInv(r) ==
    /\ drivers[r] = IF r \in held THEN 1 ELSE 0
    /\ phase[r] = "idle" => r \notin held
    /\ phase[r] = "sending" /\ page[r] = "none" => r \notin held
    /\ phase[r] = "sending" /\ attempt[r] = 2 => page[r] # "none"
    /\ phase[r] = "failed" /\ attempt[r] = 2 => error[r] # "auth"

IInv == TypeOK /\ PauseFitsFailures /\ \A r \in Adapter : RequestInv(r)

LEMMA InitInv == Init => IInv
  BY DEF Init, IInv, TypeOK, PauseFitsFailures, RequestInv, Failure, Page, MaxRetries

(* The shared cooldown: each operation on it keeps its domain and its fit. *)
LEMMA CooldownKept ==
  ASSUME TypeOK, PauseFitsFailures,
         \/ RecordFailure
         \/ RecordSuccess
         \/ cooldownLeft > 0 /\ cooldownLeft' = cooldownLeft - 1 /\ UNCHANGED failures
         \/ UNCHANGED shared
  PROVE  cooldownLeft' \in 0 .. 10 /\ failures' \in 0 .. 5 /\ PauseFitsFailures'
  <1> USE DEF TypeOK, PauseFitsFailures, Backoff
  <1>1. CASE RecordFailure
    <2>1. failures' \in 1 .. 5 /\ cooldownLeft' = Backoff(failures')
      BY <1>1 DEF RecordFailure
    <2>2. QED
      BY <2>1
  <1>2. CASE RecordSuccess
    BY <1>2 DEF RecordSuccess
  <1>3. CASE cooldownLeft > 0 /\ cooldownLeft' = cooldownLeft - 1 /\ UNCHANGED failures
    BY <1>3
  <1>4. CASE UNCHANGED shared
    BY <1>4 DEF shared
  <1>5. QED
    BY <1>1, <1>2, <1>3, <1>4

LEMMA StepInv == IInv /\ [Next]_vars => IInv'
  <1> SUFFICES ASSUME IInv, [Next]_vars PROVE IInv'
    OBVIOUS
  <1> USE DEF IInv, TypeOK, RequestInv, Failure, Page, MaxRetries
  <1>1. ASSUME NEW r \in Adapter, Begin(r) PROVE IInv'
    <2>1. cooldownLeft' \in 0 .. 10 /\ failures' \in 0 .. 5 /\ PauseFitsFailures'
      BY <1>1, CooldownKept DEF Begin, shared
    <2>2. QED
      BY <1>1, <2>1 DEF Begin, shared
  <1>2. ASSUME NEW r \in Adapter, LaunchFails(r) PROVE IInv'
    <2>1. cooldownLeft' \in 0 .. 10 /\ failures' \in 0 .. 5 /\ PauseFitsFailures'
      BY <1>2, CooldownKept DEF LaunchFails, shared
    <2>2. QED
      BY <1>2, <2>1 DEF LaunchFails, Cached, StartDriver, shared
  <1>3. ASSUME NEW r \in Adapter, Opened(r) PROVE IInv'
    <2>1. cooldownLeft' \in 0 .. 10 /\ failures' \in 0 .. 5 /\ PauseFitsFailures'
      BY <1>3, CooldownKept DEF Opened, shared
    <2>2. QED
      BY <1>3, <2>1 DEF Opened, Cached, StartDriver, shared
  <1>4. ASSUME NEW r \in Adapter, Succeeds(r) PROVE IInv'
    <2>1. cooldownLeft' \in 0 .. 10 /\ failures' \in 0 .. 5 /\ PauseFitsFailures'
      BY <1>4, CooldownKept DEF Succeeds
    <2>2. QED
      BY <1>4, <2>1 DEF Succeeds, Cached
  <1>5. ASSUME NEW r \in Adapter, Fails(r) PROVE IInv'
    <2>1. cooldownLeft' \in 0 .. 10 /\ failures' \in 0 .. 5 /\ PauseFitsFailures'
      BY <1>5, CooldownKept DEF Fails, shared
    <2>2. QED
      BY <1>5, <2>1 DEF Fails, Cached, shared
  <1>6. ASSUME NEW r \in Adapter, DismissPopup(r) PROVE IInv'
    <2>1. cooldownLeft' \in 0 .. 10 /\ failures' \in 0 .. 5 /\ PauseFitsFailures'
      BY <1>6, CooldownKept DEF DismissPopup, shared
    <2>2. QED
      BY <1>6, <2>1 DEF DismissPopup, Recoverable, Retry, shared
  <1>7. ASSUME NEW r \in Adapter, RefreshPage(r) PROVE IInv'
    <2>1. cooldownLeft' \in 0 .. 10 /\ failures' \in 0 .. 5 /\ PauseFitsFailures'
      BY <1>7, CooldownKept DEF RefreshPage, shared
    <2>2. QED
      BY <1>7, <2>1 DEF RefreshPage, Recoverable, Retry, shared
  <1>8. ASSUME NEW r \in Adapter, NewContext(r) PROVE IInv'
    <2>1. cooldownLeft' \in 0 .. 10 /\ failures' \in 0 .. 5 /\ PauseFitsFailures'
      BY <1>8, CooldownKept DEF NewContext, shared
    <2>2. QED
      BY <1>8, <2>1 DEF NewContext, Recoverable, Retry, Close, StopDriver, shared
  <1>9. ASSUME NEW r \in Adapter, GiveUp(r) PROVE IInv'
    <2>1. cooldownLeft' \in 0 .. 10 /\ failures' \in 0 .. 5 /\ PauseFitsFailures'
      BY <1>9, CooldownKept DEF GiveUp
    <2>2. QED
      BY <1>9, <2>1 DEF GiveUp
  <1>10. ASSUME NEW r \in Adapter, Finish(r) PROVE IInv'
    <2>1. cooldownLeft' \in 0 .. 10 /\ failures' \in 0 .. 5 /\ PauseFitsFailures'
      BY <1>10, CooldownKept DEF Finish, shared
    <2>2. QED
      BY <1>10, <2>1 DEF Finish, StopDriver, shared
  <1>11. ASSUME Tick PROVE IInv'
    BY <1>11, CooldownKept DEF Tick, private
  <1>12. CASE UNCHANGED vars
    BY <1>12, CooldownKept DEF vars, shared
  <1>13. QED
    BY <1>1, <1>2, <1>3, <1>4, <1>5, <1>6, <1>7, <1>8, <1>9, <1>10, <1>11, <1>12
    DEF Next, Work

LEMMA InvHolds == Spec => []IInv
  BY InitInv, StepInv, PTL DEF Spec

(* The cooldown and the adapters keep their domains. *)
THEOREM TypeCorrect == Spec => []TypeOK
  <1>1. IInv => TypeOK
    BY DEF IInv
  <1>2. QED
    BY <1>1, InvHolds, PTL

(* However requests overlap, a pause is never longer than the failures     *)
(* since the last success account for (ProviderCooldown).                  *)
THEOREM PauseFits == Spec => []PauseFitsFailures
  <1>1. IInv => PauseFitsFailures
    BY DEF IInv
  <1>2. QED
    BY <1>1, InvHolds, PTL

(* No request runs two browser drivers or leaves one behind (send, close). *)
THEOREM NoDriverIsLeft == Spec => []NoDriverLeaks
  <1>1. ASSUME IInv, NEW r \in Adapter
        PROVE  drivers[r] <= 1 /\ (phase[r] = "idle" => drivers[r] = 0)
    <2>1. RequestInv(r)
      BY <1>1 DEF IInv
    <2>2. CASE r \in held
      BY <2>1, <2>2 DEF RequestInv
    <2>3. CASE r \notin held
      BY <2>1, <2>3 DEF RequestInv
    <2>4. QED
      BY <2>2, <2>3
  <1>2. IInv => NoDriverLeaks
    BY <1>1 DEF NoDriverLeaks
  <1>3. QED
    BY <1>2, InvHolds, PTL

(* attempt_recovery never gets to renew the cookies. *)
THEOREM CookieStrategyIsDead == Spec => []CookiesAreNeverReloaded
  <1>1. IInv => CookiesAreNeverReloaded
    BY DEF IInv, CookiesAreNeverReloaded, RequestInv
  <1>2. QED
    BY <1>1, InvHolds, PTL

-----------------------------------------------------------------------------
(* FanOut.  The invariants are inductive once the types are known: only    *)
(* the call that closes or stops something leaves the stage that vouches   *)
(* for an attribute, and it clears the attribute in the same step.         *)

FanInv == FanTypeOK /\ NoLeftoverBrowser /\ SharedDriverRuns

LEMMA FanInitInv == FanInit => FanInv
  BY NoneAssumption
  DEF FanInit, FanInv, FanTypeOK, NoLeftoverBrowser, SharedDriverRuns, Phase

LEMMA FanTypeStep == FanTypeOK /\ [FanNext]_fanVars => FanTypeOK'
  <1> SUFFICES ASSUME FanTypeOK, [FanNext]_fanVars PROVE FanTypeOK'
    OBVIOUS
  <1> USE DEF FanTypeOK, Phase, Await
  <1>1. ASSUME NEW f \in Call, EnterFan(f) PROVE FanTypeOK'
    BY <1>1 DEF EnterFan, NeedBrowser
  <1>2. ASSUME NEW f \in Call, Started(f) PROVE FanTypeOK'
    BY <1>2 DEF Started, NeedBrowser
  <1>3. ASSUME NEW f \in Call, Launched(f) PROVE FanTypeOK'
    <2>1. on[f] \in Driver
      BY <1>3 DEF Launched
    <2>2. QED
      BY <1>3, <2>1 DEF Launched, Running
  <1>4. ASSUME NEW f \in Call, Raises(f) PROVE FanTypeOK'
    BY <1>4 DEF Raises
  <1>5. ASSUME NEW f \in Call, Sent(f) PROVE FanTypeOK'
    BY <1>5 DEF Sent, StopOrReturn
  <1>6. ASSUME NEW f \in Call, Closed(f) PROVE FanTypeOK'
    BY <1>6 DEF Closed, StopOrReturn
  <1>7. ASSUME NEW f \in Call, Stopped(f) PROVE FanTypeOK'
    BY <1>7 DEF Stopped
  <1>8. CASE UNCHANGED fanVars
    BY <1>8 DEF fanVars
  <1>9. QED
    BY <1>1, <1>2, <1>3, <1>4, <1>5, <1>6, <1>7, <1>8 DEF FanNext, Resume

LEMMA LeftoverStep == FanTypeOK /\ NoLeftoverBrowser /\ [FanNext]_fanVars => NoLeftoverBrowser'
  <1> SUFFICES ASSUME FanTypeOK, NoLeftoverBrowser, [FanNext]_fanVars PROVE NoLeftoverBrowser'
    OBVIOUS
  <1> USE DEF FanTypeOK, NoLeftoverBrowser, Await
  <1>1. ASSUME NEW f \in Call, EnterFan(f) PROVE NoLeftoverBrowser'
    BY <1>1 DEF EnterFan, NeedBrowser
  <1>2. ASSUME NEW f \in Call, Started(f) PROVE NoLeftoverBrowser'
    BY <1>2 DEF Started, NeedBrowser
  <1>3. ASSUME NEW f \in Call, Launched(f) PROVE NoLeftoverBrowser'
    BY <1>3 DEF Launched
  <1>4. ASSUME NEW f \in Call, Raises(f) PROVE NoLeftoverBrowser'
    BY <1>4 DEF Raises
  <1>5. ASSUME NEW f \in Call, Sent(f) PROVE NoLeftoverBrowser'
    BY <1>5 DEF Sent, StopOrReturn
  <1>6. ASSUME NEW f \in Call, Closed(f) PROVE NoLeftoverBrowser'
    BY <1>6 DEF Closed
  <1>7. ASSUME NEW f \in Call, Stopped(f) PROVE NoLeftoverBrowser'
    BY <1>7 DEF Stopped
  <1>8. CASE UNCHANGED fanVars
    BY <1>8 DEF fanVars
  <1>9. QED
    BY <1>1, <1>2, <1>3, <1>4, <1>5, <1>6, <1>7, <1>8 DEF FanNext, Resume

LEMMA DriverStep == FanTypeOK /\ SharedDriverRuns /\ [FanNext]_fanVars => SharedDriverRuns'
  <1> SUFFICES ASSUME FanTypeOK, SharedDriverRuns, [FanNext]_fanVars PROVE SharedDriverRuns'
    OBVIOUS
  <1> USE DEF FanTypeOK, SharedDriverRuns, Await
  <1>1. ASSUME NEW f \in Call, EnterFan(f) PROVE SharedDriverRuns'
    BY <1>1 DEF EnterFan, NeedBrowser
  <1>2. ASSUME NEW f \in Call, Started(f) PROVE SharedDriverRuns'
    BY <1>2 DEF Started, NeedBrowser
  <1>3. ASSUME NEW f \in Call, Launched(f) PROVE SharedDriverRuns'
    BY <1>3 DEF Launched
  <1>4. ASSUME NEW f \in Call, Raises(f) PROVE SharedDriverRuns'
    BY <1>4 DEF Raises
  <1>5. ASSUME NEW f \in Call, Sent(f) PROVE SharedDriverRuns'
    BY <1>5 DEF Sent, StopOrReturn
  <1>6. ASSUME NEW f \in Call, Closed(f) PROVE SharedDriverRuns'
    BY <1>6 DEF Closed, StopOrReturn
  <1>7. ASSUME NEW f \in Call, Stopped(f) PROVE SharedDriverRuns'
    BY <1>7 DEF Stopped
  <1>8. CASE UNCHANGED fanVars
    BY <1>8 DEF fanVars
  <1>9. QED
    BY <1>1, <1>2, <1>3, <1>4, <1>5, <1>6, <1>7, <1>8 DEF FanNext, Resume

LEMMA FanInvHolds == FanSpec => []FanInv
  <1>1. FanInv /\ [FanNext]_fanVars => FanInv'
    BY FanTypeStep, LeftoverStep, DriverStep DEF FanInv
  <1>2. QED
    BY <1>1, FanInitInv, PTL DEF FanSpec

(* The class attributes and the calls keep their domains. *)
THEOREM FanTypeCorrect == FanSpec => []FanTypeOK
  <1>1. FanInv => FanTypeOK
    BY DEF FanInv
  <1>2. QED
    BY <1>1, FanInvHolds, PTL

(* A finished fan_out leaves no browser in cls._shared_browser. *)
THEOREM NothingIsLeftOver == FanSpec => []NoLeftoverBrowser
  <1>1. FanInv => NoLeftoverBrowser
    BY DEF FanInv
  <1>2. QED
    BY <1>1, FanInvHolds, PTL

(* cls._shared_playwright never holds a driver that is gone for good. *)
THEOREM SharedDriverIsUsable == FanSpec => []SharedDriverRuns
  <1>1. FanInv => SharedDriverRuns
    BY DEF FanInv
  <1>2. QED
    BY <1>1, FanInvHolds, PTL
=============================================================================
