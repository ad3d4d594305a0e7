---------------------------- MODULE LeaseManager ----------------------------
(***************************************************************************)
(* The account pool of the orchestrator: LeaseManager, the Lease and       *)
(* Account models it drives, and the passage of time.                      *)
(*                                                                         *)
(* Every public method of LeaseManager runs under one threading.Lock, so a *)
(* method is one action.  The exception is mark_account_unavailable, which *)
(* notifies its handlers after it has dropped the lock: the event is then  *)
(* held by the calling thread (emitting) until its Emit step.  The methods *)
(* of Account (record_success, record_failure, ...) take no lock and are   *)
(* actions of their own.                                                   *)
(*                                                                         *)
(* Deadlines are kept as the time that is left until them: a lease is past *)
(* its deadline when ttlLeft < 0, an account may be used again when        *)
(* cooldownLeft = 0 (no deadline, None in the code, also reads as 0).      *)
(***************************************************************************)
EXTENDS Integers, FiniteSets

CONSTANTS
    Account,            \* account ids
    Lease,              \* lease ids; each is used for one grant
    Provider,           \* provider names
    ProviderOf,         \* the provider of each account
    Caller,             \* threads that call mark_account_unavailable
    NoAccount,          \* account of a lease that was never granted
    NoEvent,            \* a thread with nothing left to emit
    TTL,                \* Lease.ttl_seconds
    LongCooldown,       \* timedelta(minutes=5)
    ShortCooldown,      \* timedelta(minutes=2)
    JailAfter,          \* consecutive failures that jail an account (5)
    CooldownAfter,      \* consecutive failures that cool it down (3)
    RateLimitAfter,     \* rate limits that cool it down (2)
    WarmupSteps         \* Account.total_warmup_steps

ASSUME PoolAssumption ==
    /\ ProviderOf \in [Account -> Provider]
    /\ NoAccount \notin Account
    /\ TTL \in Nat \ {0}
    /\ LongCooldown \in Nat \ {0}
    /\ ShortCooldown \in Nat \ {0}
    /\ JailAfter \in Nat \ {0}
    /\ CooldownAfter \in Nat \ {0}
    /\ RateLimitAfter \in Nat \ {0}
    /\ RateLimitAfter <= JailAfter
    /\ CooldownAfter <= JailAfter
    /\ WarmupSteps \in Nat \ {0}

AccountState == {"IDLE", "WARMUP", "ACTIVE", "COOLDOWN", "JAIL"}
LeaseState == {"REQUESTED", "ACTIVE", "EXPIRED", "RELEASED"}
Event == [account : Account, new : AccountState]

ASSUME EventAssumption == NoEvent \notin Event

VARIABLES
    accountState,       \* Account.state, "ABSENT" before registration
    cooldownLeft,       \* cooldown_until - now, 0 when past or None
    failures,           \* consecutive_failures, saturated at JailAfter
    warmup,             \* warmup_steps_completed, saturated at WarmupSteps
    leaseState,         \* Lease.state; "REQUESTED" = id not handed out yet
    leaseAccount,       \* Lease.account_id
    ttlLeft,            \* expires_at - now, -1 when past or None
    emitting            \* event each thread still has to emit

accountVars == <<accountState, cooldownLeft, failures, warmup>>
leaseVars == <<leaseState, leaseAccount, ttlLeft>>
vars == <<accountState, cooldownLeft, failures, warmup,
          leaseState, leaseAccount, ttlLeft, emitting>>

(* The implementation's variables stay within their domains.               *)
TypeOK ==
    /\ accountState \in [Account -> AccountState \cup {"ABSENT"}]
    /\ cooldownLeft \in [Account -> Nat]
    /\ failures \in [Account -> 0 .. JailAfter]
    /\ warmup \in [Account -> 0 .. WarmupSteps]
    /\ leaseState \in [Lease -> LeaseState]
    /\ leaseAccount \in [Lease -> Account \cup {NoAccount}]
    /\ \A l \in Lease : leaseState[l] # "REQUESTED" => leaseAccount[l] \in Account
    /\ ttlLeft \in [Lease -> -1 .. TTL]
    /\ emitting \in [Caller -> Event \cup {NoEvent}]

Init ==
    /\ accountState = [a \in Account |-> "ABSENT"]
    /\ cooldownLeft = [a \in Account |-> 0]
    /\ failures = [a \in Account |-> 0]
    /\ warmup = [a \in Account |-> 0]
    /\ leaseState = [l \in Lease |-> "REQUESTED"]
    /\ leaseAccount = [l \in Lease |-> NoAccount]
    /\ ttlLeft = [l \in Lease |-> -1]
    /\ emitting = [c \in Caller |-> NoEvent]

-----------------------------------------------------------------------------
(* Queries. *)

Registered(a) == accountState[a] # "ABSENT"

IsAvailable(a) ==
    \/ accountState[a] \in {"IDLE", "WARMUP"}
    \/ accountState[a] = "COOLDOWN" /\ cooldownLeft[a] = 0

IsAlive(l) == leaseState[l] = "ACTIVE" /\ ttlLeft[l] >= 0

ActiveLeasesOn(a) ==
    {l \in Lease : leaseState[l] = "ACTIVE" /\ leaseAccount[l] = a}

(* The accounts request_lease chooses from: those of the preferred         *)
(* provider when one is available, any available account otherwise.        *)
(* health_score, which ranks them, is left out: any candidate may be best. *)
Candidates(preferred) ==
    LET available == {a \in Account : IsAvailable(a)}
        fitting == {a \in available : ProviderOf[a] \in preferred}
    IN  IF fitting # {} THEN fitting ELSE available

-----------------------------------------------------------------------------
(* LeaseManager. *)

RegisterAccounts(S, state) ==
    /\ accountState' = [a \in Account |-> IF a \in S THEN state ELSE accountState[a]]
    /\ cooldownLeft' = [a \in Account |-> IF a \in S THEN 0 ELSE cooldownLeft[a]]
    /\ failures' = [a \in Account |-> IF a \in S THEN 0 ELSE failures[a]]
    /\ warmup' = [a \in Account |-> IF a \in S THEN 0 ELSE warmup[a]]
    /\ UNCHANGED <<leaseVars, emitting>>

RequestLeaseUnmarked(l, preferred) ==  \* mutant: mark_active forgotten
    /\ leaseState[l] = "REQUESTED"
    /\ \E a \in Candidates(preferred) :
          /\ leaseState' = [leaseState EXCEPT ![l] = "ACTIVE"]
          /\ leaseAccount' = [leaseAccount EXCEPT ![l] = a]
          /\ ttlLeft' = [ttlLeft EXCEPT ![l] = TTL]
    /\ UNCHANGED <<accountVars, emitting>>

(* preferred is {} or the singleton of the preferred provider.  A request  *)
(* that finds no candidate raises NoAvailableAccount and changes nothing.  *)
RequestLease(l, preferred) ==
    /\ leaseState[l] = "REQUESTED"
    /\ \E a \in Candidates(preferred) :
          /\ leaseState' = [leaseState EXCEPT ![l] = "ACTIVE"]
          /\ leaseAccount' = [leaseAccount EXCEPT ![l] = a]
          /\ ttlLeft' = [ttlLeft EXCEPT ![l] = TTL]
          /\ accountState' = [accountState EXCEPT ![a] = "ACTIVE"]
    /\ UNCHANGED <<cooldownLeft, failures, warmup, emitting>>

(* Neither Lease.release nor Account.mark_idle looks at the present state. *)
ReleaseLease(l) ==
    /\ leaseState[l] # "REQUESTED"
    /\ leaseState' = [leaseState EXCEPT ![l] = "RELEASED"]
    /\ accountState' = [accountState EXCEPT ![leaseAccount[l]] = "IDLE"]
    /\ cooldownLeft' = [cooldownLeft EXCEPT ![leaseAccount[l]] = 0]
    /\ failures' = [failures EXCEPT ![leaseAccount[l]] = 0]
    /\ UNCHANGED <<warmup, leaseAccount, ttlLeft, emitting>>

HeartbeatUnchecked(l) ==  \* mutant: the state is looked at, the deadline is not
    /\ leaseState[l] = "ACTIVE"
    /\ 2 * ttlLeft[l] < TTL
    /\ ttlLeft' = [ttlLeft EXCEPT ![l] = TTL]
    /\ UNCHANGED <<accountVars, leaseState, leaseAccount, emitting>>

Heartbeat(l) ==
    /\ IsAlive(l)
    /\ 2 * ttlLeft[l] < TTL
    /\ ttlLeft' = [ttlLeft EXCEPT ![l] = TTL]
    /\ UNCHANGED <<accountVars, leaseState, leaseAccount, emitting>>

Due == {l \in Lease : leaseState[l] = "ACTIVE" /\ ttlLeft[l] < 0}

ReclaimExpired ==
    LET reclaimed == {leaseAccount[l] : l \in Due}
    IN  /\ Due # {}
        /\ leaseState' =
              [l \in Lease |-> IF l \in Due THEN "EXPIRED" ELSE leaseState[l]]
        /\ accountState' =
              [a \in Account |-> IF a \in reclaimed THEN "COOLDOWN" ELSE accountState[a]]
        /\ cooldownLeft' =
              [a \in Account |-> IF a \in reclaimed THEN LongCooldown ELSE cooldownLeft[a]]
        /\ UNCHANGED <<failures, warmup, leaseAccount, ttlLeft, emitting>>

ExpireLeasesOn(a) ==
    leaseState' =
        [l \in Lease |-> IF l \in ActiveLeasesOn(a) THEN "EXPIRED" ELSE leaseState[l]]

MarkUnavailableOnly(c, a, state) ==  \* mutant: the leases are left ACTIVE
    /\ Registered(a)
    /\ emitting[c] = NoEvent
    /\ accountState' = [accountState EXCEPT ![a] = state]
    /\ emitting' = [emitting EXCEPT ![c] = [account |-> a, new |-> state]]
    /\ UNCHANGED <<cooldownLeft, failures, warmup, leaseVars>>

MarkUnavailableMute(c, a, state) ==  \* mutant: old_state is read after the assignment
    /\ Registered(a)
    /\ emitting[c] = NoEvent
    /\ accountState' = [accountState EXCEPT ![a] = state]
    /\ ExpireLeasesOn(a)
    /\ UNCHANGED <<cooldownLeft, failures, warmup, leaseAccount, ttlLeft, emitting>>

(* The state is set as it is: cooldown_until keeps whatever it held.       *)
MarkUnavailable(c, a, state) ==
    /\ Registered(a)
    /\ emitting[c] = NoEvent
    /\ accountState' = [accountState EXCEPT ![a] = state]
    /\ ExpireLeasesOn(a)
    /\ emitting' =
          [emitting EXCEPT ![c] = IF accountState[a] # state
                                  THEN [account |-> a, new |-> state]
                                  ELSE NoEvent]
    /\ UNCHANGED <<cooldownLeft, failures, warmup, leaseAccount, ttlLeft>>

(* _emit: the handlers run outside the lock.  What they do is the business *)
(* of the module that registers them; here the event is just consumed.     *)
Emit(c) ==
    /\ emitting[c] # NoEvent
    /\ emitting' = [emitting EXCEPT ![c] = NoEvent]
    /\ UNCHANGED <<accountVars, leaseVars>>

(* force_expire_leases_for_account, and account_jailed which wraps it.     *)
ForceExpire(a) ==
    /\ ActiveLeasesOn(a) # {}
    /\ ExpireLeasesOn(a)
    /\ UNCHANGED <<accountVars, leaseAccount, ttlLeft, emitting>>

-----------------------------------------------------------------------------
(* Account. *)

Bump(n) == IF n < JailAfter THEN n + 1 ELSE n

RecordSuccess(a) ==
    /\ Registered(a)
    /\ failures' = [failures EXCEPT ![a] = 0]
    /\ IF accountState[a] = "WARMUP"
       THEN /\ warmup' = [warmup EXCEPT ![a] = IF @ < WarmupSteps THEN @ + 1 ELSE @]
            /\ accountState' = [accountState EXCEPT ![a] =
                                   IF warmup[a] + 1 >= WarmupSteps THEN "ACTIVE" ELSE @]
       ELSE UNCHANGED <<warmup, accountState>>
    /\ UNCHANGED <<cooldownLeft, leaseVars, emitting>>

EnterCooldown(a, duration) ==
    /\ accountState' = [accountState EXCEPT ![a] = "COOLDOWN"]
    /\ cooldownLeft' = [cooldownLeft EXCEPT ![a] = duration]

RecordFailure(a) ==
    /\ Registered(a)
    /\ failures' = [failures EXCEPT ![a] = Bump(@)]
    /\ \/ /\ Bump(failures[a]) >= JailAfter
          /\ accountState' = [accountState EXCEPT ![a] = "JAIL"]
          /\ UNCHANGED cooldownLeft
       \/ /\ Bump(failures[a]) \in CooldownAfter .. JailAfter - 1
          /\ EnterCooldown(a, LongCooldown)
       \/ /\ Bump(failures[a]) < CooldownAfter
          /\ UNCHANGED <<accountState, cooldownLeft>>
    /\ UNCHANGED <<warmup, leaseVars, emitting>>

RecordRateLimit(a) ==
    /\ Registered(a)
    /\ failures' = [failures EXCEPT ![a] = Bump(@)]
    /\ IF Bump(failures[a]) >= RateLimitAfter
       THEN EnterCooldown(a, ShortCooldown)
       ELSE UNCHANGED <<accountState, cooldownLeft>>
    /\ UNCHANGED <<warmup, leaseVars, emitting>>

MarkJail(a) ==
    /\ Registered(a)
    /\ accountState' = [accountState EXCEPT ![a] = "JAIL"]
    /\ UNCHANGED <<cooldownLeft, failures, warmup, leaseVars, emitting>>

-----------------------------------------------------------------------------
(* Time: one unit passes for every running deadline.                       *)
Tick ==
    /\ ttlLeft' = [l \in Lease |-> IF ttlLeft[l] >= 0 THEN ttlLeft[l] - 1 ELSE -1]
    /\ cooldownLeft' = [a \in Account |-> IF cooldownLeft[a] > 0
                                          THEN cooldownLeft[a] - 1 ELSE 0]
    /\ UNCHANGED <<accountState, failures, warmup, leaseState, leaseAccount, emitting>>

-----------------------------------------------------------------------------
Preference == {{}} \cup {{p} : p \in Provider}

(* Any caller, any public call, in any order.                              *)
Next ==
    \/ \E S \in SUBSET Account, state \in {"IDLE", "WARMUP"} : RegisterAccounts(S, state)
    \/ \E l \in Lease, preferred \in Preference : RequestLease(l, preferred)
    \/ \E l \in Lease : ReleaseLease(l) \/ Heartbeat(l)
    \/ ReclaimExpired
    \/ \E c \in Caller, a \in Account, state \in AccountState : MarkUnavailable(c, a, state)
    \/ \E c \in Caller : Emit(c)
    \/ \E a \in Account : \/ ForceExpire(a) \/ RecordSuccess(a) \/ RecordFailure(a)
                          \/ RecordRateLimit(a) \/ MarkJail(a)
    \/ Tick

Spec == Init /\ [][Next]_vars

(* The pool run by itself: accounts are registered once, a holder gives a  *)
(* lease back only while the lease is ACTIVE, and accounts are disabled    *)
(* through the manager alone.                                              *)
PoolNext ==
    \/ \E S \in SUBSET {a \in Account : ~Registered(a)} : RegisterAccounts(S, "IDLE")
    \/ \E l \in Lease, preferred \in Preference : RequestLease(l, preferred)
    \/ \E l \in Lease : leaseState[l] = "ACTIVE" /\ ReleaseLease(l)
    \/ \E l \in Lease : Heartbeat(l)
    \/ ReclaimExpired
    \/ \E c \in Caller, a \in Account : MarkUnavailable(c, a, "JAIL")
    \/ \E c \in Caller : Emit(c)
    \/ Tick

PoolSpec == Init /\ [][PoolNext]_vars

-----------------------------------------------------------------------------
(* Properties. *)

Granted(l) == leaseState[l] # "REQUESTED"

(* "This prevents two agents from using the same account concurrently"     *)
(* (lease.py): no account is under two ACTIVE leases, even when jailing,   *)
(* reclaiming, heartbeats and releases cross.                              *)
Exclusive ==
    \A l, m \in Lease :
        /\ l # m
        /\ leaseState[l] = "ACTIVE"
        /\ leaseState[m] = "ACTIVE"
        => leaseAccount[l] # leaseAccount[m]

(* The account under an ACTIVE lease is held back from other agents: its   *)
(* state says ACTIVE, which is all that keeps request_lease away from it.  *)
HeldWhileLeased ==
    \A l \in Lease : leaseState[l] = "ACTIVE" => accountState[leaseAccount[l]] = "ACTIVE"

(* No account is lost to the pool: one that is in use is in use under some *)
(* ACTIVE lease, which a release, a jailing or reclaim_expired will end.   *)
NoOrphanedAccount ==
    \A a \in Account : accountState[a] = "ACTIVE" => ActiveLeasesOn(a) # {}

(* A lease that has died stays dead: past its deadline, expired or         *)
(* released, no heartbeat, reclamation or later grant revives it, although *)
(* the holder may be slow and its calls may arrive late.                   *)
DeadStaysDead ==
    [][\A l \in Lease : Granted(l) /\ ~IsAlive(l) => ~IsAlive(l)']_vars

(* mark_account_unavailable expires the leases of the account and emits an *)
(* event so that the engine can replan (lease_manager.py): no jailing ends *)
(* a lease without telling anybody.                                        *)
NoSilentExpiry ==
    [][\A a \in Account :
          /\ ActiveLeasesOn(a) # {}
          /\ ActiveLeasesOn(a)' = {}
          /\ accountState'[a] = "JAIL"
          => \E c \in Caller : emitting'[c] = [account |-> a, new |-> "JAIL"]]_vars

(* The pool seen as pairs of a lease and its account.                      *)
Pool == INSTANCE ExclusiveLeases WITH
            held <- {<<l, leaseAccount[l]>> : l \in {m \in Lease : leaseState[m] = "ACTIVE"}},
            granted <- {l \in Lease : Granted(l)},
            retired <- {a \in Account : accountState[a] = "JAIL"}

(* The pool implements ExclusiveLeases: clocks, cooldowns, batches of      *)
(* reclaimed leases and late events never show through.                    *)
ImplementsExclusiveLeases == Pool!Spec
=============================================================================
