------------------------- MODULE LeaseManagerProofs -------------------------
(***************************************************************************)
(* Proofs about LeaseManager, for every set of accounts, leases, providers *)
(* and threads and every deadline and threshold.                           *)
(***************************************************************************)
EXTENDS LeaseManager, TLAPS

(* Every step of the pool is a step some caller may take: so the pool   *)
(* inherits what is proved of Next.                                        *)
LEMMA PoolStep == PoolNext => Next
  BY DEF PoolNext, Next, AccountState

-----------------------------------------------------------------------------
LEMMA TypeInit == Init => TypeOK
  BY PoolAssumption DEF Init, TypeOK, AccountState, LeaseState

LEMMA TypeStep == TypeOK /\ [Next]_vars => TypeOK'
  <1> SUFFICES ASSUME TypeOK, [Next]_vars PROVE TypeOK'
    OBVIOUS
  <1> USE PoolAssumption DEF TypeOK
  <1>1. ASSUME NEW S \in SUBSET Account, NEW state \in {"IDLE", "WARMUP"},
               RegisterAccounts(S, state)
        PROVE  TypeOK'
    BY <1>1 DEF RegisterAccounts, leaseVars, AccountState
  <1>2. ASSUME NEW l \in Lease, NEW preferred \in Preference, RequestLease(l, preferred)
        PROVE  TypeOK'
    <2>1. PICK a \in Candidates(preferred) :
              /\ leaseState' = [leaseState EXCEPT ![l] = "ACTIVE"]
              /\ leaseAccount' = [leaseAccount EXCEPT ![l] = a]
              /\ ttlLeft' = [ttlLeft EXCEPT ![l] = TTL]
              /\ accountState' = [accountState EXCEPT ![a] = "ACTIVE"]
      BY <1>2 DEF RequestLease
    <2>2. a \in Account
      BY DEF Candidates
    <2>3. QED
      BY <1>2, <2>1, <2>2 DEF RequestLease, AccountState, LeaseState
  <1>3. ASSUME NEW l \in Lease, ReleaseLease(l)
        PROVE  TypeOK'
    BY <1>3 DEF ReleaseLease, AccountState, LeaseState
  <1>4. ASSUME NEW l \in Lease, Heartbeat(l)
        PROVE  TypeOK'
    BY <1>4 DEF Heartbeat, IsAlive, accountVars
  <1>5. CASE ReclaimExpired
    BY <1>5 DEF ReclaimExpired, Due, AccountState, LeaseState
  <1>6. ASSUME NEW c \in Caller, NEW a \in Account, NEW state \in AccountState,
               MarkUnavailable(c, a, state)
        PROVE  TypeOK'
    BY <1>6 DEF MarkUnavailable, ExpireLeasesOn, ActiveLeasesOn, Event, LeaseState
  <1>7. ASSUME NEW c \in Caller, Emit(c)
        PROVE  TypeOK'
    BY <1>7 DEF Emit, accountVars, leaseVars
  <1>8. ASSUME NEW a \in Account, ForceExpire(a)
        PROVE  TypeOK'
    BY <1>8 DEF ForceExpire, ExpireLeasesOn, ActiveLeasesOn, accountVars, LeaseState
  <1>9. ASSUME NEW a \in Account, RecordSuccess(a)
        PROVE  TypeOK'
    BY <1>9 DEF RecordSuccess, leaseVars, AccountState
  <1>10. ASSUME NEW a \in Account, RecordFailure(a)
         PROVE  TypeOK'
    BY <1>10 DEF RecordFailure, Bump, EnterCooldown, leaseVars, AccountState
  <1>11. ASSUME NEW a \in Account, RecordRateLimit(a)
         PROVE  TypeOK'
    BY <1>11 DEF RecordRateLimit, Bump, EnterCooldown, leaseVars, AccountState
  <1>12. ASSUME NEW a \in Account, MarkJail(a)
         PROVE  TypeOK'
    BY <1>12 DEF MarkJail, leaseVars, AccountState
  <1>13. CASE Tick
    BY <1>13 DEF Tick
  <1>14. CASE UNCHANGED vars
    BY <1>14 DEF vars
  <1>15. QED
    BY <1>1, <1>2, <1>3, <1>4, <1>5, <1>6, <1>7, <1>8, <1>9, <1>10, <1>11,
       <1>12, <1>13, <1>14 DEF Next

(* Whatever is called in whatever order, the pool's records keep their     *)
(* shape; in particular a granted lease always names an account.           *)
THEOREM TypeCorrect == Spec => []TypeOK
  BY TypeInit, TypeStep, PTL DEF Spec

THEOREM PoolTypeCorrect == PoolSpec => []TypeOK
  <1>1. TypeOK /\ [PoolNext]_vars => TypeOK'
    BY TypeStep, PoolStep
  <1>2. QED
    BY TypeInit, <1>1, PTL DEF PoolSpec

-----------------------------------------------------------------------------
(* Exclusive is not inductive: it says nothing of the account a request    *)
(* finds available.  HeldWhileLeased closes the gap, since an account with *)
(* an ACTIVE lease is itself ACTIVE and is no candidate.                   *)
PoolInv == TypeOK /\ HeldWhileLeased /\ Exclusive

LEMMA CandidateIsFree ==
  ASSUME PoolInv, NEW preferred, NEW a \in Candidates(preferred)
  PROVE  /\ a \in Account
         /\ accountState[a] \in {"IDLE", "WARMUP", "COOLDOWN"}
         /\ \A l \in Lease : leaseState[l] = "ACTIVE" => leaseAccount[l] # a
  <1>1. a \in Account /\ IsAvailable(a)
    BY DEF Candidates
  <1>2. accountState[a] \in {"IDLE", "WARMUP", "COOLDOWN"}
    BY <1>1 DEF IsAvailable
  <1>3. QED
    BY <1>1, <1>2 DEF PoolInv, HeldWhileLeased

LEMMA PoolInvStep == PoolInv /\ [PoolNext]_vars => PoolInv'
  <1> SUFFICES ASSUME PoolInv, [PoolNext]_vars
               PROVE  HeldWhileLeased' /\ Exclusive'
    BY TypeStep, PoolStep DEF PoolInv
  <1>t. TypeOK
    BY DEF PoolInv
  <1>1. ASSUME NEW S \in SUBSET {a \in Account : ~Registered(a)}, RegisterAccounts(S, "IDLE")
        PROVE  HeldWhileLeased' /\ Exclusive'
    <2>1. leaseState' = leaseState /\ leaseAccount' = leaseAccount
      BY <1>1 DEF RegisterAccounts, leaseVars
    <2>2. ASSUME NEW l \in Lease, leaseState[l] = "ACTIVE"
          PROVE  accountState'[leaseAccount[l]] = "ACTIVE"
      <3>1. leaseAccount[l] \in Account /\ accountState[leaseAccount[l]] = "ACTIVE"
        BY <1>t, <2>2 DEF PoolInv, TypeOK, HeldWhileLeased
      <3>2. leaseAccount[l] \notin S
        BY <3>1 DEF Registered
      <3>3. QED
        BY <1>1, <3>1, <3>2 DEF RegisterAccounts
    <2>3. QED
      BY <2>1, <2>2 DEF PoolInv, HeldWhileLeased, Exclusive
  <1>2. ASSUME NEW l \in Lease, NEW preferred \in Preference, RequestLease(l, preferred)
        PROVE  HeldWhileLeased' /\ Exclusive'
    <2>1. PICK a \in Candidates(preferred) :
              /\ leaseState' = [leaseState EXCEPT ![l] = "ACTIVE"]
              /\ leaseAccount' = [leaseAccount EXCEPT ![l] = a]
              /\ accountState' = [accountState EXCEPT ![a] = "ACTIVE"]
      BY <1>2 DEF RequestLease
    <2>2. /\ a \in Account
          /\ \A m \in Lease : leaseState[m] = "ACTIVE" => leaseAccount[m] # a
      BY <2>1, CandidateIsFree
    <2>3. HeldWhileLeased'
      BY <1>t, <2>1, <2>2 DEF PoolInv, TypeOK, HeldWhileLeased
    <2>4. Exclusive'
      BY <1>t, <2>1, <2>2 DEF PoolInv, TypeOK, Exclusive
    <2>5. QED
      BY <2>3, <2>4
  <1>3. ASSUME NEW l \in Lease, leaseState[l] = "ACTIVE", ReleaseLease(l)
        PROVE  HeldWhileLeased' /\ Exclusive'
    BY <1>t, <1>3 DEF PoolInv, TypeOK, HeldWhileLeased, Exclusive, ReleaseLease
  <1>4. ASSUME NEW l \in Lease, Heartbeat(l)
        PROVE  HeldWhileLeased' /\ Exclusive'
    BY <1>4 DEF PoolInv, HeldWhileLeased, Exclusive, Heartbeat, accountVars
  <1>5. CASE ReclaimExpired
    <2>1. ASSUME NEW l \in Lease, leaseState'[l] = "ACTIVE"
          PROVE  /\ leaseState[l] = "ACTIVE"
                 /\ leaseAccount'[l] = leaseAccount[l]
                 /\ leaseAccount[l] \notin {leaseAccount[m] : m \in Due}
      BY <1>5, <2>1 DEF ReclaimExpired, Due, PoolInv, Exclusive
    <2>2. HeldWhileLeased'
      <3>1. ASSUME NEW l \in Lease, leaseState'[l] = "ACTIVE"
            PROVE  accountState'[leaseAccount'[l]] = "ACTIVE"
        <4>1. leaseAccount[l] \in Account /\ accountState[leaseAccount[l]] = "ACTIVE"
          BY <1>t, <2>1, <3>1 DEF PoolInv, TypeOK, HeldWhileLeased
        <4>2. QED
          BY <1>5, <2>1, <3>1, <4>1 DEF ReclaimExpired
      <3>2. QED
        BY <3>1 DEF HeldWhileLeased
    <2>3. QED
      BY <2>1, <2>2 DEF PoolInv, Exclusive
  <1>6. ASSUME NEW c \in Caller, NEW a \in Account, MarkUnavailable(c, a, "JAIL")
        PROVE  HeldWhileLeased' /\ Exclusive'
    <2>1. ASSUME NEW l \in Lease, leaseState'[l] = "ACTIVE"
          PROVE  /\ leaseState[l] = "ACTIVE"
                 /\ leaseAccount'[l] = leaseAccount[l]
                 /\ leaseAccount[l] # a
      BY <1>6, <2>1 DEF MarkUnavailable, ExpireLeasesOn, ActiveLeasesOn
    <2>2. QED
      BY <1>t, <1>6, <2>1 DEF MarkUnavailable, PoolInv, TypeOK, HeldWhileLeased, Exclusive
  <1>7. ASSUME NEW c \in Caller, Emit(c)
        PROVE  HeldWhileLeased' /\ Exclusive'
    BY <1>7 DEF PoolInv, HeldWhileLeased, Exclusive, Emit, accountVars, leaseVars
  <1>8. CASE Tick
    BY <1>8 DEF PoolInv, HeldWhileLeased, Exclusive, Tick
  <1>9. CASE UNCHANGED vars
    BY <1>9 DEF PoolInv, HeldWhileLeased, Exclusive, vars
  <1>10. QED
    BY <1>1, <1>2, <1>3, <1>4, <1>5, <1>6, <1>7, <1>8, <1>9 DEF PoolNext

LEMMA PoolInvariant == PoolSpec => []PoolInv
  <1>1. Init => PoolInv
    BY TypeInit DEF PoolInv, Init, HeldWhileLeased, Exclusive
  <1>2. QED
    BY <1>1, PoolInvStep, PTL DEF PoolSpec

(* No two agents hold the same account: a lease released once, reclaimed,  *)
(* or ended by a jailing never leaves a second ACTIVE lease behind.        *)
THEOREM LeasesExclude == PoolSpec => []Exclusive
  BY PoolInvariant, PTL DEF PoolInv

(* request_lease is kept away from a leased account by its state alone.    *)
THEOREM LeasedAccountsAreHeld == PoolSpec => []HeldWhileLeased
  BY PoolInvariant, PTL DEF PoolInv

-----------------------------------------------------------------------------
(* No account is lost: it becomes ACTIVE only with a lease, keeps its      *)
(* state while the lease is ACTIVE, and every step that ends the lease     *)
(* takes it out of ACTIVE in the same step.                                *)
LEMMA OrphanStep == PoolInv /\ NoOrphanedAccount /\ [PoolNext]_vars => NoOrphanedAccount'
  <1> SUFFICES ASSUME PoolInv, NoOrphanedAccount, [PoolNext]_vars,
                      NEW a \in Account, accountState'[a] = "ACTIVE"
               PROVE  \E l \in Lease : leaseState'[l] = "ACTIVE" /\ leaseAccount'[l] = a
    BY DEF NoOrphanedAccount, ActiveLeasesOn
  <1>t. TypeOK
    BY DEF PoolInv
  <1>h. accountState[a] = "ACTIVE"
          => \E l \in Lease : leaseState[l] = "ACTIVE" /\ leaseAccount[l] = a
    BY DEF NoOrphanedAccount, ActiveLeasesOn
  <1> DEFINE Leased == \E l \in Lease : leaseState'[l] = "ACTIVE" /\ leaseAccount'[l] = a
  <1>1. ASSUME NEW S \in SUBSET {b \in Account : ~Registered(b)}, RegisterAccounts(S, "IDLE")
        PROVE  Leased
    BY <1>h, <1>1 DEF RegisterAccounts, leaseVars
  <1>2. ASSUME NEW l \in Lease, NEW preferred \in Preference, RequestLease(l, preferred)
        PROVE  Leased
    <2>1. PICK b \in Candidates(preferred) :
              /\ leaseState' = [leaseState EXCEPT ![l] = "ACTIVE"]
              /\ leaseAccount' = [leaseAccount EXCEPT ![l] = b]
              /\ accountState' = [accountState EXCEPT ![b] = "ACTIVE"]
      BY <1>2 DEF RequestLease
    <2>2. CASE b = a
      BY <1>t, <2>1, <2>2 DEF TypeOK
    <2>3. CASE b # a
      <3>1. PICK m \in Lease : leaseState[m] = "ACTIVE" /\ leaseAccount[m] = a
        BY <1>t, <1>h, <2>1, <2>3 DEF TypeOK
      <3>2. m # l
        BY <1>2, <3>1 DEF RequestLease
      <3>3. QED
        BY <1>t, <2>1, <3>1, <3>2 DEF TypeOK
    <2>4. QED
      BY <2>2, <2>3
  <1>3. ASSUME NEW l \in Lease, leaseState[l] = "ACTIVE", ReleaseLease(l)
        PROVE  Leased
    <2>1. accountState[a] = "ACTIVE" /\ leaseAccount[l] # a
      BY <1>t, <1>3 DEF ReleaseLease, TypeOK
    <2>2. QED
      BY <1>t, <1>h, <1>3, <2>1 DEF ReleaseLease, TypeOK
  <1>4. ASSUME NEW l \in Lease, Heartbeat(l)
        PROVE  Leased
    BY <1>h, <1>4 DEF Heartbeat, accountVars
  <1>5. CASE ReclaimExpired
    <2>1. accountState[a] = "ACTIVE" /\ \A l \in Due : leaseAccount[l] # a
      BY <1>5 DEF ReclaimExpired
    <2>2. QED
      BY <1>t, <1>h, <1>5, <2>1 DEF ReclaimExpired, TypeOK
  <1>6. ASSUME NEW c \in Caller, NEW b \in Account, MarkUnavailable(c, b, "JAIL")
        PROVE  Leased
    <2>1. accountState[a] = "ACTIVE" /\ b # a
      BY <1>t, <1>6 DEF MarkUnavailable, TypeOK
    <2>2. QED
      BY <1>t, <1>h, <1>6, <2>1 DEF MarkUnavailable, ExpireLeasesOn, ActiveLeasesOn, TypeOK
  <1>7. ASSUME NEW c \in Caller, Emit(c)
        PROVE  Leased
    BY <1>h, <1>7 DEF Emit, accountVars, leaseVars
  <1>8. CASE Tick
    BY <1>h, <1>8 DEF Tick
  <1>9. CASE UNCHANGED vars
    BY <1>h, <1>9 DEF vars
  <1>10. QED
    BY <1>1, <1>2, <1>3, <1>4, <1>5, <1>6, <1>7, <1>8, <1>9 DEF PoolNext

(* An account in use is in use under an ACTIVE lease, which a release, a   *)
(* jailing or reclaim_expired will end.                                    *)
THEOREM NothingIsOrphaned == PoolSpec => []NoOrphanedAccount
  <1>1. Init => NoOrphanedAccount
    BY DEF Init, NoOrphanedAccount
  <1>2. QED
    BY <1>1, OrphanStep, PoolInvariant, PTL DEF PoolSpec

-----------------------------------------------------------------------------
(* Only a jailing turns a leased account into a JAIL one, and a leased     *)
(* account is ACTIVE: so its state changes and the event is emitted.       *)
LEMMA ExpiryStep ==
  ASSUME PoolInv, [PoolNext]_vars, NEW a \in Account,
         ActiveLeasesOn(a) # {}, accountState'[a] = "JAIL"
  PROVE  \E c \in Caller : emitting'[c] = [account |-> a, new |-> "JAIL"]
  <1>t. TypeOK
    BY DEF PoolInv
  <1>u. accountState[a] = "ACTIVE"
    BY DEF PoolInv, HeldWhileLeased, ActiveLeasesOn
  <1>1. ASSUME NEW S \in SUBSET {b \in Account : ~Registered(b)}, RegisterAccounts(S, "IDLE")
        PROVE  FALSE
    BY <1>u, <1>1 DEF RegisterAccounts
  <1>2. ASSUME NEW l \in Lease, NEW preferred \in Preference, RequestLease(l, preferred)
        PROVE  FALSE
    BY <1>t, <1>u, <1>2 DEF RequestLease, TypeOK
  <1>3. ASSUME NEW l \in Lease, leaseState[l] = "ACTIVE", ReleaseLease(l)
        PROVE  FALSE
    BY <1>t, <1>u, <1>3 DEF ReleaseLease, TypeOK
  <1>4. ASSUME NEW l \in Lease, Heartbeat(l)
        PROVE  FALSE
    BY <1>u, <1>4 DEF Heartbeat, accountVars
  <1>5. CASE ReclaimExpired
    BY <1>u, <1>5 DEF ReclaimExpired
  <1>6. ASSUME NEW c \in Caller, NEW b \in Account, MarkUnavailable(c, b, "JAIL")
        PROVE  emitting'[c] = [account |-> a, new |-> "JAIL"]
    <2>1. b = a
      BY <1>t, <1>u, <1>6 DEF MarkUnavailable, TypeOK
    <2>2. QED
      BY <1>t, <1>u, <1>6, <2>1 DEF MarkUnavailable, TypeOK
  <1>7. ASSUME NEW c \in Caller, Emit(c)
        PROVE  FALSE
    BY <1>u, <1>7 DEF Emit, accountVars
  <1>8. CASE Tick
    BY <1>u, <1>8 DEF Tick
  <1>9. CASE UNCHANGED vars
    BY <1>u, <1>9 DEF vars
  <1>10. QED
    BY <1>1, <1>2, <1>3, <1>4, <1>5, <1>6, <1>7, <1>8, <1>9 DEF PoolNext

(* No jailing ends a lease without telling the engine.                     *)
THEOREM ExpiriesAreTold == PoolSpec => NoSilentExpiry
  <1>1. PoolInv /\ [PoolNext]_vars
          => [\A a \in Account :
                 /\ ActiveLeasesOn(a) # {}
                 /\ ActiveLeasesOn(a)' = {}
                 /\ accountState'[a] = "JAIL"
                 => \E c \in Caller : emitting'[c] = [account |-> a, new |-> "JAIL"]]_vars
    BY ExpiryStep
  <1>2. QED
    BY <1>1, PoolInvariant, PTL DEF PoolSpec, NoSilentExpiry

-----------------------------------------------------------------------------
(* Every public call respects the death of a lease: a grant takes an id    *)
(* that was never handed out, a heartbeat asks is_alive first, and every   *)
(* other step leaves the lease or ends it.                                 *)
LEMMA DeathStep ==
  ASSUME TypeOK, [Next]_vars, NEW l \in Lease, Granted(l), ~IsAlive(l)
  PROVE  ~IsAlive(l)'
  <1> USE PoolAssumption DEF TypeOK, Granted, IsAlive
  <1>1. ASSUME NEW S \in SUBSET Account, NEW state \in {"IDLE", "WARMUP"},
               RegisterAccounts(S, state)
        PROVE  ~IsAlive(l)'
    BY <1>1 DEF RegisterAccounts, leaseVars
  <1>2. ASSUME NEW m \in Lease, NEW preferred \in Preference, RequestLease(m, preferred)
        PROVE  ~IsAlive(l)'
    BY <1>2 DEF RequestLease
  <1>3. ASSUME NEW m \in Lease, ReleaseLease(m)
        PROVE  ~IsAlive(l)'
    BY <1>3 DEF ReleaseLease
  <1>4. ASSUME NEW m \in Lease, Heartbeat(m)
        PROVE  ~IsAlive(l)'
    BY <1>4 DEF Heartbeat
  <1>5. CASE ReclaimExpired
    BY <1>5 DEF ReclaimExpired
  <1>6. ASSUME NEW c \in Caller, NEW a \in Account, NEW state \in AccountState,
               MarkUnavailable(c, a, state)
        PROVE  ~IsAlive(l)'
    BY <1>6 DEF MarkUnavailable, ExpireLeasesOn
  <1>7. ASSUME NEW c \in Caller, Emit(c)
        PROVE  ~IsAlive(l)'
    BY <1>7 DEF Emit, leaseVars
  <1>8. ASSUME NEW a \in Account, ForceExpire(a)
        PROVE  ~IsAlive(l)'
    BY <1>8 DEF ForceExpire, ExpireLeasesOn
  <1>9. ASSUME NEW a \in Account,
               RecordSuccess(a) \/ RecordFailure(a) \/ RecordRateLimit(a) \/ MarkJail(a)
        PROVE  ~IsAlive(l)'
    BY <1>9 DEF RecordSuccess, RecordFailure, RecordRateLimit, MarkJail, leaseVars
  <1>10. CASE Tick
    BY <1>10 DEF Tick
  <1>11. CASE UNCHANGED vars
    BY <1>11 DEF vars
  <1>12. QED
    BY <1>1, <1>2, <1>3, <1>4, <1>5, <1>6, <1>7, <1>8, <1>9, <1>10, <1>11 DEF Next

(* A lease past its deadline, expired or released is never alive again,    *)
(* whatever its holder or anyone else calls.                               *)
THEOREM DeathIsFinal == Spec => DeadStaysDead
  <1>1. TypeOK /\ [Next]_vars
          => [\A l \in Lease : Granted(l) /\ ~IsAlive(l) => ~IsAlive(l)']_vars
    BY DeathStep
  <1>2. QED
    BY <1>1, TypeCorrect, PTL DEF Spec, DeadStaysDead

-----------------------------------------------------------------------------
(* The pool refines ExclusiveLeases, action by action.                     *)
Held == {<<l, leaseAccount[l]>> : l \in {m \in Lease : leaseState[m] = "ACTIVE"}}

(* A step that touches neither leases nor jails is a stutter of the pool.  *)
LEMMA QuietStep ==
  ASSUME UNCHANGED <<leaseState, leaseAccount>>,
         \A a \in Account : accountState'[a] = "JAIL" <=> accountState[a] = "JAIL"
  PROVE  UNCHANGED Pool!vars
  BY DEF Pool!vars, Granted

LEMMA EndIsNext ==
  ASSUME NEW S \in SUBSET Held, Pool!End(S)
  PROVE  Pool!Next
  BY DEF Pool!Next, Held

LEMMA RefinementStep == PoolInv /\ [PoolNext]_vars => [Pool!Next]_(Pool!vars)
  <1> SUFFICES ASSUME PoolInv, [PoolNext]_vars
               PROVE  Pool!Next \/ UNCHANGED Pool!vars
    OBVIOUS
  <1>t. TypeOK
    BY DEF PoolInv
  <1>1. ASSUME NEW S \in SUBSET {a \in Account : ~Registered(a)}, RegisterAccounts(S, "IDLE")
        PROVE  UNCHANGED Pool!vars
    BY <1>1, QuietStep DEF RegisterAccounts, Registered, leaseVars
  <1>2. ASSUME NEW l \in Lease, NEW preferred \in Preference, RequestLease(l, preferred)
        PROVE  Pool!Next
    <2>1. PICK a \in Candidates(preferred) :
              /\ leaseState' = [leaseState EXCEPT ![l] = "ACTIVE"]
              /\ leaseAccount' = [leaseAccount EXCEPT ![l] = a]
              /\ accountState' = [accountState EXCEPT ![a] = "ACTIVE"]
      BY <1>2 DEF RequestLease
    <2>2. /\ a \in Account
          /\ accountState[a] # "JAIL"
          /\ \A m \in Lease : leaseState[m] = "ACTIVE" => leaseAccount[m] # a
      BY <2>1, CandidateIsFree
    <2>3. leaseState[l] = "REQUESTED"
      BY <1>2 DEF RequestLease
    <2>4. Held' = Held \cup {<<l, a>>}
      BY <1>t, <2>1, <2>3 DEF TypeOK, Held
    <2>5. {m \in Lease : Granted(m)}' = {m \in Lease : Granted(m)} \cup {l}
      BY <1>t, <2>1 DEF TypeOK, Granted
    <2>6. {b \in Account : accountState[b] = "JAIL"}'
            = {b \in Account : accountState[b] = "JAIL"}
      BY <1>t, <2>1, <2>2 DEF TypeOK
    <2>7. ~Pool!InUse(a)
      BY <2>2 DEF Pool!InUse
    <2>8. Pool!Grant(l, a)
      BY <2>2, <2>3, <2>4, <2>5, <2>6, <2>7 DEF Pool!Grant, Held, Granted
    <2>9. QED
      BY <2>2, <2>8 DEF Pool!Next
  <1>3. ASSUME NEW l \in Lease, leaseState[l] = "ACTIVE", ReleaseLease(l)
        PROVE  Pool!Next
    <2>1. accountState[leaseAccount[l]] = "ACTIVE" /\ leaseAccount[l] \in Account
      BY <1>t, <1>3 DEF PoolInv, HeldWhileLeased, TypeOK
    <2>s. PICK S : S = {<<l, leaseAccount[l]>>}
      OBVIOUS
    <2>2. Held' = Held \ S
      BY <1>t, <1>3, <2>s DEF ReleaseLease, TypeOK, Held
    <2>3. S \in SUBSET Held /\ S # {}
      BY <1>3, <2>s DEF Held
    <2>4. {m \in Lease : Granted(m)}' = {m \in Lease : Granted(m)}
      BY <1>t, <1>3 DEF ReleaseLease, TypeOK, Granted
    <2>5. {b \in Account : accountState[b] = "JAIL"}'
            = {b \in Account : accountState[b] = "JAIL"}
      BY <1>t, <1>3, <2>1 DEF ReleaseLease, TypeOK
    <2>6. Pool!End(S)
      BY <2>2, <2>3, <2>4, <2>5 DEF Pool!End, Held
    <2>7. QED
      BY <2>3, <2>6, EndIsNext
  <1>4. ASSUME NEW l \in Lease, Heartbeat(l)
        PROVE  UNCHANGED Pool!vars
    BY <1>4, QuietStep DEF Heartbeat, accountVars
  <1>5. CASE ReclaimExpired
    <2>s. PICK S : S = {<<l, leaseAccount[l]>> : l \in Due}
      OBVIOUS
    <2>1. Held' = Held \ S
      BY <1>t, <1>5, <2>s DEF ReclaimExpired, Due, TypeOK, Held
    <2>2. S \in SUBSET Held /\ S # {}
      BY <1>5, <2>s DEF ReclaimExpired, Due, Held
    <2>3. {m \in Lease : Granted(m)}' = {m \in Lease : Granted(m)}
      BY <1>t, <1>5 DEF ReclaimExpired, Due, TypeOK, Granted
    <2>4. {b \in Account : accountState[b] = "JAIL"}'
            = {b \in Account : accountState[b] = "JAIL"}
      BY <1>t, <1>5 DEF ReclaimExpired, Due, TypeOK, PoolInv, HeldWhileLeased
    <2>5. Pool!End(S)
      BY <2>1, <2>2, <2>3, <2>4 DEF Pool!End, Held
    <2>6. QED
      BY <2>2, <2>5, EndIsNext
  <1>6. ASSUME NEW c \in Caller, NEW a \in Account, MarkUnavailable(c, a, "JAIL")
        PROVE  Pool!Next
    <2>1. Held' = {p \in Held : p[2] # a}
      BY <1>t, <1>6 DEF MarkUnavailable, ExpireLeasesOn, ActiveLeasesOn, TypeOK, Held
    <2>2. {m \in Lease : Granted(m)}' = {m \in Lease : Granted(m)}
      BY <1>t, <1>6 DEF MarkUnavailable, ExpireLeasesOn, ActiveLeasesOn, TypeOK, Granted
    <2>3. {b \in Account : accountState[b] = "JAIL"}'
            = {b \in Account : accountState[b] = "JAIL"} \cup {a}
      BY <1>t, <1>6 DEF MarkUnavailable, TypeOK
    <2>4. Pool!Retire(a)
      BY <2>1, <2>2, <2>3 DEF Pool!Retire, Held
    <2>5. QED
      BY <2>4 DEF Pool!Next
  <1>7. ASSUME NEW c \in Caller, Emit(c)
        PROVE  UNCHANGED Pool!vars
    BY <1>7, QuietStep DEF Emit, accountVars, leaseVars
  <1>8. CASE Tick
    BY <1>8, QuietStep DEF Tick
  <1>9. CASE UNCHANGED vars
    BY <1>9, QuietStep DEF vars
  <1>10. QED
    BY <1>1, <1>2, <1>3, <1>4, <1>5, <1>6, <1>7, <1>8, <1>9 DEF PoolNext

(* Behind its clocks, cooldowns, batches and late events the pool is the   *)
(* abstract one: an account under at most one lease, an id granted once, a *)
(* jailed account never granted again.                                     *)
THEOREM PoolImplementsExclusiveLeases == PoolSpec => ImplementsExclusiveLeases
  <1>1. Init => Pool!Init
    BY DEF Init, Pool!Init, Granted
  <1>2. QED
    BY <1>1, RefinementStep, PoolInvariant, PTL DEF PoolSpec, Pool!Spec, ImplementsExclusiveLeases
=============================================================================
