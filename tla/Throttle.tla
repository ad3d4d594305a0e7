------------------------------ MODULE Throttle ------------------------------
(***************************************************************************)
(* utils/throttle.py: the token bucket of one account and the registry     *)
(* that hands it out.  The lock covers refill, check and decrement and is  *)
(* released while a caller sleeps, so callers overtake one another between *)
(* two tries.  The clock's unit is the time in which one token arrives.    *)
(***************************************************************************)
EXTENDS Integers, Sequences

CONSTANTS
  Caller,       \* coroutines and threads that take tokens
  Burst,        \* capacity of the bucket
  MaxAsk,       \* bound: tokens asked for at once
  MaxClock,     \* bound on the clock
  MaxBuckets    \* bound: buckets created for the account

ASSUME ThrottleAssumption ==
  Burst \in Nat /\ MaxAsk \in Nat /\ MaxClock \in Nat /\ MaxBuckets \in Nat

VARIABLES
  now,
  buckets,    \* every TokenBucket created and kept: [tokens, refilled]
  current,    \* the registry's entry for the account: an index, 0 for none
  caller,     \* per caller [at, bucket, asks, wake]
  granted     \* history, per bucket: the tokens it gave at or after each time

throttleVars == <<now, buckets, current, caller, granted>>

NotAsking == [at |-> "idle", bucket |-> 0, asks |-> 0, wake |-> 0]

ThrottleInit ==
  /\ now = 0
  /\ buckets = <<>>
  /\ current = 0
  /\ caller = [c \in Caller |-> NotAsking]
  /\ granted = <<>>

PassTime == now < MaxClock /\ now' = now + 1 /\ UNCHANGED <<buckets, current, caller, granted>>

(* get_limiter: setdefault keeps the bucket that is there.                 *)
GetLimiter ==
  IF current # 0 THEN UNCHANGED <<buckets, current, granted>>
  ELSE /\ Len(buckets) < MaxBuckets
       /\ buckets' = Append(buckets, [tokens |-> Burst, refilled |-> now])
       /\ granted' = Append(granted, [t \in 0..MaxClock |-> 0])
       /\ current' = Len(buckets) + 1

(* remove_limiter: who holds the bucket goes on using it.                  *)
RemoveLimiter ==
  /\ current # 0
  /\ current' = 0
  /\ UNCHANGED <<now, buckets, caller, granted>>

(* A mutant that leaves the stamp of the last refill where it was when the *)
(* bucket is full.                                                         *)
RefilledFull(b) ==
  LET t == buckets[b].tokens + (now - buckets[b].refilled) IN
  [tokens |-> IF t < Burst THEN t ELSE Burst,
   refilled |-> IF t < Burst THEN now ELSE buckets[b].refilled]

Refilled(b) ==
  LET t == buckets[b].tokens + (now - buckets[b].refilled) IN
  [tokens |-> IF t < Burst THEN t ELSE Burst, refilled |-> now]

Take(b, n) ==
  /\ buckets' = [buckets EXCEPT ![b] = [Refilled(b) EXCEPT !.tokens = @ - n]]
  /\ granted' = [granted EXCEPT ![b] =
                    [t \in 0..MaxClock |-> IF t <= now THEN granted[b][t] + n ELSE granted[b][t]]]

Refuse(b) == buckets' = [buckets EXCEPT ![b] = Refilled(b)] /\ UNCHANGED granted

(* A caller looks its bucket up and starts to acquire or to try_acquire.  *)
Ask(c, how, n) ==
  /\ caller[c].at = "idle"
  /\ GetLimiter
  /\ caller' = [caller EXCEPT ![c] = [at |-> how, bucket |-> current', asks |-> n, wake |-> 0]]
  /\ UNCHANGED now

(* One turn of acquire's loop: take, or sleep for as long as the tokens    *)
(* that are missing now need to arrive.                                    *)
TryAgain(c) ==
  /\ caller[c].at = "trying"
  /\ LET b == caller[c].bucket
         n == caller[c].asks
         have == Refilled(b).tokens IN
     IF n <= have
     THEN Take(b, n) /\ caller' = [caller EXCEPT ![c] = NotAsking]
     ELSE Refuse(b) /\ caller' = [caller EXCEPT ![c].at = "sleeping", ![c].wake = now + n - have]
  /\ UNCHANGED <<now, current>>

Wake(c) ==
  /\ caller[c].at = "sleeping"
  /\ caller[c].wake <= now
  /\ caller' = [caller EXCEPT ![c].at = "trying"]
  /\ UNCHANGED <<now, buckets, current, granted>>

(* The caller's task is cancelled in its sleep.                            *)
GiveUp(c) ==
  /\ caller[c].at = "sleeping"
  /\ caller' = [caller EXCEPT ![c] = NotAsking]
  /\ UNCHANGED <<now, buckets, current, granted>>

TryAcquire(c) ==
  /\ caller[c].at = "once"
  /\ LET b == caller[c].bucket IN
     IF caller[c].asks <= Refilled(b).tokens THEN Take(b, caller[c].asks) ELSE Refuse(b)
  /\ caller' = [caller EXCEPT ![c] = NotAsking]
  /\ UNCHANGED <<now, current>>

ThrottleNext ==
  \/ PassTime \/ RemoveLimiter
  \/ \E c \in Caller :
       \/ TryAgain(c) \/ Wake(c) \/ GiveUp(c) \/ TryAcquire(c)
       \/ \E how \in {"trying", "once"}, n \in 1..MaxAsk : Ask(c, how, n)

ThrottleSpec == ThrottleInit /\ [][ThrottleNext]_throttleVars

(* What a token bucket is for: whoever takes tokens, by waiting or not,    *)
(* and however the waits interleave, no window of time sees more tokens    *)
(* leave one bucket than its capacity and what arrived in that window.     *)
NeverOverdrawn ==
  \A b \in DOMAIN buckets, t \in 0..now : granted[b][t] <= Burst + (now - t)
=============================================================================
