------------------------------ MODULE Routing ------------------------------
(***************************************************************************)
(* What happens to a task before its workflow starts: submit_task          *)
(* (orchestrator/main.py) asks the resource scheduler whether the memory   *)
(* that is left admits a task of this priority, and the provider router    *)
(* for the provider it would prefer; ControlPlane.route asks the router    *)
(* for the best provider of a pool.  Accounts change between the requests, *)
(* as outcomes are recorded on them, and so does the memory.               *)
(*                                                                         *)
(* Scores are in thousandths, latencies in milliseconds, memory in         *)
(* quarters of a gigabyte.                                                 *)
(***************************************************************************)
EXTENDS Lists, FiniteSets

CONSTANTS
  Accounts,        \* the registered accounts, in order of registration
  ProviderOf, ContextLimit,   \* per account
  Capability,      \* per account: the weighted capability of its provider
  UnknownProvider, \* a provider without a profile
  Context,         \* context lengths a request may ask for
  Ram,             \* amounts of available memory
  Latency,         \* latencies of answers
  Nobody,          \* no provider is preferred
  MaxDrop,         \* bound: how far an account's health score falls
  MaxSamples       \* bound: latencies an average is of

Account == {Accounts[i] : i \in DOMAIN Accounts}

ASSUME RoutingAssumption ==
  /\ Accounts \in Seq(Account)
  /\ ContextLimit \in [Account -> Nat]
  /\ Capability \in [Account -> Nat]
  /\ Context \subseteq Nat /\ Latency \subseteq Nat
  /\ Nobody \notin {ProviderOf[a] : a \in Account}

VARIABLES
  account,    \* per account [drop, failures, latency, samples]: 1 - health_score, consecutive_failures, and the latencies its average is of
  ram,        \* available memory
  task        \* the last task submitted: its context length and assigned_account_id

routingVars == <<account, ram, task>>

RoutingInit ==
  /\ account = [a \in Account |-> [drop |-> 0, failures |-> 0, latency |-> 0, samples |-> 0]]
  /\ ram = CHOOSE q \in Ram : \A x \in Ram : x <= q
  /\ task = [context |-> 0, provider |-> Nobody]

Least(x, y) == IF x < y THEN x ELSE y
Most(x, y) == IF x < y THEN y ELSE x

-----------------------------------------------------------------------------
(* resource_scheduler.py *)

Priorities == <<"CRITICAL", "HIGH", "NORMAL", "LOW", "BACKGROUND">>

(* WatermarkLevel: 0 NORMAL, 1 WARNING, 2 CLEANUP, 3 EMERGENCY, 4 CRITICAL. *)
WatermarkLevel(quarters) == IF quarters > 4 THEN 0 ELSE IF quarters <= 1 THEN 4 ELSE 5 - quarters

RejectedFrom(p) == CASE p = "CRITICAL" -> 4
                     [] p \in {"HIGH", "NORMAL"} -> 3
                     [] p = "LOW" -> 2
                     [] p = "BACKGROUND" -> 1

CanAcceptTask(quarters, p) == WatermarkLevel(quarters) < RejectedFrom(p)

-----------------------------------------------------------------------------
(* provider_router.py *)

(* The average of the latencies other than 0 that were recorded.           *)
AverageLatency(a) == IF account[a].samples = 0 THEN 0 ELSE account[a].latency \div account[a].samples

Penalty(a) == 2 * account[a].drop + 500 * account[a].failures + Least(AverageLatency(a), 5000)

ScoreAccount(a, context) ==
  IF ContextLimit[a] < context \/ ProviderOf[a] = UnknownProvider THEN 0
  ELSE Most(0, Capability[a] - Penalty(a))

(* The head of a stable sort by descending score: of the best accounts the *)
(* one that comes first.  Python's sort is external.                       *)
SelectAccount(seq, context) ==
  LET score(i) == ScoreAccount(seq[i], context)
      best == {i \in DOMAIN seq : \A j \in DOMAIN seq : score(j) <= score(i)}
  IN  seq[CHOOSE i \in best : \A j \in best : i <= j]

(* The pool maps a provider to its accounts and is walked in the order of  *)
(* its providers; a provider replaces the best so far only with a higher   *)
(* score.                                                                  *)
Of(p) == Outside(Accounts, {a \in Account : ProviderOf[a] # p})

BestOf(p, context) ==
  LET best == SelectAccount(Of(p), context)
  IN  [account |-> best, score |-> ScoreAccount(best, context)]

SelectProviderLast(providers, context) ==   \* mutant: best_score is not kept
  LET best[i \in 1 .. Len(providers)] ==
        IF i = 1 \/ BestOf(providers[i], context).score > -1
        THEN BestOf(providers[i], context)
        ELSE best[i - 1]
  IN  best[Len(providers)].account

SelectProvider(providers, context) ==
  LET best[i \in 1 .. Len(providers)] ==
        IF i = 1 \/ BestOf(providers[i], context).score > best[i - 1].score
        THEN BestOf(providers[i], context)
        ELSE best[i - 1]
  IN  best[Len(providers)].account

-----------------------------------------------------------------------------
(* submit_task: a task that is refused leaves nothing; one that is         *)
(* admitted keeps the provider of the selected account.                    *)
SubmitTask(p, context) ==
  /\ CanAcceptTask(ram, p)
  /\ task' = [context |-> context,
              provider |-> IF Accounts = <<>> THEN Nobody
                           ELSE ProviderOf[SelectAccount(Accounts, context)]]
  /\ UNCHANGED <<account, ram>>

(* What the accounts hold after an outcome: a latency of 0 is not averaged. *)
Recorded(a, drop, failures, ms) ==
  /\ ms > 0 => account[a].samples < MaxSamples
  /\ account' = [account EXCEPT ![a] =
        [drop |-> drop, failures |-> failures, latency |-> @.latency + ms,
         samples |-> @.samples + IF ms > 0 THEN 1 ELSE 0]]
  /\ UNCHANGED <<ram, task>>

RecordSuccess(a, ms) == Recorded(a, Most(0, account[a].drop - 50), 0, ms)

RecordFailure(a, ms) ==
  /\ account[a].drop + 150 <= MaxDrop
  /\ Recorded(a, Least(1000, account[a].drop + 150), account[a].failures + 1, ms)

MemoryChanges == \E q \in Ram : ram' = q /\ UNCHANGED <<account, task>>

RoutingNext ==
  \/ \E c \in Context, i \in DOMAIN Priorities : SubmitTask(Priorities[i], c)
  \/ \E a \in Account, ms \in Latency : RecordSuccess(a, ms) \/ RecordFailure(a, ms)
  \/ MemoryChanges

RoutingSpec == RoutingInit /\ [][RoutingNext]_routingVars

-----------------------------------------------------------------------------
(* ControlPlane.route changes nothing: it answers with SelectProvider for  *)
(* the pool of all accounts, in whatever order its providers were put.     *)
Providers == {ProviderOf[a] : a \in Account}
Orders == {s \in [1 .. Cardinality(Providers) -> Providers] :
             \A p \in Providers : \E i \in DOMAIN s : s[i] = p}

(* The two routers agree, whatever outcomes were recorded in between: the  *)
(* control plane's walk through the providers, in any order, ends at an    *)
(* account that scores what the account submit_task prefers scores.        *)
RoutersAgree ==
  Accounts # <<>> =>
    \A c \in Context, providers \in Orders :
      ScoreAccount(SelectProvider(providers, c), c) = ScoreAccount(SelectAccount(Accounts, c), c)

(* _select_preferred_provider: "or None if no account can satisfy the      *)
(* context-length requirement" (main.py:346-347).  The code returns the    *)
(* first account's provider then, with a score of zero.                    *)
NobodyWhenNothingFits ==
  task.provider # Nobody => \E a \in Account : task.context <= ContextLimit[a]
=============================================================================
