-------------------------- MODULE ExclusiveLeases --------------------------
(***************************************************************************)
(* What the account pool promises its agents, without clocks, account      *)
(* states or threads: an account is held under at most one lease, a lease  *)
(* id is granted once, and a retired account is never granted again.       *)
(***************************************************************************)
CONSTANTS Lease, Account

VARIABLES
    held,       \* pairs <<lease, account>> in force
    granted,    \* lease ids ever handed out
    retired     \* accounts taken out of the pool for good

vars == <<held, granted, retired>>

Init ==
    /\ held = {}
    /\ granted = {}
    /\ retired = {}

InUse(a) == \E l \in Lease : <<l, a>> \in held

Grant(l, a) ==
    /\ l \notin granted
    /\ ~InUse(a)
    /\ a \notin retired
    /\ held' = held \cup {<<l, a>>}
    /\ granted' = granted \cup {l}
    /\ UNCHANGED retired

(* One or more leases end together: released, or reclaimed in a batch.     *)
End(S) ==
    /\ S # {}
    /\ held' = held \ S
    /\ UNCHANGED <<granted, retired>>

(* The account leaves the pool and whatever lease it was under ends.       *)
Retire(a) ==
    /\ held' = {p \in held : p[2] # a}
    /\ retired' = retired \cup {a}
    /\ UNCHANGED granted

Next ==
    \/ \E l \in Lease, a \in Account : Grant(l, a)
    \/ \E S \in SUBSET held : End(S)
    \/ \E a \in Account : Retire(a)

Spec == Init /\ [][Next]_vars
=============================================================================
