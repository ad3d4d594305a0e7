----------------------------- MODULE EnginePool ------------------------------
(***************************************************************************)
(* EnginePool: the cache of intelligence engines, one for each page, under *)
(* one asyncio lock that is held across the awaits of attach and detach.   *)
(* An engine listens to its page through two CDP sessions, the network     *)
(* sensor's and its own; opening or closing either may fail, which the     *)
(* engine swallows, and the caller may be cancelled at either await.       *)
(*                                                                         *)
(* The pool keys by id(page).  An entry keeps its page alive, so no other  *)
(* page can have its id, and the key stands for the page.                  *)
(***************************************************************************)
EXTENDS Integers, Sequences, FiniteSets, SequencesExt

CONSTANTS
    PoolCaller, \* tasks that use the pool
    Page,
    MaxSize,    \* max_pool_size
    NoEngine,
    MaxEngines  \* bound: engines ever created

VARIABLES
    pool,       \* _entries, least recently used first: [page, engine]
    idle,       \* pages whose entry is older than idle_ttl
    lock,       \* the callers that are inside the lock
    calls,      \* what each caller does
    made,       \* engines created: 1..made
    watches,    \* the page of each engine
    listens,    \* the CDP sessions of each engine that deliver events
    excused     \* engines the pool forgot, and the CDP failures

poolVars == <<pool, idle, lock, calls, made, watches, listens, excused>>

ASSUME PoolConstants == MaxSize \in Nat /\ NoEngine = 0 /\ MaxEngines \in Nat

NoCall == [at |-> "no", engine |-> NoEngine, todo |-> {}, stale |-> {}]

PoolInit ==
    /\ pool = <<>> /\ idle = {} /\ lock = {} /\ made = 0
    /\ calls = [c \in PoolCaller |-> NoCall]
    /\ watches = <<>> /\ listens = <<>>
    /\ excused = {}

Pooled == {entry.engine : entry \in ToSet(pool)}
PooledPages == {entry.page : entry \in ToSet(pool)}
EngineOf(g) == (CHOOSE entry \in ToSet(pool) : entry.page = g).engine
Others(g) ==
    IF g \notin PooledPages THEN pool
    ELSE RemoveAt(pool, CHOOSE i \in DOMAIN pool : pool[i].page = g)

(* _enforce_capacity_locked: the least recently used entries are dropped   *)
(* where they stand; nothing detaches their engines.                       *)
Kept(entries) ==
    IF Len(entries) <= MaxSize THEN entries
    ELSE SubSeq(entries, Len(entries) - MaxSize + 1, Len(entries))
Dropped(entries) == {entry.engine : entry \in ToSet(entries) \ ToSet(Kept(entries))}

(* A use makes the entry the newest, for a gc that already read the clock  *)
(* too.                                                                    *)
Touched(g) ==
    /\ idle' = idle \ {g}
    /\ calls' = [c \in PoolCaller |-> [calls[c] EXCEPT !.stale = @ \ {g}]]

-----------------------------------------------------------------------------
(* async with self._lock.                                                  *)
LockNotTaken == TRUE  \* mutant: the pool works without its lock
LockFree == lock = {}
Hold(c) == lock' = lock \cup {c}
LeaveLock(c) == lock' = lock \ {c}

Hit(c, g) ==
    /\ calls[c].at = "no" /\ LockFree
    /\ g \in PooledPages
    /\ pool' = Append(Others(g), [page |-> g, engine |-> EngineOf(g)])
    /\ Touched(g)
    /\ UNCHANGED <<lock, made, watches, listens, excused>>

Miss(c, g) ==
    /\ calls[c].at = "no" /\ LockFree
    /\ g \notin PooledPages /\ made < MaxEngines
    /\ Hold(c)
    /\ made' = made + 1
    /\ watches' = Append(watches, g) /\ listens' = Append(listens, {})
    /\ calls' = [calls EXCEPT ![c] = [NoCall EXCEPT !.at = "sensor", !.engine = made + 1]]
    /\ UNCHANGED <<pool, idle, excused>>

(* The sensor's session: attach swallows its failure.                      *)
AttachSensor(c, ok) ==
    /\ calls[c].at = "sensor"
    /\ calls' = [calls EXCEPT ![c].at = "capture"]
    /\ listens' = [listens EXCEPT ![calls[c].engine] = IF ok THEN @ \cup {"sensor"} ELSE @]
    /\ UNCHANGED <<pool, idle, lock, made, watches, excused>>

(* The engine's own session, then the entry and the capacity.              *)
AttachCapture(c, ok) ==
    LET e == calls[c].engine
        g == watches[e]
        entries == Append(Others(g), [page |-> g, engine |-> e])
    IN
    /\ calls[c].at = "capture"
    /\ listens' = [listens EXCEPT ![e] = IF ok THEN @ \cup {"capture"} ELSE @]
    /\ pool' = Kept(entries)
    /\ excused' = excused \cup Dropped(entries)
    /\ idle' = idle \ {g}
    /\ calls' = [k \in PoolCaller |->
                    IF k = c THEN NoCall ELSE [calls[k] EXCEPT !.stale = @ \ {g}]]
    /\ LeaveLock(c)
    /\ UNCHANGED <<made, watches>>

-----------------------------------------------------------------------------
EvictUndetached(c, pages) ==  \* mutant: the entry goes, the engine stays attached
    /\ pool' = SelectSeq(pool, LAMBDA entry : entry.page \notin pages)
    /\ idle' = idle \ pages
    /\ calls' = [calls EXCEPT ![c] = NoCall]
    /\ LeaveLock(c)

(* _evict_locked for the pages of a set: the entry goes at once, then two  *)
(* awaits close the sessions.                                              *)
Evict(c, pages) ==
    /\ pool' = IF pages = {} THEN pool ELSE Others(CHOOSE g \in pages : TRUE)
    /\ IF pages = {}
       THEN calls' = [calls EXCEPT ![c] = NoCall] /\ LeaveLock(c) /\ UNCHANGED idle
       ELSE LET g == CHOOSE g \in pages : TRUE IN
            /\ calls' = [calls EXCEPT ![c] = [NoCall EXCEPT
                            !.at = "close_sensor", !.engine = EngineOf(g), !.todo = pages \ {g}]]
            /\ idle' = idle \ {g}
            /\ Hold(c)

Release(c, g) ==
    /\ calls[c].at = "no" /\ LockFree
    /\ Evict(c, {g} \cap PooledPages)
    /\ UNCHANGED <<made, watches, listens, excused>>

ReleaseAll(c) ==
    /\ calls[c].at = "no" /\ LockFree
    /\ Evict(c, PooledPages)
    /\ UNCHANGED <<made, watches, listens, excused>>

(* gc reads the clock, and judges the entries by it when it has the lock.  *)
GcCalled(c) ==
    /\ calls[c].at = "no"
    /\ calls' = [calls EXCEPT ![c] = [NoCall EXCEPT !.at = "gc", !.stale = idle]]
    /\ UNCHANGED <<pool, idle, lock, made, watches, listens, excused>>

Gc(c) ==
    /\ calls[c].at = "gc" /\ LockFree
    /\ Evict(c, calls[c].stale \cap PooledPages)
    /\ UNCHANGED <<made, watches, listens, excused>>

(* A session that does not close is forgotten all the same.                *)
CloseSensor(c, ok) ==
    LET e == calls[c].engine IN
    /\ calls[c].at = "close_sensor"
    /\ calls' = [calls EXCEPT ![c].at = "close_capture"]
    /\ listens' = [listens EXCEPT ![e] = IF ok THEN @ \ {"sensor"} ELSE @]
    /\ excused' = IF ok THEN excused ELSE excused \cup {e}
    /\ UNCHANGED <<pool, idle, lock, made, watches>>

CloseCapture(c, ok) ==
    LET e == calls[c].engine IN
    /\ calls[c].at = "close_capture"
    /\ listens' = [listens EXCEPT ![e] = IF ok THEN @ \ {"capture"} ELSE @]
    /\ excused' = IF ok THEN excused ELSE excused \cup {e}
    /\ Evict(c, calls[c].todo)
    /\ UNCHANGED <<made, watches>>

-----------------------------------------------------------------------------
(* The caller is cancelled at an await: no handler of the pool or of the   *)
(* engine catches that, and only the lock is given back.                   *)
CancelCall(c) ==
    /\ calls[c].at # "no"
    /\ excused' = excused \cup ({calls[c].engine} \ {NoEngine})
    /\ calls' = [calls EXCEPT ![c] = NoCall]
    /\ LeaveLock(c)
    /\ UNCHANGED <<pool, idle, made, watches, listens>>

Ages(g) ==
    /\ g \in PooledPages \ idle
    /\ idle' = idle \cup {g}
    /\ UNCHANGED <<pool, lock, calls, made, watches, listens, excused>>

PoolNext ==
    \/ \E c \in PoolCaller :
          \/ \E g \in Page : Hit(c, g) \/ Miss(c, g) \/ Release(c, g)
          \/ \E ok \in BOOLEAN : \/ AttachSensor(c, ok) \/ AttachCapture(c, ok)
                                 \/ CloseSensor(c, ok) \/ CloseCapture(c, ok)
          \/ ReleaseAll(c) \/ GcCalled(c) \/ Gc(c) \/ CancelCall(c)
    \/ \E g \in Page : Ages(g)

PoolSpec == PoolInit /\ [][PoolNext]_poolVars

-----------------------------------------------------------------------------
InHands == {calls[c].engine : c \in lock}

(* Every engine that still listens to its page is in the pool or in the    *)
(* hands of the caller that holds the lock, unless the pool is known to    *)
(* have lost it: the capacity dropped it, its sessions did not close, or   *)
(* its caller was cancelled.  Nothing else, no concurrent get, release or  *)
(* gc, leaves a listener behind.                                           *)
ListenersArePooled ==
    \A e \in 1..made : listens[e] # {} => e \in Pooled \cup InHands \cup excused

(* With the same exceptions no page has two listeners, so no event of the  *)
(* page is counted twice.                                                  *)
OneListenerPerPage ==
    \A e, f \in (1..made) \ excused :
        listens[e] # {} /\ listens[f] # {} /\ watches[e] = watches[f] => e = f

=============================================================================
