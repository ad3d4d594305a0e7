--------------------------- MODULE SensingProofs ---------------------------
(***************************************************************************)
(* What the store of a sensing engine, the pool of its pages and the       *)
(* circuit breaker in front of its provider keep, for every set of         *)
(* targets, pages and callers and for every bound.                         *)
(***************************************************************************)
EXTENDS GuardedSend, EnginePool, ReliabilityStore, FiniteSetTheorems, SequenceTheorems, TLAPS

-----------------------------------------------------------------------------
(* ReliabilityStore: what was learnt survives.                             *)

(* Two facts make SavesSurvive inductive: what save has serialised is      *)
(* still what the store holds, since nothing of the store runs meanwhile;  *)
(* and the file itself is never half-written.                              *)
SaveInv ==
    /\ targets \in Table
    /\ file \in Table \cup {Absent}
    /\ saving # Absent => saving = targets /\ up

LEMMA KnownType == ASSUME SaveInv, NEW t \in Target PROVE Known(t) \in Count
  BY FileAssumption DEF SaveInv, Known, Table, Count, Fresh

LEMMA SaveInit == RelInit => SaveInv
  BY DEF RelInit, SaveInv, Table, NoTargets

LEMMA SaveStep == SaveInv /\ [RelNext]_relVars => SaveInv'
  <1> SUFFICES ASSUME SaveInv, [RelNext]_relVars PROVE SaveInv'
    OBVIOUS
  <1> USE DEF SaveInv
  <1>1. ASSUME NEW t \in Target, Get(t) PROVE SaveInv'
    <2>1. targets' \in Table
      BY <1>1, KnownType DEF Get, Table
    <2>2. QED
      BY <1>1, <2>1 DEF Get
  <1>2. ASSUME NEW t \in Target, NEW success \in BOOLEAN, Record(t, success) PROVE SaveInv'
    <2>1. /\ [Known(t) EXCEPT !.successes = @ + 1] \in Count
          /\ [Known(t) EXCEPT !.failures = @ + 1] \in Count
      BY KnownType DEF Count
    <2>2. targets' \in Table
      BY <1>2, <2>1 DEF Record, Table
    <2>3. QED
      BY <1>2, <2>2 DEF Record
  <1>3. CASE Reset
    BY <1>3 DEF Reset, Table, NoTargets
  <1>4. CASE OpenTmp
    BY <1>4 DEF OpenTmp
  <1>5. CASE WriteTmp
    BY <1>5 DEF WriteTmp
  <1>6. CASE WriteRaises
    BY <1>6 DEF WriteRaises
  <1>7. CASE Replace
    BY <1>7 DEF Replace
  <1>8. CASE Crash
    BY <1>8 DEF Crash, Table, NoTargets
  <1>9. CASE Start
    <2>1. targets' \in Table
      BY <1>9 DEF Start, Loaded, Table, NoTargets
    <2>2. QED
      BY <1>9, <2>1 DEF Start
  <1>10. CASE UNCHANGED relVars
    BY <1>10 DEF relVars
  <1>11. QED
    BY <1>1, <1>2, <1>3, <1>4, <1>5, <1>6, <1>7, <1>8, <1>9, <1>10 DEF RelNext

LEMMA FileStep ==
  ASSUME SaveInv, RelNext, file' # file
  PROVE  file' = targets
  BY DEF SaveInv, RelNext, Get, Record, Reset, OpenTmp, WriteTmp, WriteRaises, Replace,
         Crash, Start

LEMMA StartStep ==
  ASSUME SaveInv, RelNext, ~up, up'
  PROVE  targets' = IF file = Absent THEN NoTargets ELSE file
  <1>1. Start
    BY DEF RelNext, Get, Record, Reset, OpenTmp, WriteTmp, WriteRaises, Replace, Crash
  <1>2. file # Half
    BY FileAssumption DEF SaveInv
  <1>3. QED
    BY <1>1, <1>2 DEF Start, Loaded

(* Whatever crashes or fails, the file holds nothing or all the counts of  *)
(* the last save that ended, and the next start finds them.                *)
THEOREM WhatWasSavedSurvives == RelSpec => SavesSurvive
  <1>1. SaveInv /\ [RelNext]_relVars
          => [/\ file' # file => file' = targets
              /\ ~up /\ up' => targets' = (IF file = Absent THEN NoTargets ELSE file)]_relVars
    BY FileStep, StartStep DEF relVars
  <1>2. QED
    BY <1>1, SaveInit, SaveStep, PTL DEF RelSpec, SavesSurvive

-----------------------------------------------------------------------------
(* EnginePool: the entries as a set of engines, one for a page.            *)

Session == {"sensor", "capture"}
Entry == [page : Page, engine : Nat]
PoolCall ==
  [at : {"no", "gc", "sensor", "capture", "close_sensor", "close_capture"}, engine : Nat,
   todo : SUBSET Page, stale : SUBSET Page]

OneEach(entries) ==
  \A i, j \in DOMAIN entries : entries[i].page = entries[j].page => i = j

PoolTypes ==
  /\ made \in Nat /\ idle \subseteq Page
  /\ watches \in Seq(Page) /\ Len(watches) = made
  /\ listens \in Seq(SUBSET Session) /\ Len(listens) = made
  /\ calls \in [PoolCaller -> PoolCall]

(* An entry is of an engine that was made for its page; no page has two.   *)
EntriesOK ==
  /\ pool \in Seq(Entry) /\ OneEach(pool)
  /\ \A i \in DOMAIN pool : pool[i].engine \in 1..made /\ watches[pool[i].engine] = pool[i].page

(* Who is between the two ends of the lock holds it, and is alone.         *)
LockHeld ==
  /\ lock = {c \in PoolCaller : calls[c].at \notin {"no", "gc"}}
  /\ \A c, d \in lock : c = d

(* The engine in the hands of who holds the lock is not in the pool, and   *)
(* neither is another one for its page; what is still to evict is.  Once   *)
(* the sensor's session is closed, or lost, it delivers nothing.           *)
InHandsOK ==
  \A c \in lock :
    /\ calls[c].engine \in 1..made /\ watches[calls[c].engine] \notin PooledPages
    /\ calls[c].todo \subseteq PooledPages
    /\ calls[c].at = "close_capture" =>
         "sensor" \notin listens[calls[c].engine] \/ calls[c].engine \in excused

PoolInv == PoolTypes /\ EntriesOK /\ LockHeld /\ InHandsOK /\ ListenersArePooled

-----------------------------------------------------------------------------
(* A sequence without one of its items.                                    *)
LEMMA RemoveAtItems ==
  ASSUME NEW S, NEW s \in Seq(S), NEW k \in DOMAIN s
  PROVE  /\ RemoveAt(s, k) \in Seq(S) /\ Len(RemoveAt(s, k)) = Len(s) - 1
         /\ \A i \in 1..(Len(s) - 1) : RemoveAt(s, k)[i] = IF i < k THEN s[i] ELSE s[i + 1]
<1> DEFINE low == SubSeq(s, 1, k - 1)
           high == SubSeq(s, k + 1, Len(s))
<1>1. Len(s) \in Nat /\ k \in 1..Len(s)
  OBVIOUS
<1>2. low \in Seq(S) /\ Len(low) = k - 1 /\ \A i \in 1..(k - 1) : low[i] = s[i]
  BY <1>1, SubSeqProperties
<1>3. high \in Seq(S) /\ Len(high) = Len(s) - k /\ \A i \in 1..(Len(s) - k) : high[i] = s[k + i]
  BY <1>1, SubSeqProperties
<1>4. RemoveAt(s, k) = low \o high
  BY DEF RemoveAt
<1> HIDE DEF low, high
<1>5. /\ low \o high \in Seq(S) /\ Len(low \o high) = Len(low) + Len(high)
      /\ \A i \in 1..(Len(low) + Len(high)) :
           (low \o high)[i] = IF i <= Len(low) THEN low[i] ELSE high[i - Len(low)]
  BY <1>2, <1>3, ConcatProperties
<1>6. ASSUME NEW i \in 1..(Len(s) - 1)
      PROVE  (low \o high)[i] = IF i < k THEN s[i] ELSE s[i + 1]
  <2>1. CASE i < k
    <3>1. i \in 1..(k - 1) /\ i \in 1..(Len(low) + Len(high)) /\ i <= Len(low)
      BY <1>1, <1>2, <1>3, <2>1
    <3>2. (low \o high)[i] = low[i] /\ low[i] = s[i]
      BY <1>2, <1>5, <3>1
    <3> QED
      BY <2>1, <3>2
  <2>2. CASE ~(i < k)
    <3>1. (low \o high)[i] = high[i - (k - 1)] /\ i - (k - 1) \in 1..(Len(s) - k)
      <4>1. /\ i \in 1..(Len(low) + Len(high)) /\ ~(i <= Len(low))
            /\ i - (k - 1) \in 1..(Len(s) - k)
        BY <1>1, <1>2, <1>3, <2>2, SMTT(30)
      <4> QED
        BY <1>2, <1>5, <4>1
    <3>2. high[i - (k - 1)] = s[k + (i - (k - 1))] /\ k + (i - (k - 1)) = i + 1
      BY <1>1, <1>3, <3>1, SMTT(30)
    <3> QED
      BY <2>2, <3>1, <3>2
  <2> QED
    BY <2>1, <2>2
<1> QED
  BY <1>1, <1>2, <1>3, <1>4, <1>5, <1>6, SMTT(30)

(* The entries of other pages.                                             *)
LEMMA OthersItems ==
  ASSUME pool \in Seq(Entry), OneEach(pool), NEW g
  PROVE  /\ Others(g) \in Seq(Entry) /\ OneEach(Others(g))
         /\ ToSet(Others(g)) = {entry \in ToSet(pool) : entry.page # g}
<1>1. CASE g \notin PooledPages
  BY <1>1 DEF Others, PooledPages, ToSet
<1>2. CASE g \in PooledPages
  <2> DEFINE k == CHOOSE i \in DOMAIN pool : pool[i].page = g
             left == RemoveAt(pool, k)
  <2>1. k \in DOMAIN pool /\ pool[k].page = g
    <3>1. \E i \in DOMAIN pool : pool[i].page = g
      BY <1>2 DEF PooledPages, ToSet
    <3> QED
      BY <3>1
  <2>2. Others(g) = left
    BY <1>2 DEF Others
  <2> HIDE DEF k
  <2>3. /\ left \in Seq(Entry) /\ Len(left) = Len(pool) - 1
        /\ \A i \in 1..(Len(pool) - 1) : left[i] = IF i < k THEN pool[i] ELSE pool[i + 1]
    BY <2>1, RemoveAtItems
  <2> HIDE DEF left
  <2>4. /\ Len(pool) \in Nat /\ DOMAIN pool = 1..Len(pool) /\ DOMAIN left = 1..(Len(pool) - 1)
        /\ k \in 1..Len(pool)
    BY <2>1, <2>3
  <2>5. ASSUME NEW i \in DOMAIN left, NEW j \in DOMAIN left, left[i].page = left[j].page
        PROVE  i = j
    <3> DEFINE at(m) == IF m < k THEN m ELSE m + 1
    <3>1. at(i) \in DOMAIN pool /\ at(j) \in DOMAIN pool
      BY <2>4
    <3>2. left[i] = pool[at(i)] /\ left[j] = pool[at(j)]
      BY <2>3, <2>4
    <3>3. at(i) = at(j)
      BY <2>5, <3>1, <3>2 DEF OneEach
    <3> QED
      BY <2>4, <3>3
  <2>6. ASSUME NEW i \in DOMAIN left
        PROVE  left[i] \in ToSet(pool) /\ left[i].page # g
    <3> DEFINE m == IF i < k THEN i ELSE i + 1
    <3>1. m \in DOMAIN pool /\ m # k /\ left[i] = pool[m]
      BY <2>3, <2>4
    <3> QED
      BY <2>1, <3>1 DEF OneEach, ToSet
  <2>7. ASSUME NEW i \in DOMAIN pool, pool[i].page # g
        PROVE  pool[i] \in ToSet(left)
    <3> DEFINE m == IF i < k THEN i ELSE i - 1
    <3>1. i # k
      BY <2>1, <2>7
    <3>2. m \in DOMAIN left /\ left[m] = pool[i]
      BY <2>3, <2>4, <3>1
    <3> QED
      BY <3>2 DEF ToSet
  <2>8. ToSet(left) = {entry \in ToSet(pool) : entry.page # g}
    BY <2>6, <2>7 DEF ToSet
  <2> QED
    BY <2>2, <2>3, <2>5, <2>8 DEF OneEach
<1> QED
  BY <1>1, <1>2

(* One entry more, for a page that has none.                               *)
LEMMA AppendItems ==
  ASSUME NEW q \in Seq(Entry), OneEach(q), NEW entry \in Entry,
         \A e \in ToSet(q) : e.page # entry.page
  PROVE  /\ Append(q, entry) \in Seq(Entry) /\ OneEach(Append(q, entry))
         /\ ToSet(Append(q, entry)) = ToSet(q) \cup {entry}
<1> DEFINE r == Append(q, entry)
           n == Len(q)
<1>1. /\ r \in Seq(Entry) /\ DOMAIN r = 1..(n + 1) /\ n \in Nat /\ DOMAIN q = 1..n
      /\ r[n + 1] = entry /\ \A i \in 1..n : r[i] = q[i] /\ i \in 1..(n + 1)
      /\ \A i \in 1..(n + 1) : i = n + 1 \/ i \in 1..n
  OBVIOUS
<1> HIDE DEF r
<1>2. \A i \in 1..n : q[i] \in ToSet(q)
  BY <1>1 DEF ToSet
<1>3. OneEach(r)
  BY <1>1, <1>2 DEF OneEach
<1>4. n + 1 \in 1..(n + 1)
  BY <1>1
<1>5. ToSet(r) = ToSet(q) \cup {entry}
  BY <1>1, <1>4 DEF ToSet
<1> QED
  BY <1>1, <1>3, <1>5 DEF r

(* What the capacity leaves.                                               *)
LEMMA KeptItems ==
  ASSUME NEW q \in Seq(Entry), OneEach(q)
  PROVE  Kept(q) \in Seq(Entry) /\ OneEach(Kept(q)) /\ ToSet(Kept(q)) \subseteq ToSet(q)
<1>1. CASE Len(q) <= MaxSize
  BY <1>1 DEF Kept
<1>2. CASE ~(Len(q) <= MaxSize)
  <2> DEFINE k == Len(q) - MaxSize
             r == SubSeq(q, k + 1, Len(q))
  <2>1. Len(q) \in Nat /\ k \in 1..Len(q) /\ k + 1 \in 1..(Len(q) + 1) /\ MaxSize \in Nat
        /\ DOMAIN q = 1..Len(q)
    BY <1>2, PoolConstants
  <2>2. r \in Seq(Entry) /\ Len(r) = MaxSize /\ \A i \in 1..MaxSize : r[i] = q[k + i]
    BY <2>1, SubSeqProperties
  <2>3. Kept(q) = r
    BY <1>2 DEF Kept
  <2> HIDE DEF r
  <2>4. DOMAIN r = 1..MaxSize /\ \A i \in 1..MaxSize : k + i \in DOMAIN q
    BY <2>1, <2>2
  <2>5. OneEach(r)
    <3> SUFFICES ASSUME NEW i \in DOMAIN r, NEW j \in DOMAIN r, r[i].page = r[j].page PROVE i = j
      BY DEF OneEach
    <3>1. k + i = k + j
      BY <2>2, <2>4 DEF OneEach
    <3> QED
      BY <2>1, <2>4, <3>1
  <2>6. ToSet(r) \subseteq ToSet(q)
    BY <2>2, <2>4 DEF ToSet
  <2> QED
    BY <2>2, <2>3, <2>5, <2>6
<1> QED
  BY <1>1, <1>2

-----------------------------------------------------------------------------
(* The pool's entries and its engines: each engine of the pool is the one  *)
(* for its page.                                                           *)
LEMMA PooledEngines ==
  ASSUME PoolTypes, EntriesOK
  PROVE  /\ Pooled \subseteq 1..made
         /\ PooledPages = {watches[e] : e \in Pooled} /\ PooledPages \subseteq Page
         /\ \A e, f \in Pooled : watches[e] = watches[f] => e = f
<1>1. \A entry \in ToSet(pool) : entry.engine \in 1..made /\ watches[entry.engine] = entry.page
  BY DEF EntriesOK, ToSet
<1>2. \A a, b \in ToSet(pool) : a.page = b.page => a = b
  BY DEF EntriesOK, OneEach, ToSet
<1>3. \A e \in 1..made : watches[e] \in Page
  BY DEF PoolTypes
<1>4. Pooled \subseteq 1..made /\ PooledPages = {watches[e] : e \in Pooled}
  BY <1>1 DEF Pooled, PooledPages
<1>5. \A e, f \in Pooled : watches[e] = watches[f] => e = f
  BY <1>1, <1>2 DEF Pooled
<1> QED
  BY <1>3, <1>4, <1>5

LEMMA EngineOfPage ==
  ASSUME PoolTypes, EntriesOK, NEW g \in PooledPages
  PROVE  /\ EngineOf(g) \in Pooled /\ EngineOf(g) \in 1..made /\ watches[EngineOf(g)] = g
         /\ [page |-> g, engine |-> EngineOf(g)] \in ToSet(pool)
<1>1. \A entry \in ToSet(pool) :
        entry \in Entry /\ entry.engine \in 1..made /\ watches[entry.engine] = entry.page
  BY DEF EntriesOK, ToSet
<1> DEFINE entry == CHOOSE x \in ToSet(pool) : x.page = g
<1>2. entry \in ToSet(pool) /\ entry.page = g
  BY DEF PooledPages
<1>3. EngineOf(g) = entry.engine
  BY DEF EngineOf
<1> HIDE DEF entry
<1>4. [page |-> g, engine |-> entry.engine] = entry
  BY <1>1, <1>2 DEF Entry
<1> QED
  BY <1>1, <1>2, <1>3, <1>4 DEF Pooled

(* Without the entry of a page its engine has left the pool, and no other. *)
LEMMA WithoutPage ==
  ASSUME PoolTypes, EntriesOK, UNCHANGED <<made, watches>>, NEW g \in PooledPages,
         pool' = Others(g)
  PROVE  EntriesOK' /\ Pooled' = Pooled \ {EngineOf(g)} /\ PooledPages' = PooledPages \ {g}
<1>1. /\ pool' \in Seq(Entry) /\ OneEach(pool')
      /\ ToSet(pool') = {entry \in ToSet(pool) : entry.page # g}
  BY OthersItems DEF EntriesOK
<1>2. \A entry \in ToSet(pool) : entry.engine \in 1..made /\ watches[entry.engine] = entry.page
  BY DEF EntriesOK, ToSet
<1>3. \A i \in DOMAIN pool' : pool'[i] \in ToSet(pool')
  BY DEF ToSet
<1>4. EntriesOK'
  BY <1>1, <1>2, <1>3 DEF EntriesOK
<1>5. \A a, b \in ToSet(pool) : a.page = b.page => a = b
  BY DEF EntriesOK, OneEach, ToSet
<1>6. EngineOf(g) \in Pooled /\ watches[EngineOf(g)] = g
      /\ [page |-> g, engine |-> EngineOf(g)] \in ToSet(pool)
  BY EngineOfPage
<1>7. \A entry \in ToSet(pool) : entry.page # g <=> entry.engine # EngineOf(g)
  BY <1>2, <1>5, <1>6
<1>8. Pooled' = {entry.engine : entry \in ToSet(pool')}
      /\ PooledPages' = {entry.page : entry \in ToSet(pool')}
  BY DEF Pooled, PooledPages
<1>9. Pooled' = Pooled \ {EngineOf(g)}
  BY <1>1, <1>7, <1>8 DEF Pooled
<1>10. PooledPages' = PooledPages \ {g}
  BY <1>1, <1>8 DEF PooledPages
<1> QED
  BY <1>4, <1>9, <1>10

(* With an entry added for a page that has none, and the capacity kept,    *)
(* the engines that are not in the pool were dropped.                      *)
LEMMA WithPage ==
  ASSUME PoolTypes, EntriesOK, UNCHANGED <<made, watches>>,
         NEW e \in 1..made, watches[e] \notin PooledPages, NEW entries,
         entries = Append(Others(watches[e]), [page |-> watches[e], engine |-> e]),
         pool' = Kept(entries)
  PROVE  EntriesOK' /\ Pooled' \subseteq Pooled \cup {e}
         /\ Pooled \cup {e} \subseteq Pooled' \cup Dropped(entries)
<1> DEFINE entry == [page |-> watches[e], engine |-> e]
<1>1. watches[e] \in Page /\ entry \in Entry
  BY DEF PoolTypes, Entry
<1>2. Others(watches[e]) = pool /\ \A x \in ToSet(pool) : x.page # watches[e]
  BY DEF Others, PooledPages
<1>3. entries \in Seq(Entry) /\ OneEach(entries) /\ ToSet(entries) = ToSet(pool) \cup {entry}
  <2> HIDE DEF entry
  <2>1. \A x \in ToSet(pool) : x.page # entry.page
    BY <1>2 DEF entry
  <2> QED
    BY <1>1, <1>2, <2>1, AppendItems DEF EntriesOK, entry
<1>4. pool' \in Seq(Entry) /\ OneEach(pool') /\ ToSet(pool') \subseteq ToSet(entries)
  BY <1>3, KeptItems
<1>5. \A x \in ToSet(entries) : x.engine \in 1..made /\ watches[x.engine] = x.page
  <2>1. \A x \in ToSet(pool) : x.engine \in 1..made /\ watches[x.engine] = x.page
    BY DEF EntriesOK, ToSet
  <2> QED
    BY <1>3, <2>1
<1>6. \A i \in DOMAIN pool' : pool'[i] \in ToSet(pool')
  BY DEF ToSet
<1>7. EntriesOK'
  BY <1>4, <1>5, <1>6 DEF EntriesOK
<1>8. Pooled' = {x.engine : x \in ToSet(pool')}
  BY DEF Pooled
<1>9. Pooled' \subseteq Pooled \cup {e}
  BY <1>3, <1>4, <1>8 DEF Pooled
<1>10. Pooled \cup {e} = {x.engine : x \in ToSet(entries)}
  BY <1>3 DEF Pooled
<1>11. Dropped(entries) = {x.engine : x \in ToSet(entries) \ ToSet(pool')}
  BY DEF Dropped
<1> QED
  BY <1>7, <1>8, <1>9, <1>10, <1>11

-----------------------------------------------------------------------------
(* An eviction, by a caller that has or takes the lock, of pages that are  *)
(* in the pool.                                                            *)
LEMMA EvictKeeps ==
  ASSUME PoolTypes, EntriesOK, LockHeld, NEW c \in PoolCaller, lock \subseteq {c},
         NEW pages, pages \subseteq PooledPages, Evict(c, pages), UNCHANGED <<made, watches>>,
         listens' \in Seq(SUBSET Session), Len(listens') = made,
         excused \subseteq excused',
         \A e \in 1..made : listens'[e] # {} => e \in Pooled \cup excused'
  PROVE  PoolInv'
<1>0. PooledPages \subseteq Page
  BY PooledEngines
<1>1. CASE pages = {}
  <2>1. /\ UNCHANGED <<pool, idle>> /\ calls' = [calls EXCEPT ![c] = NoCall] /\ lock' = {}
    BY <1>1 DEF Evict, LeaveLock
  <2>2. NoCall \in PoolCall
    BY PoolConstants DEF NoCall, PoolCall
  <2>3. PoolTypes'
    BY <2>1, <2>2 DEF PoolTypes
  <2>4. EntriesOK' /\ Pooled' = Pooled
    BY <2>1 DEF EntriesOK, Pooled
  <2>5. LockHeld' /\ InHandsOK'
    BY <2>1 DEF LockHeld, InHandsOK, PoolTypes, NoCall
  <2>6. ListenersArePooled'
    BY <2>1, <2>4 DEF ListenersArePooled, InHands
  <2> QED
    BY <2>3, <2>4, <2>5, <2>6 DEF PoolInv
<1>2. CASE pages # {}
  <2> DEFINE g == CHOOSE g \in pages : TRUE
             next == [NoCall EXCEPT !.at = "close_sensor", !.engine = EngineOf(g),
                                    !.todo = pages \ {g}]
  <2>1. /\ pool' = Others(g) /\ calls' = [calls EXCEPT ![c] = next]
        /\ idle' = idle \ {g} /\ lock' = {c} /\ g \in pages
    BY <1>2 DEF Evict, Hold
  <2>2. g \in PooledPages /\ EngineOf(g) \in 1..made /\ watches[EngineOf(g)] = g
    BY <2>1, EngineOfPage
  <2> HIDE DEF g
  <2>3. EntriesOK' /\ Pooled' = Pooled \ {EngineOf(g)} /\ PooledPages' = PooledPages \ {g}
    BY <2>1, <2>2, WithoutPage
  <2>4. next \in PoolCall /\ next.at = "close_sensor" /\ next.engine = EngineOf(g)
        /\ next.todo = pages \ {g}
    <3>1. EngineOf(g) \in Nat /\ pages \ {g} \in SUBSET Page
      BY <1>0, <2>2
    <3> QED
      BY <3>1 DEF NoCall, PoolCall
  <2> HIDE DEF next
  <2>5. calls' \in [PoolCaller -> PoolCall] /\ calls'[c] = next
        /\ \A d \in PoolCaller : d # c => calls'[d] = calls[d]
    BY <2>1, <2>4 DEF PoolTypes
  <2>6. PoolTypes'
    BY <2>1, <2>5 DEF PoolTypes
  <2>7. LockHeld'
    BY <2>1, <2>4, <2>5 DEF LockHeld
  <2>8. InHandsOK'
    BY <2>1, <2>2, <2>3, <2>4, <2>5 DEF InHandsOK
  <2>9. EngineOf(g) \in InHands'
    BY <2>1, <2>4, <2>5 DEF InHands
  <2>10. ListenersArePooled'
    BY <2>3, <2>9 DEF ListenersArePooled
  <2> QED
    BY <2>3, <2>6, <2>7, <2>8, <2>10 DEF PoolInv
<1> QED
  BY <1>1, <1>2

(* While nobody holds the lock, everything that listens is in the pool or  *)
(* excused.                                                                *)
LEMMA UnlockedListeners ==
  ASSUME PoolInv, LockFree
  PROVE  \A e \in 1..made : listens[e] # {} => e \in Pooled \cup excused
<1> QED
  BY DEF PoolInv, LockFree, InHands, ListenersArePooled

LEMMA HitKeeps ==
  ASSUME PoolInv, NEW c \in PoolCaller, NEW g \in Page, Hit(c, g)
  PROVE  PoolInv'
<1> DEFINE entry == [page |-> g, engine |-> EngineOf(g)]
<1>1. PoolTypes /\ EntriesOK /\ LockHeld /\ g \in PooledPages /\ lock = {}
      /\ UNCHANGED <<lock, made, watches, listens, excused>>
  BY DEF PoolInv, Hit, LockFree
<1>2. entry \in ToSet(pool) /\ entry \in Entry
  <2>1. entry \in ToSet(pool)
    BY <1>1, EngineOfPage
  <2> QED
    BY <2>1 DEF EntriesOK, PoolInv, ToSet
<1>3. entry.page = g
  OBVIOUS
<1> HIDE DEF entry
<1>4. /\ Others(g) \in Seq(Entry) /\ OneEach(Others(g))
      /\ ToSet(Others(g)) = {x \in ToSet(pool) : x.page # g}
  BY <1>1, OthersItems DEF EntriesOK
<1>5. pool' \in Seq(Entry) /\ OneEach(pool') /\ ToSet(pool') = ToSet(Others(g)) \cup {entry}
  <2>1. \A x \in ToSet(Others(g)) : x.page # entry.page
    BY <1>3, <1>4
  <2> QED
    BY <1>2, <1>4, <2>1, AppendItems DEF Hit, entry
<1>6. \A a, b \in ToSet(pool) : a.page = b.page => a = b
  BY <1>1 DEF EntriesOK, OneEach, ToSet
<1>7. ToSet(pool') = ToSet(pool)
  BY <1>2, <1>3, <1>4, <1>5, <1>6
<1>8. EntriesOK'
  <2>1. \A x \in ToSet(pool) : x.engine \in 1..made /\ watches[x.engine] = x.page
    BY <1>1 DEF EntriesOK, ToSet
  <2>2. \A i \in DOMAIN pool' : pool'[i] \in ToSet(pool')
    BY DEF ToSet
  <2> QED
    BY <1>1, <1>5, <1>7, <2>1, <2>2 DEF EntriesOK
<1>9. Pooled' = Pooled
  BY <1>7 DEF Pooled
<1>10. calls' = [k \in PoolCaller |-> [calls[k] EXCEPT !.stale = @ \ {g}]] /\ idle' = idle \ {g}
  BY DEF Hit, Touched
<1>11. /\ calls' \in [PoolCaller -> PoolCall]
       /\ \A k \in PoolCaller : calls'[k].at = calls[k].at
  BY <1>1, <1>10 DEF PoolTypes, PoolCall
<1>12. PoolTypes' /\ LockHeld' /\ InHandsOK'
  BY <1>1, <1>10, <1>11 DEF PoolTypes, LockHeld, InHandsOK
<1>13. ListenersArePooled'
  BY <1>1, <1>9 DEF PoolInv, ListenersArePooled, InHands
<1> QED
  BY <1>8, <1>12, <1>13 DEF PoolInv

LEMMA MissKeeps ==
  ASSUME PoolInv, NEW c \in PoolCaller, NEW g \in Page, Miss(c, g)
  PROVE  PoolInv'
<1> DEFINE next == [NoCall EXCEPT !.at = "sensor", !.engine = made + 1]
<1>1. /\ PoolTypes /\ EntriesOK /\ LockHeld /\ lock = {} /\ g \notin PooledPages
      /\ made' = made + 1 /\ watches' = Append(watches, g) /\ listens' = Append(listens, {})
      /\ calls' = [calls EXCEPT ![c] = next] /\ lock' = {c}
      /\ UNCHANGED <<pool, idle, excused>>
  BY DEF PoolInv, Miss, LockFree, Hold
<1>2. /\ watches' \in Seq(Page) /\ Len(watches') = made' /\ made' \in Nat
      /\ listens' \in Seq(SUBSET Session) /\ Len(listens') = made'
      /\ watches'[made'] = g /\ listens'[made'] = {}
      /\ \A e \in 1..made : watches'[e] = watches[e] /\ listens'[e] = listens[e]
      /\ 1..made' = 1..made \cup {made'}
  BY <1>1 DEF PoolTypes
<1>3. next \in PoolCall /\ next.at = "sensor" /\ next.engine = made' /\ next.todo = {}
  BY <1>1, <1>2 DEF NoCall, PoolCall
<1> HIDE DEF next
<1>4. calls' \in [PoolCaller -> PoolCall] /\ calls'[c] = next
      /\ \A d \in PoolCaller : d # c => calls'[d] = calls[d]
  BY <1>1, <1>3 DEF PoolTypes
<1>5. PoolTypes'
  BY <1>1, <1>2, <1>4 DEF PoolTypes
<1>6. EntriesOK' /\ Pooled' = Pooled /\ PooledPages' = PooledPages
  BY <1>1, <1>2 DEF EntriesOK, Pooled, PooledPages
<1>7. LockHeld'
  BY <1>1, <1>3, <1>4 DEF LockHeld
<1>8. InHandsOK'
  BY <1>1, <1>2, <1>3, <1>4, <1>6 DEF InHandsOK
<1>9. ListenersArePooled'
  <2>1. \A e \in 1..made : listens[e] # {} => e \in Pooled \cup excused
    BY UnlockedListeners DEF Miss
  <2> QED
    BY <1>1, <1>2, <1>6, <2>1 DEF ListenersArePooled
<1> QED
  BY <1>5, <1>6, <1>7, <1>8, <1>9 DEF PoolInv

(* A step of the caller in the lock from one of its awaits to the next.    *)
LEMMA NextAwait ==
  ASSUME PoolInv, NEW c \in PoolCaller, NEW e, e = calls[c].engine,
         NEW at \in {"capture", "close_capture"}, calls[c].at \in {"sensor", "close_sensor"},
         calls' = [calls EXCEPT ![c].at = at], UNCHANGED <<pool, idle, lock, made, watches>>,
         NEW now \in SUBSET Session, listens' = [listens EXCEPT ![e] = now],
         excused \subseteq excused',
         at = "close_capture" => "sensor" \notin now \/ e \in excused'
  PROVE  PoolInv'
<1> DEFINE next == [calls[c] EXCEPT !.at = at]
<1>1. PoolTypes /\ EntriesOK /\ LockHeld /\ InHandsOK /\ lock = {c}
  BY DEF PoolInv, LockHeld
<1>2. e \in 1..made /\ calls[c] \in PoolCall /\ c \in lock
  BY <1>1 DEF InHandsOK, PoolTypes
<1>3. /\ next \in PoolCall /\ next.at = at /\ next.engine = e /\ next.todo = calls[c].todo
  BY <1>2 DEF PoolCall
<1>4. calls' = [calls EXCEPT ![c] = next]
  BY <1>1 DEF PoolTypes
<1> HIDE DEF next
<1>5. calls' \in [PoolCaller -> PoolCall] /\ calls'[c] = next
      /\ \A d \in PoolCaller : d # c => calls'[d] = calls[d]
  BY <1>1, <1>3, <1>4 DEF PoolTypes
<1>6. /\ listens' \in Seq(SUBSET Session) /\ Len(listens') = made
      /\ \A f \in 1..made : listens'[f] = IF f = e THEN now ELSE listens[f]
  BY <1>1, <1>2 DEF PoolTypes
<1>7. PoolTypes' /\ EntriesOK' /\ Pooled' = Pooled /\ PooledPages' = PooledPages
  BY <1>1, <1>5, <1>6 DEF PoolTypes, EntriesOK, Pooled, PooledPages
<1>8. LockHeld'
  BY <1>1, <1>3, <1>5 DEF LockHeld
<1>9. InHandsOK'
  BY <1>1, <1>2, <1>3, <1>5, <1>6, <1>7 DEF InHandsOK
<1>10. InHands = {e} /\ InHands' = {e}
  BY <1>1, <1>3, <1>5 DEF InHands
<1>11. ListenersArePooled'
  BY <1>6, <1>7, <1>10 DEF PoolInv, ListenersArePooled
<1> QED
  BY <1>7, <1>8, <1>9, <1>11 DEF PoolInv

LEMMA AttachCaptureKeeps ==
  ASSUME PoolInv, NEW c \in PoolCaller, NEW ok \in BOOLEAN, AttachCapture(c, ok)
  PROVE  PoolInv'
<1> DEFINE e == calls[c].engine
           g == watches[e]
           entries == Append(Others(g), [page |-> g, engine |-> e])
           now == IF ok THEN listens[e] \cup {"capture"} ELSE listens[e]
<1>1. /\ PoolTypes /\ EntriesOK /\ LockHeld /\ InHandsOK /\ calls[c].at = "capture" /\ lock = {c}
      /\ UNCHANGED <<made, watches>> /\ pool' = Kept(entries)
      /\ excused' = excused \cup Dropped(entries) /\ idle' = idle \ {g} /\ lock' = {}
      /\ calls' = [k \in PoolCaller |->
                     IF k = c THEN NoCall ELSE [calls[k] EXCEPT !.stale = @ \ {g}]]
  BY DEF PoolInv, LockHeld, AttachCapture, LeaveLock
<1>2. e \in 1..made /\ g \notin PooledPages
  BY <1>1 DEF InHandsOK
<1>3. EntriesOK' /\ Pooled \cup {e} \subseteq Pooled' \cup Dropped(entries)
  <2> HIDE DEF entries
  <2>1. entries = Append(Others(watches[e]), [page |-> watches[e], engine |-> e])
    BY DEF entries
  <2> HIDE DEF e
  <2> QED
    BY <1>1, <1>2, <2>1, WithPage, ZenonT(30)
<1> HIDE DEF entries
<1>4. listens' = [listens EXCEPT ![e] = now] /\ now \in SUBSET Session
  <2>1. listens[e] \in SUBSET Session
    BY <1>1, <1>2 DEF PoolTypes
  <2> QED
    BY <2>1 DEF AttachCapture, Session
<1> HIDE DEF now, e, g
<1>5. /\ listens' \in Seq(SUBSET Session) /\ Len(listens') = made
      /\ \A f \in 1..made : f # e => listens'[f] = listens[f]
  BY <1>1, <1>2, <1>4 DEF PoolTypes
<1>6. NoCall \in PoolCall
  BY PoolConstants DEF NoCall, PoolCall
<1>7. \A k \in PoolCaller : [calls[k] EXCEPT !.stale = @ \ {g}] \in PoolCall
                            /\ [calls[k] EXCEPT !.stale = @ \ {g}].at = calls[k].at
  BY <1>1 DEF PoolTypes, PoolCall
<1>8. /\ calls' \in [PoolCaller -> PoolCall] /\ calls'[c].at = "no"
      /\ \A k \in PoolCaller : k # c => calls'[k].at = calls[k].at
  BY <1>1, <1>6, <1>7 DEF NoCall
<1>9. PoolTypes'
  BY <1>1, <1>5, <1>8 DEF PoolTypes
<1>10. LockHeld' /\ InHandsOK'
  BY <1>1, <1>8 DEF LockHeld, InHandsOK
<1>11. InHands = {e}
  BY <1>1 DEF InHands, e
<1>12. ListenersArePooled'
  BY <1>1, <1>3, <1>5, <1>11 DEF PoolInv, ListenersArePooled
<1> QED
  BY <1>3, <1>9, <1>10, <1>12 DEF PoolInv

LEMMA CloseCaptureKeeps ==
  ASSUME PoolInv, NEW c \in PoolCaller, NEW ok \in BOOLEAN, CloseCapture(c, ok)
  PROVE  PoolInv'
<1> DEFINE e == calls[c].engine
           now == IF ok THEN listens[e] \ {"capture"} ELSE listens[e]
<1>1. /\ PoolTypes /\ EntriesOK /\ LockHeld /\ InHandsOK /\ calls[c].at = "close_capture"
      /\ lock = {c} /\ UNCHANGED <<made, watches>> /\ Evict(c, calls[c].todo)
      /\ excused' = IF ok THEN excused ELSE excused \cup {e}
  BY DEF PoolInv, LockHeld, CloseCapture
<1>2. e \in 1..made /\ calls[c].todo \subseteq PooledPages
      /\ ("sensor" \notin listens[e] \/ e \in excused)
  BY <1>1 DEF InHandsOK
<1>3. listens' = [listens EXCEPT ![e] = now] /\ now \in SUBSET Session
      /\ (now = {} \/ e \in excused')
  <2>1. listens[e] \in SUBSET Session
    BY <1>1, <1>2 DEF PoolTypes
  <2> QED
    BY <1>1, <1>2, <2>1 DEF CloseCapture, Session
<1> HIDE DEF now
<1>4. /\ listens' \in Seq(SUBSET Session) /\ Len(listens') = made
      /\ \A f \in 1..made : listens'[f] = IF f = e THEN now ELSE listens[f]
  BY <1>1, <1>2, <1>3 DEF PoolTypes
<1>5. InHands = {e}
  BY <1>1 DEF InHands
<1>6. \A f \in 1..made : listens'[f] # {} => f \in Pooled \cup excused'
  BY <1>1, <1>3, <1>4, <1>5 DEF PoolInv, ListenersArePooled
<1> QED
  BY <1>1, <1>2, <1>4, <1>6, EvictKeeps

LEMMA CancelKeeps ==
  ASSUME PoolInv, NEW c \in PoolCaller, CancelCall(c)
  PROVE  PoolInv'
<1>1. /\ PoolTypes /\ EntriesOK /\ LockHeld /\ InHandsOK /\ lock' = lock \ {c}
      /\ calls' = [calls EXCEPT ![c] = NoCall] /\ UNCHANGED <<pool, idle, made, watches, listens>>
      /\ excused' = excused \cup ({calls[c].engine} \ {NoEngine})
  BY DEF PoolInv, CancelCall, LeaveLock
<1>2. NoCall \in PoolCall /\ NoCall.at = "no"
  BY PoolConstants DEF NoCall, PoolCall
<1>3. /\ calls' \in [PoolCaller -> PoolCall] /\ calls'[c].at = "no"
      /\ \A d \in PoolCaller : d # c => calls'[d] = calls[d]
  BY <1>1, <1>2 DEF PoolTypes
<1>4. PoolTypes' /\ EntriesOK' /\ Pooled' = Pooled /\ PooledPages' = PooledPages
  BY <1>1, <1>3 DEF PoolTypes, EntriesOK, Pooled, PooledPages
<1>5. LockHeld'
  BY <1>1, <1>3 DEF LockHeld
<1>6. InHandsOK'
  BY <1>1, <1>3, <1>4, <1>5 DEF InHandsOK, LockHeld
<1>7. InHands \subseteq InHands' \cup excused'
  <2> SUFFICES ASSUME NEW d \in lock PROVE calls[d].engine \in InHands' \cup excused'
    BY DEF InHands
  <2>1. calls[d].engine \in 1..made /\ calls[d].engine # NoEngine /\ d \in PoolCaller
    BY <1>1, PoolConstants DEF InHandsOK, LockHeld, PoolTypes
  <2>2. CASE d = c
    BY <1>1, <2>1, <2>2
  <2>3. CASE d # c
    BY <1>1, <1>3, <2>1, <2>3 DEF InHands
  <2> QED
    BY <2>2, <2>3
<1>8. ListenersArePooled'
  BY <1>1, <1>4, <1>7 DEF PoolInv, ListenersArePooled
<1> QED
  BY <1>4, <1>5, <1>6, <1>8 DEF PoolInv

LEMMA PoolStep == PoolInv /\ [PoolNext]_poolVars => PoolInv'
<1> SUFFICES ASSUME PoolInv, [PoolNext]_poolVars PROVE PoolInv'
  OBVIOUS
<1>0. PoolTypes /\ EntriesOK /\ LockHeld /\ InHandsOK
  BY DEF PoolInv
<1>1. ASSUME NEW c \in PoolCaller, NEW g \in Page, Hit(c, g) \/ Miss(c, g) PROVE PoolInv'
  BY <1>1, HitKeeps, MissKeeps
<1>2. ASSUME NEW c \in PoolCaller, NEW pages, pages \subseteq PooledPages, LockFree,
             Evict(c, pages), UNCHANGED <<made, watches, listens, excused>>
      PROVE  PoolInv'
  <2>1. /\ listens' \in Seq(SUBSET Session) /\ Len(listens') = made /\ lock \subseteq {c}
        /\ \A e \in 1..made : listens'[e] # {} => e \in Pooled \cup excused'
    BY <1>0, <1>2, UnlockedListeners DEF PoolTypes, LockFree
  <2> QED
    BY <1>0, <1>2, <2>1, EvictKeeps
<1>3. ASSUME NEW c \in PoolCaller, NEW g \in Page, Release(c, g) PROVE PoolInv'
  BY <1>2, <1>3 DEF Release
<1>4. ASSUME NEW c \in PoolCaller, ReleaseAll(c) \/ Gc(c) PROVE PoolInv'
  BY <1>2, <1>4 DEF ReleaseAll, Gc
<1>5. ASSUME NEW c \in PoolCaller, NEW ok \in BOOLEAN, AttachSensor(c, ok) \/ CloseSensor(c, ok)
      PROVE  PoolInv'
  <2> DEFINE e == calls[c].engine
  <2>1. e \in 1..made /\ listens[e] \in SUBSET Session
    <3>1. c \in lock
      BY <1>0, <1>5 DEF AttachSensor, CloseSensor, LockHeld
    <3> QED
      BY <1>0, <3>1 DEF InHandsOK, PoolTypes
  <2>2. CASE AttachSensor(c, ok)
    <3>1. (IF ok THEN listens[e] \cup {"sensor"} ELSE listens[e]) \in SUBSET Session
      BY <2>1 DEF Session
    <3> QED
      BY <2>2, <3>1, NextAwait DEF AttachSensor
  <2>3. CASE CloseSensor(c, ok)
    <3>1. (IF ok THEN listens[e] \ {"sensor"} ELSE listens[e]) \in SUBSET Session
      BY <2>1
    <3> QED
      BY <2>3, <3>1, NextAwait DEF CloseSensor
  <2> QED
    BY <1>5, <2>2, <2>3
<1>6. ASSUME NEW c \in PoolCaller, NEW ok \in BOOLEAN, AttachCapture(c, ok) \/ CloseCapture(c, ok)
      PROVE  PoolInv'
  BY <1>6, AttachCaptureKeeps, CloseCaptureKeeps
<1>7. ASSUME NEW c \in PoolCaller, GcCalled(c) PROVE PoolInv'
  <2> DEFINE next == [NoCall EXCEPT !.at = "gc", !.stale = idle]
  <2>1. next \in PoolCall /\ next.at = "gc"
    BY <1>0, PoolConstants DEF NoCall, PoolCall, PoolTypes
  <2> HIDE DEF next
  <2>2. calls' = [calls EXCEPT ![c] = next] /\ calls[c].at = "no"
        /\ UNCHANGED <<pool, idle, lock, made, watches, listens, excused>>
    BY <1>7 DEF GcCalled, next
  <2>3. /\ calls' \in [PoolCaller -> PoolCall] /\ calls'[c].at = "gc"
        /\ \A d \in PoolCaller : d # c => calls'[d] = calls[d]
    BY <1>0, <2>1, <2>2 DEF PoolTypes
  <2>4. PoolTypes' /\ EntriesOK' /\ Pooled' = Pooled /\ PooledPages' = PooledPages
    BY <1>0, <2>2, <2>3 DEF PoolTypes, EntriesOK, Pooled, PooledPages
  <2>5. c \notin lock /\ \A d \in lock : d \in PoolCaller /\ calls'[d] = calls[d]
    BY <1>0, <2>2, <2>3 DEF LockHeld
  <2>6. LockHeld'
    BY <1>0, <2>2, <2>3 DEF LockHeld
  <2>7. InHandsOK' /\ InHands' = InHands
    BY <1>0, <2>2, <2>4, <2>5 DEF InHandsOK, InHands
  <2>8. ListenersArePooled'
    BY <2>2, <2>4, <2>7 DEF PoolInv, ListenersArePooled
  <2> QED
    BY <2>4, <2>6, <2>7, <2>8 DEF PoolInv
<1>8. ASSUME NEW c \in PoolCaller, CancelCall(c) PROVE PoolInv'
  BY <1>8, CancelKeeps
<1>9. ASSUME UNCHANGED <<pool, lock, calls, made, watches, listens, excused>>,
             idle' \subseteq Page
      PROVE  PoolInv'
  BY <1>0, <1>9 DEF PoolInv, PoolTypes, EntriesOK, LockHeld, InHandsOK, ListenersArePooled,
                    Pooled, PooledPages, InHands
<1>10. ASSUME NEW g \in Page, Ages(g) PROVE PoolInv'
  BY <1>0, <1>9, <1>10 DEF Ages, PoolTypes
<1>11. CASE UNCHANGED poolVars
  BY <1>0, <1>9, <1>11 DEF poolVars, PoolTypes
<1> QED
  BY <1>1, <1>3, <1>4, <1>5, <1>6, <1>7, <1>8, <1>10, <1>11 DEF PoolNext

LEMMA PoolAlways == PoolSpec => []PoolInv
<1>1. PoolInit => PoolInv
  <2> SUFFICES ASSUME PoolInit PROVE PoolInv
    OBVIOUS
  <2>1. NoCall \in PoolCall /\ NoCall.at = "no"
    BY PoolConstants DEF NoCall, PoolCall
  <2>2. PoolTypes
    BY <2>1 DEF PoolInit, PoolTypes
  <2>3. EntriesOK /\ LockHeld /\ InHandsOK /\ ListenersArePooled
    BY <2>1 DEF PoolInit, EntriesOK, OneEach, LockHeld, InHandsOK, ListenersArePooled
  <2> QED
    BY <2>2, <2>3 DEF PoolInv
<1> QED
  BY <1>1, PoolStep, PTL DEF PoolSpec

(* Whatever listens is in the pool, in the hands of the caller inside the  *)
(* lock, or known to be lost.                                              *)
THEOREM NoStrayListener == PoolSpec => []ListenersArePooled
<1>1. PoolInv => ListenersArePooled
  BY DEF PoolInv
<1> QED
  BY <1>1, PoolAlways, PTL

(* No page has two listeners, but for what is known to be lost.            *)
THEOREM PagesHaveOneListener == PoolSpec => []OneListenerPerPage
<1>1. PoolInv => OneListenerPerPage
  <2> SUFFICES ASSUME PoolInv, NEW e \in (1..made) \ excused, NEW f \in (1..made) \ excused,
                      listens[e] # {}, listens[f] # {}, watches[e] = watches[f]
               PROVE  e = f
    BY DEF OneListenerPerPage
  <2>1. e \in Pooled \cup InHands /\ f \in Pooled \cup InHands
    BY DEF PoolInv, ListenersArePooled
  <2>2. \A x, y \in Pooled : watches[x] = watches[y] => x = y
    BY PooledEngines DEF PoolInv
  <2>3. \A x \in InHands : watches[x] \notin {watches[y] : y \in Pooled}
    BY PooledEngines DEF PoolInv, InHands, InHandsOK
  <2>4. \A x, y \in InHands : x = y
    BY DEF PoolInv, InHands, LockHeld
  <2> QED
    BY <2>1, <2>2, <2>3, <2>4
<1> QED
  BY <1>1, PoolAlways, PTL

-----------------------------------------------------------------------------
(* CircuitBreaker, and GuardedSend on top of it: for any number of callers,*)
(* any threshold and any number of probe slots.                            *)

(* Every step keeps the breaker's fields within their domains.             *)
LEMMA TypeStep == TypeOK /\ [Next]_vars => TypeOK'
<1> SUFFICES ASSUME TypeOK, [Next]_vars PROVE TypeOK'
  OBVIOUS
<1> USE BreakerAssumption DEF TypeOK
<1>1. CASE ReadState
  BY <1>1 DEF ReadState, MayRecover
<1>2. ASSUME NEW c \in Caller, Enter(c) PROVE TypeOK'
  BY <1>2 DEF Enter, MayRecover
<1>3. ASSUME NEW c \in Caller, NEW outcome \in Outcome, Return(c, outcome)
      PROVE TypeOK'
  <2>1. halfOpenUsed' \in Int
    BY <1>3 DEF Return, GiveBack
  <2>2. running' \in [Caller -> {"nothing", "call", "probe"}]
    BY <1>3 DEF Return
  <2>3. CASE outcome = "success"
    BY <1>3, <2>1, <2>2, <2>3 DEF Return, RecordSuccess
  <2>4. CASE outcome = "failure"
    BY <1>3, <2>1, <2>2, <2>4 DEF Return, RecordFailure
  <2>5. CASE outcome = "cancelled"
    BY <1>3, <2>1, <2>2, <2>5 DEF Return
  <2> QED
    BY <2>3, <2>4, <2>5 DEF Outcome
<1>4. CASE Tick
  BY <1>4 DEF Tick
<1>5. CASE UNCHANGED vars
  BY <1>5 DEF vars
<1> QED
  BY <1>1, <1>2, <1>3, <1>4, <1>5 DEF Next

(* The breaker's fields stay within their domains.                         *)
THEOREM TypeCorrect == Spec => []TypeOK
<1>1. Init => TypeOK
  BY BreakerAssumption DEF Init, TypeOK
<1> QED
  BY <1>1, TypeStep, PTL DEF Spec

(* A CLOSED breaker always has failures left before it trips.              *)
THEOREM TrippedIsNotClosed == Spec => []ClosedHasBudget
<1>1. Init => ClosedHasBudget
  BY BreakerAssumption DEF Init, ClosedHasBudget
<1>2. TypeOK /\ ClosedHasBudget /\ [Next]_vars => ClosedHasBudget'
  <2> SUFFICES ASSUME TypeOK, ClosedHasBudget, [Next]_vars PROVE ClosedHasBudget'
    OBVIOUS
  <2> USE BreakerAssumption DEF TypeOK, ClosedHasBudget
  <2>1. CASE ReadState
    BY <2>1 DEF ReadState
  <2>2. ASSUME NEW c \in Caller, Enter(c) PROVE ClosedHasBudget'
    BY <2>2 DEF Enter
  <2>3. ASSUME NEW c \in Caller, NEW outcome \in Outcome, Return(c, outcome)
        PROVE ClosedHasBudget'
    BY <2>3 DEF Return, RecordSuccess, RecordFailure
  <2>4. CASE Tick
    BY <2>4 DEF Tick
  <2>5. CASE UNCHANGED vars
    BY <2>5 DEF vars
  <2> QED
    BY <2>1, <2>2, <2>3, <2>4, <2>5 DEF Next
<1> QED
  BY <1>1, <1>2, TypeCorrect, PTL DEF Spec

-----------------------------------------------------------------------------
(* There are finitely many probes.                                         *)
LEMMA ProbingFinite == IsFiniteSet(Probing) /\ Cardinality(Probing) \in Nat
<1>1. Probing \subseteq Caller
  BY DEF Probing
<1>2. IsFiniteSet(Probing)
  BY <1>1, BreakerAssumption, FS_Subset
<1> QED
  BY <1>2, FS_CardinalityType

(* A caller that starts a probe adds one to the probes under way.          *)
LEMMA ProbeStarts ==
  ASSUME TypeOK, NEW c \in Caller, running[c] = "nothing",
         running' = [running EXCEPT ![c] = "probe"]
  PROVE  Cardinality(Probing)' = Cardinality(Probing) + 1
<1>1. Probing' = Probing \cup {c} /\ c \notin Probing
  BY DEF TypeOK, Probing
<1> QED
  BY <1>1, ProbingFinite, FS_AddElement

(* A probe that ends takes one from the probes under way.                  *)
LEMMA ProbeEnds ==
  ASSUME TypeOK, NEW c \in Caller, running[c] = "probe",
         running' = [running EXCEPT ![c] = "nothing"]
  PROVE  Cardinality(Probing)' = Cardinality(Probing) - 1
<1>1. Probing' = Probing \ {c} /\ c \in Probing
  BY DEF TypeOK, Probing
<1> QED
  BY <1>1, ProbingFinite, FS_RemoveElement

(* No slot leaks: a slot that is taken belongs to a probe under way.       *)
THEOREM NoSlotLeaks == Spec => []SlotsAreHeldByProbes
<1>1. Init => SlotsAreHeldByProbes
  BY ProbingFinite DEF Init, SlotsAreHeldByProbes
<1>2. TypeOK /\ SlotsAreHeldByProbes /\ [Next]_vars => SlotsAreHeldByProbes'
  <2> SUFFICES ASSUME TypeOK, SlotsAreHeldByProbes, [Next]_vars
               PROVE  SlotsAreHeldByProbes'
    OBVIOUS
  <2>a. halfOpenUsed \in Int /\ Cardinality(Probing) \in Nat
        /\ halfOpenUsed <= Cardinality(Probing)
    BY ProbingFinite DEF TypeOK, SlotsAreHeldByProbes
  <2>1. CASE ReadState
    <3>1. Probing' = Probing
      BY <2>1 DEF ReadState, Probing
    <3> QED
      BY <2>1, <2>a, <3>1 DEF ReadState, SlotsAreHeldByProbes
  <2>2. ASSUME NEW c \in Caller, Enter(c) PROVE SlotsAreHeldByProbes'
    <3>1. CASE running' = [running EXCEPT ![c] = "call"] /\ UNCHANGED halfOpenUsed
      <4>1. Probing' = Probing
        BY <2>2, <3>1 DEF Enter, TypeOK, Probing
      <4> QED
        BY <2>a, <3>1, <4>1 DEF SlotsAreHeldByProbes
    <3>2. CASE /\ running' = [running EXCEPT ![c] = "probe"]
               /\ halfOpenUsed' \in {1, halfOpenUsed + 1}
      <4>1. Cardinality(Probing)' = Cardinality(Probing) + 1
        BY <2>2, <3>2, ProbeStarts DEF Enter
      <4> QED
        BY <2>a, <3>2, <4>1 DEF SlotsAreHeldByProbes
    <3> QED
      BY <2>2, <3>1, <3>2 DEF Enter
  <2>3. ASSUME NEW c \in Caller, NEW outcome \in Outcome, Return(c, outcome)
        PROVE SlotsAreHeldByProbes'
    <3>1. CASE running[c] = "probe"
      <4>1. Cardinality(Probing)' = Cardinality(Probing) - 1
        BY <2>3, <3>1, ProbeEnds DEF Return
      <4> QED
        BY <2>3, <2>a, <3>1, <4>1 DEF Return, GiveBack, SlotsAreHeldByProbes
    <3>2. CASE running[c] # "probe"
      <4>1. Probing' = Probing
        BY <2>3, <3>2 DEF Return, TypeOK, Probing
      <4> QED
        BY <2>3, <2>a, <3>2, <4>1 DEF Return, GiveBack, SlotsAreHeldByProbes
    <3> QED
      BY <3>1, <3>2
  <2>4. CASE Tick
    <3>1. Probing' = Probing
      BY <2>4 DEF Tick, Probing
    <3> QED
      BY <2>4, <2>a, <3>1 DEF Tick, SlotsAreHeldByProbes
  <2>5. CASE UNCHANGED vars
    <3>1. Probing' = Probing
      BY <2>5 DEF vars, Probing
    <3> QED
      BY <2>5, <2>a, <3>1 DEF vars, SlotsAreHeldByProbes
  <2> QED
    BY <2>1, <2>2, <2>3, <2>4, <2>5 DEF Next
<1> QED
  BY <1>1, <1>2, TypeCorrect, PTL DEF Spec

-----------------------------------------------------------------------------
(* No late success closes an OPEN circuit before its timeout is over.      *)
THEOREM OpenHolds == Spec => OpenSitsOutTheTimeout
<1>1. TypeOK /\ [Next]_vars => [state = "OPEN" /\ timeLeft > 0 => state' = "OPEN"]_vars
  <2> SUFFICES ASSUME TypeOK, Next, state = "OPEN", timeLeft > 0
               PROVE  state' = "OPEN"
    BY DEF vars
  <2>1. CASE ReadState
    BY <2>1 DEF ReadState, MayRecover
  <2>2. ASSUME NEW c \in Caller, Enter(c) PROVE state' = "OPEN"
    BY <2>2 DEF Enter, MayRecover
  <2>3. ASSUME NEW c \in Caller, NEW outcome \in Outcome, Return(c, outcome)
        PROVE state' = "OPEN"
    BY <2>3 DEF Return, RecordSuccess, RecordFailure
  <2>4. CASE Tick
    BY <2>4 DEF Tick
  <2> QED
    BY <2>1, <2>2, <2>3, <2>4 DEF Next
<1> QED
  BY <1>1, TypeCorrect, PTL DEF Spec, OpenSitsOutTheTimeout

-----------------------------------------------------------------------------
(* GuardedSend: the breaker underneath, and what its failures stand for.   *)

(* A guarded send does with the breaker what any caller of it does.        *)
LEMMA GuardStepsTheBreaker == [GuardNext]_guardVars => [Next]_vars
<1> SUFFICES ASSUME [GuardNext]_guardVars PROVE [Next]_vars
  OBVIOUS
<1>1. ASSUME NEW c \in Caller, Begin(c) PROVE Next
  BY <1>1 DEF Begin, Next
<1>2. ASSUME NEW c \in Caller, Rejected(c) PROVE UNCHANGED vars
  BY <1>2 DEF Rejected
<1>3. ASSUME NEW c \in Caller, NEW outcome \in Outcome, Return(c, outcome) PROVE Next
  BY <1>3 DEF Next
<1>4. ASSUME NEW c \in Caller, NEW response \in Response, SendReturns(c, response) PROVE Next
  BY <1>3, <1>4 DEF SendReturns, Outcome
<1>5. ASSUME NEW c \in Caller, SendRaises(c) \/ SendCancelled(c) PROVE Next
  BY <1>3, <1>5 DEF SendRaises, SendCancelled, Outcome
<1>6. CASE SafeHealthCheck \/ PassTime
  BY <1>6 DEF SafeHealthCheck, PassTime, Next
<1>7. CASE UNCHANGED guardVars
  BY <1>7 DEF guardVars
<1> QED
  BY <1>1, <1>2, <1>4, <1>5, <1>6, <1>7 DEF GuardNext

(* The sends of an adapter implement the breaker, whose promises therefore *)
(* hold of them.                                                           *)
THEOREM GuardImplementsBreaker == GuardSpec => Spec
<1>1. GuardInit => Init
  BY DEF GuardInit
<1> QED
  BY <1>1, GuardStepsTheBreaker, PTL DEF GuardSpec, Spec

(* The failures the breaker counts are the last sends that ended, and all  *)
(* of these raised.                                                        *)
RaisesCounted ==
    /\ ended \in Seq({"returned", "raised"}) /\ Len(ended) <= Threshold
    /\ failureCount <= Len(ended)
    /\ \A i \in 1..Len(ended) : i > Len(ended) - failureCount => ended[i] = "raised"

(* What one more end does to the last Threshold ends.                      *)
LEMMA OneMore ==
  ASSUME TypeOK, RaisesCounted, NEW e \in {"returned", "raised"}, ended' = LastOf(Append(ended, e))
  PROVE  /\ ended' \in Seq({"returned", "raised"}) /\ Len(ended') \in 1..Threshold
         /\ Len(ended') = IF Len(ended) < Threshold THEN Len(ended) + 1 ELSE Threshold
         /\ ended'[Len(ended')] = e
         /\ \A i \in 1..(Len(ended') - 1) : ended'[i] = ended[i + Len(ended) + 1 - Len(ended')]
<1> DEFINE all == Append(ended, e)
           n == Len(ended)
<1>1. n \in Nat /\ n <= Threshold /\ Threshold \in Nat \ {0}
  BY BreakerAssumption DEF RaisesCounted
<1>2. /\ all \in Seq({"returned", "raised"}) /\ Len(all) = n + 1 /\ all[n + 1] = e
      /\ \A i \in 1..n : all[i] = ended[i]
  BY DEF RaisesCounted
<1> HIDE DEF all
<1>3. CASE n < Threshold
  <2>1. ended' = all
    BY <1>1, <1>2, <1>3 DEF LastOf, all
  <2>2. Len(ended') = n + 1 /\ Len(ended') \in 1..Threshold
    BY <1>1, <1>2, <1>3, <2>1
  <2>3. \A i \in 1..n : ended'[i] = ended[i + n + 1 - Len(ended')]
    BY <1>1, <1>2, <2>1, <2>2
  <2> QED
    BY <1>1, <1>2, <1>3, <2>1, <2>2, <2>3
<1>4. CASE n = Threshold
  <2>1. ended' = Tail(all)
    BY <1>1, <1>2, <1>4 DEF LastOf, all
  <2>2. /\ Tail(all) \in Seq({"returned", "raised"}) /\ Len(Tail(all)) = n
        /\ \A i \in 1..n : Tail(all)[i] = all[i + 1]
    BY <1>1, <1>2
  <2> QED
    BY <1>1, <1>2, <1>4, <2>1, <2>2
<1> QED
  BY <1>1, <1>3, <1>4

(* A send that returns empties the count, one that raises adds to it.      *)
LEMMA ReturnsCount ==
  ASSUME TypeOK, RaisesCounted, NEW c \in Caller, NEW response \in Response,
         SendReturns(c, response)
  PROVE  RaisesCounted' /\ ~(state # "OPEN" /\ state' = "OPEN")
<1>1. failureCount' = 0 /\ ~(state # "OPEN" /\ state' = "OPEN")
  BY DEF SendReturns, Return, RecordSuccess
<1> QED
  BY <1>1, OneMore, BreakerAssumption DEF SendReturns, RaisesCounted

LEMMA RaisesCount ==
  ASSUME TypeOK, RaisesCounted, NEW c \in Caller, SendRaises(c)
  PROVE  /\ RaisesCounted'
         /\ state # "OPEN" /\ state' = "OPEN"
              => Len(ended') = Threshold /\ \A i \in DOMAIN ended' : ended'[i] = "raised"
<1> DEFINE n == Len(ended)
           m == Len(ended')
<1>1. /\ ended' = LastOf(Append(ended, "raised"))
      /\ failureCount' = IF failureCount < Threshold THEN failureCount + 1 ELSE Threshold
      /\ state' = IF failureCount + 1 >= Threshold THEN "OPEN" ELSE state
  BY DEF SendRaises, Return, RecordFailure
<1>2. /\ failureCount \in Nat /\ failureCount <= n /\ n \in Nat /\ n <= Threshold
      /\ Threshold \in Nat \ {0}
  BY BreakerAssumption DEF TypeOK, RaisesCounted
<1>3. /\ ended' \in Seq({"returned", "raised"}) /\ m \in 1..Threshold
      /\ m = IF n < Threshold THEN n + 1 ELSE Threshold
      /\ ended'[m] = "raised"
      /\ \A i \in 1..(m - 1) : ended'[i] = ended[i + n + 1 - m]
  BY <1>1, OneMore
<1>4. ASSUME NEW i \in 1..m, i > m - failureCount' PROVE ended'[i] = "raised"
  <2>1. CASE i = m
    BY <1>3, <2>1
  <2>2. CASE i # m
    <3> DEFINE j == i + n + 1 - m
    <3>1. i \in 1..(m - 1) /\ m \in Nat
      BY <1>2, <1>3, <2>2
    <3>2. j \in 1..n
      BY <1>2, <1>3, <3>1
    <3>3. j > n - failureCount
      BY <1>1, <1>2, <1>3, <1>4, <3>1
    <3>4. ended[j] = "raised"
      BY <3>2, <3>3 DEF RaisesCounted
    <3> QED
      BY <1>3, <3>1, <3>4
  <2> QED
    BY <2>1, <2>2
<1>5. failureCount' <= m
  BY <1>1, <1>2, <1>3
<1>6. RaisesCounted'
  BY <1>2, <1>3, <1>4, <1>5 DEF RaisesCounted
<1>7. ASSUME state # "OPEN", state' = "OPEN"
      PROVE  Len(ended') = Threshold /\ \A i \in DOMAIN ended' : ended'[i] = "raised"
  <2>1. failureCount + 1 >= Threshold
    BY <1>1, <1>7
  <2>2. m = Threshold /\ failureCount' = Threshold
    BY <1>1, <1>2, <1>3, <2>1
  <2>3. \A i \in 1..m : i > m - failureCount'
    BY <1>2, <2>2
  <2>4. DOMAIN ended' = 1..m
    BY <1>3
  <2> QED
    BY <1>4, <2>2, <2>3, <2>4
<1> QED
  BY <1>6, <1>7

(* The circuit opens only when that many sends in a row raised.            *)
THEOREM OnlyRaisesOpen == GuardSpec => OpensOnRaises
<1> DEFINE Opens == state # "OPEN" /\ state' = "OPEN"
                      => Len(ended') = Threshold /\ \A i \in DOMAIN ended' : ended'[i] = "raised"
<1>1. GuardInit => TypeOK /\ RaisesCounted
  BY BreakerAssumption DEF GuardInit, Init, TypeOK, RaisesCounted
<1>2. TypeOK /\ RaisesCounted /\ [GuardNext]_guardVars => RaisesCounted' /\ [Opens]_guardVars
  <2> SUFFICES ASSUME TypeOK, RaisesCounted, [GuardNext]_guardVars
               PROVE  RaisesCounted' /\ Opens
    OBVIOUS
  <2>1. ASSUME UNCHANGED <<failureCount, ended>>, ~(state # "OPEN" /\ state' = "OPEN")
        PROVE  RaisesCounted' /\ Opens
    BY <2>1 DEF RaisesCounted
  <2>2. ASSUME NEW c \in Caller, Begin(c) \/ Rejected(c) PROVE RaisesCounted' /\ Opens
    BY <2>1, <2>2 DEF Begin, Enter, Rejected, vars
  <2>3. ASSUME NEW c \in Caller, NEW response \in Response, SendReturns(c, response)
        PROVE  RaisesCounted' /\ Opens
    BY <2>3, ReturnsCount
  <2>4. ASSUME NEW c \in Caller, SendRaises(c) PROVE RaisesCounted' /\ Opens
    BY <2>4, RaisesCount
  <2>5. ASSUME NEW c \in Caller, SendCancelled(c) PROVE RaisesCounted' /\ Opens
    BY <2>1, <2>5 DEF SendCancelled, Return
  <2>6. CASE SafeHealthCheck
    BY <2>1, <2>6 DEF SafeHealthCheck, ReadState
  <2>7. CASE PassTime
    BY <2>1, <2>7 DEF PassTime, Tick
  <2>8. CASE UNCHANGED guardVars
    BY <2>1, <2>8 DEF guardVars, vars
  <2> QED
    BY <2>2, <2>3, <2>4, <2>5, <2>6, <2>7, <2>8 DEF GuardNext
<1>3. TypeOK /\ [GuardNext]_guardVars => TypeOK'
  BY GuardStepsTheBreaker, TypeStep
<1> QED
  BY <1>1, <1>2, <1>3, PTL DEF GuardSpec, OpensOnRaises
=============================================================================
