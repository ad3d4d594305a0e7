--------------------------- MODULE ServicesProofs ---------------------------
(***************************************************************************)
(* What the services beside the orchestration keep, for every set of tasks *)
(* and callers and for every limit.                                        *)
(***************************************************************************)
EXTENDS Journal, Throttle, RecoveryCascade, Gateway, RedisClient, FileWorkspace, SequenceTheorems,
        FiniteSetTheorems, WellFoundedInduction, TLAPS

-----------------------------------------------------------------------------
(* A set of positions of a sequence that is not empty has a last one.      *)
LEMMA LastExists ==
  ASSUME NEW n \in Nat, NEW I \in SUBSET (1..n), I # {}
  PROVE  LastOf(I) \in I /\ \A j \in I : j <= LastOf(I)
  <1> DEFINE Below == {n - i : i \in I}
             R == OpToRel(<, Nat)
  <1>1. Below \subseteq Nat /\ Below # {}
    <2> HIDE DEF R
    <2>1. \A i \in I : i \in Int /\ 1 <= i /\ i <= n
      OBVIOUS
    <2>2. \A i \in I : n - i \in Nat
      BY <2>1
    <2>3. PICK i \in I : TRUE
      OBVIOUS
    <2>4. n - i \in Below
      BY Zenon
    <2>5. \A x \in Below : x \in Nat
      BY <2>2, Zenon
    <2> HIDE DEF Below
    <2> QED
      BY <2>4, <2>5, Zenon
  <1>2. PICK x \in Below : \A y \in Below : ~(<<y, x>> \in R)
    <2> HIDE DEF Below
    <2> QED
      BY <1>1, NatLessThanWellFounded, WFMin, Zenon
  <1>3. \A y \in Below : ~(y < x)
    <2>1. \A y, z \in Nat : y < z => <<y, z>> \in R
      BY Zenon DEF OpToRel
    <2> HIDE DEF R, Below
    <2> QED
      BY <1>1, <1>2, <2>1
  <1>4. PICK i \in I : x = n - i
    OBVIOUS
  <1>5. \A j \in I : j <= i
    <2> TAKE j \in I
    <2>1. ~(n - j < n - i)
      BY <1>3, <1>4
    <2> QED
      BY <2>1
  <1>6. QED
    BY <1>5, Zenon DEF LastOf
-----------------------------------------------------------------------------
LEMMA TypeInit == JournalInit => JournalTypeOK
  BY DEF JournalInit, JournalTypeOK, NoEntry

(* What a push leaves in the streams.                                      *)
LEMMA PushAdds ==
  ASSUME JournalTypeOK, NEW s \in JTask \cup {All}, NEW e \in Entry, Push(s, e)
  PROVE  /\ streams' \in [JTask \cup {All} -> Seq(Entry)]
         /\ \A z \in JTask \cup {All} : z # s => streams'[z] = streams[z]
         /\ Len(streams'[s]) = Len(streams[s]) + 1
         /\ \A i \in 1..Len(streams[s]) : streams'[s][i] = streams[s][i]
         /\ streams'[s][Len(streams[s]) + 1] = e
  <1>1. streams[s] \in Seq(Entry) /\ streams \in [JTask \cup {All} -> Seq(Entry)]
    BY DEF JournalTypeOK
  <1>2. streams' = [streams EXCEPT ![s] = Append(streams[s], e)]
    BY DEF Push
  <1>3. /\ Append(streams[s], e) \in Seq(Entry)
        /\ Len(Append(streams[s], e)) = Len(streams[s]) + 1
        /\ \A i \in 1..Len(streams[s]) : Append(streams[s], e)[i] = streams[s][i]
        /\ Append(streams[s], e)[Len(streams[s]) + 1] = e
    BY <1>1, AppendProperties
  <1>4. QED
    BY <1>1, <1>2, <1>3

(* The same, as the set of the entries.                                    *)
LEMMA PushAddsEntry ==
  ASSUME JournalTypeOK, NEW s \in JTask \cup {All}, NEW e \in Entry, Push(s, e)
  PROVE  /\ Entries(streams'[s]) = Entries(streams[s]) \cup {e}
         /\ \A z \in JTask \cup {All} : z # s => Entries(streams'[z]) = Entries(streams[z])
  <1>1. streams[s] \in Seq(Entry) /\ streams'[s] \in Seq(Entry)
    BY PushAdds DEF JournalTypeOK
  <1>2. /\ DOMAIN streams[s] = 1..Len(streams[s])
        /\ DOMAIN streams'[s] = 1..Len(streams'[s])
        /\ Len(streams[s]) \in Nat
    BY <1>1
  <1>3. Entries(streams'[s]) = Entries(streams[s]) \cup {e}
    <2>1. Len(streams'[s]) = Len(streams[s]) + 1
      BY PushAdds
    <2>2. \A i \in DOMAIN streams[s] :
             i \in DOMAIN streams'[s] /\ streams'[s][i] = streams[s][i]
      BY <1>2, <2>1, PushAdds
    <2>3. \A i \in DOMAIN streams'[s] :
             i \in DOMAIN streams[s] \/ streams'[s][i] = e
      BY <1>2, <2>1, PushAdds
    <2>4. Len(streams[s]) + 1 \in DOMAIN streams'[s] /\ streams'[s][Len(streams[s]) + 1] = e
      BY <1>2, <2>1, PushAdds
    <2>5. QED
      BY <2>2, <2>3, <2>4, Zenon DEF Entries
  <1>4. QED
    BY <1>3, PushAdds

(* The entries that a reader is sent, and the checkpoints among them.      *)
FetchedOf(S) ==
  SubSeq(S, 1, IF MaxBulkFetch < Len(S) THEN MaxBulkFetch ELSE Len(S))

LEMMA FetchedOfType ==
  ASSUME NEW S \in Seq(Entry)
  PROVE  /\ FetchedOf(S) \in Seq(Entry)
         /\ Len(FetchedOf(S)) \in Nat
         /\ Len(FetchedOf(S)) <= Len(S) /\ Len(FetchedOf(S)) <= MaxBulkFetch
         /\ Len(S) <= MaxBulkFetch => Len(FetchedOf(S)) = Len(S)
         /\ MaxBulkFetch <= Len(S) => Len(FetchedOf(S)) = MaxBulkFetch
         /\ \A i \in DOMAIN FetchedOf(S) : FetchedOf(S)[i] = S[i]
         /\ DOMAIN FetchedOf(S) = 1..Len(FetchedOf(S))
  <1> DEFINE n == IF MaxBulkFetch < Len(S) THEN MaxBulkFetch ELSE Len(S)
  <1>1. n \in Nat /\ n <= Len(S) /\ n <= MaxBulkFetch
    BY JournalAssumption
  <1>2. \A i \in 1..n : S[i] \in Entry
    BY <1>1
  <1> HIDE DEF n
  <1>3. /\ SubSeq(S, 1, n) \in Seq(Entry)
        /\ Len(SubSeq(S, 1, n)) = IF 1 <= n THEN n - 1 + 1 ELSE 0
        /\ \A i \in 1..n - 1 + 1 : SubSeq(S, 1, n)[i] = S[1 + i - 1]
    BY <1>1, <1>2, SubSeqProperties
  <1>4. /\ Len(SubSeq(S, 1, n)) = n
        /\ \A i \in 1..n : SubSeq(S, 1, n)[i] = S[i]
    BY <1>1, <1>3
  <1>5. FetchedOf(S) = SubSeq(S, 1, n)
    BY DEF FetchedOf, n
  <1>6. DOMAIN FetchedOf(S) = 1..n /\ Len(FetchedOf(S)) = n /\ FetchedOf(S) \in Seq(Entry)
    BY <1>3, <1>4, <1>5
  <1>7. QED
    BY <1>1, <1>4, <1>5, <1>6, JournalAssumption DEF n

LEMMA FetchedType ==
  ASSUME JournalTypeOK, NEW t \in JTask
  PROVE  /\ Fetched(t) = FetchedOf(streams[t])
         /\ Fetched(t) \in Seq(Entry)
         /\ Len(Fetched(t)) \in Nat /\ Len(Fetched(t)) <= Len(streams[t])
         /\ \A i \in DOMAIN Fetched(t) : Fetched(t)[i] = streams[t][i]
         /\ DOMAIN Fetched(t) = 1..Len(Fetched(t))
  <1>1. streams[t] \in Seq(Entry)
    BY DEF JournalTypeOK
  <1>2. Fetched(t) = FetchedOf(streams[t])
    BY DEF Fetched, FetchedOf
  <1>3. QED
    BY <1>1, <1>2, FetchedOfType

LEMMA LastCheckpoint ==
  ASSUME JournalTypeOK, NEW t \in JTask, Checkpoints(Fetched(t)) # {}
  PROVE  /\ LastOf(Checkpoints(Fetched(t))) \in Checkpoints(Fetched(t))
         /\ \A j \in Checkpoints(Fetched(t)) : j <= LastOf(Checkpoints(Fetched(t)))
         /\ Fetched(t)[LastOf(Checkpoints(Fetched(t)))] \in Entry
  <1>1. Checkpoints(Fetched(t)) \in SUBSET (1..Len(Fetched(t))) /\ Len(Fetched(t)) \in Nat
    BY FetchedType DEF Checkpoints
  <1>2. /\ LastOf(Checkpoints(Fetched(t))) \in Checkpoints(Fetched(t))
        /\ \A j \in Checkpoints(Fetched(t)) : j <= LastOf(Checkpoints(Fetched(t)))
    BY <1>1, LastExists
  <1>3. Fetched(t)[LastOf(Checkpoints(Fetched(t)))] \in Entry
    BY <1>1, <1>2, FetchedType
  <1>4. QED
    BY <1>2, <1>3

LEMMA TypeStep == JournalTypeOK /\ [JournalNext]_journalVars => JournalTypeOK'
  <1> SUFFICES ASSUME JournalTypeOK, [JournalNext]_journalVars PROVE JournalTypeOK'
    OBVIOUS
  <1> USE DEF JournalTypeOK
  <1>1. ASSUME NEW w \in Writer, LogTaskStep(w) PROVE JournalTypeOK'
    <2>1. PICK t \in JTask, c \in BOOLEAN :
             LET e == [task |-> t, id |-> Len(streams[t]) + 1, checkpoint |-> c] IN
             Push(t, e) /\ logging' = [logging EXCEPT ![w] = e]
      BY <1>1 DEF LogTaskStep
    <2>2. [task |-> t, id |-> Len(streams[t]) + 1, checkpoint |-> c] \in Entry
      BY DEF Entry
    <2>3. QED
      BY <1>1, <2>1, <2>2, PushAdds DEF LogTaskStep
  <1>2. ASSUME NEW w \in Writer, LogGlobalStep(w) PROVE JournalTypeOK'
    <2>1. logging[w] \in Entry
      BY <1>2 DEF LogGlobalStep
    <2>2. QED
      BY <1>2, <2>1, PushAdds DEF LogGlobalStep
  <1>3. ASSUME NEW w \in Writer, LogCut(w) PROVE JournalTypeOK'
    BY <1>3 DEF LogCut
  <1>4. ASSUME NEW r \in Reader, AskCheckpoint(r) PROVE JournalTypeOK'
    BY <1>4 DEF AskCheckpoint
  <1>5. ASSUME NEW r \in Reader, GetLastCheckpoint(r) PROVE JournalTypeOK'
    <2>1. reading[r] \in JTask
      BY <1>5 DEF GetLastCheckpoint
    <2>2. answer' \in [Reader -> [JTask -> Nat]]
      <3>1. CASE Checkpoints(Fetched(reading[r])) = {}
        BY <1>5, <2>1, <3>1 DEF GetLastCheckpoint
      <3>2. CASE Checkpoints(Fetched(reading[r])) # {}
        <4>1. Fetched(reading[r])[LastOf(Checkpoints(Fetched(reading[r])))].id \in Nat
          BY <2>1, <3>2, LastCheckpoint DEF Entry
        <4>2. QED
          BY <1>5, <2>1, <3>2, <4>1 DEF GetLastCheckpoint
      <3>3. QED
        BY <3>1, <3>2
    <2>3. QED
      BY <1>5, <2>2 DEF GetLastCheckpoint
  <1>6. CASE UNCHANGED journalVars
    BY <1>6 DEF journalVars
  <1>7. QED
    BY <1>1, <1>2, <1>3, <1>4, <1>5, <1>6 DEF JournalNext

(* The journal's state has its type in every reachable state.              *)
THEOREM JournalTypeCorrect == JournalSpec => []JournalTypeOK
  BY TypeInit, TypeStep, PTL DEF JournalSpec
-----------------------------------------------------------------------------
(***************************************************************************)
(* EveryStepIsGlobal needs three facts more: the entries of a task's       *)
(* stream are numbered from 1, no two writers carry the same entry between *)
(* their pushes, and none carries one that was cut.                        *)
(***************************************************************************)
Numbered ==
  \A t \in JTask : \A i \in 1..Len(streams[t]) :
    streams[t][i].task = t /\ streams[t][i].id = i

OwnEntries ==
  \A w \in Writer : logging[w] # NoEntry =>
    /\ logging[w] \notin cut
    /\ \A v \in Writer \ {w} : logging[v] # logging[w]

LogInv == JournalTypeOK /\ Numbered /\ OwnEntries /\ EveryStepIsGlobal

LEMMA EntriesType ==
  ASSUME JournalTypeOK, NEW s \in JTask \cup {All}
  PROVE  \A x \in Entries(streams[s]) : x \in Entry /\ x.task \in JTask
  <1>1. streams[s] \in Seq(Entry)
    BY DEF JournalTypeOK
  <1>2. \A i \in DOMAIN streams[s] : streams[s][i] \in Entry
    BY <1>1
  <1>3. \A x \in Entry : x.task \in JTask
    BY DEF Entry
  <1>4. QED
    BY <1>2, <1>3 DEF Entries

(* The entry a task step adds is in neither stream and with no writer.     *)
LEMMA NewEntryIsNew ==
  ASSUME LogInv, NEW t \in JTask, NEW e \in Entry,
         e.task = t, e.id = Len(streams[t]) + 1
  PROVE  e \notin Entries(streams[t]) \cup Entries(streams[All]) \cup Pending \cup cut
  <1>1. streams[t] \in Seq(Entry) /\ Len(streams[t]) \in Nat /\ DOMAIN streams[t] = 1..Len(streams[t])
    BY DEF LogInv, JournalTypeOK
  <1>2. ASSUME NEW i \in DOMAIN streams[t] PROVE streams[t][i] # e
    BY <1>1, <1>2 DEF LogInv, Numbered
  <1>3. e \notin Entries(streams[t])
    BY <1>2, Zenon DEF Entries
  <1>4. e \notin Entries(streams[All])
    BY <1>3 DEF LogInv, EveryStepIsGlobal
  <1>5. e \notin {x \in Pending \cup cut : x.task = t}
    BY <1>3 DEF LogInv, EveryStepIsGlobal
  <1>6. QED
    BY <1>3, <1>4, <1>5

LEMMA LogInit == JournalInit => LogInv
  <1> SUFFICES ASSUME JournalInit PROVE LogInv
    OBVIOUS
  <1>1. JournalTypeOK
    BY TypeInit
  <1>2. \A s \in JTask \cup {All} : streams[s] = <<>>
    BY DEF JournalInit
  <1>3. Numbered
    BY <1>2 DEF Numbered
  <1>4. \A s \in JTask \cup {All} : Entries(streams[s]) = {}
    BY <1>2 DEF Entries
  <1>5. Pending = {} /\ cut = {} /\ OwnEntries
    BY DEF JournalInit, Pending, OwnEntries
  <1>6. EveryStepIsGlobal
    BY <1>4, <1>5 DEF EveryStepIsGlobal
  <1>7. QED
    BY <1>1, <1>3, <1>5, <1>6 DEF LogInv

LEMMA TaskStepKeepsLog ==
  ASSUME LogInv, NEW w \in Writer, LogTaskStep(w), JournalTypeOK'
  PROVE  LogInv'
  <1>1. PICK t \in JTask, c \in BOOLEAN :
          LET e == [task |-> t, id |-> Len(streams[t]) + 1, checkpoint |-> c] IN
          Push(t, e) /\ logging' = [logging EXCEPT ![w] = e]
    BY DEF LogTaskStep
  <1> DEFINE e == [task |-> t, id |-> Len(streams[t]) + 1, checkpoint |-> c]
  <1>2. /\ e \in Entry /\ e # NoEntry /\ e.task = t /\ e.id = Len(streams[t]) + 1
        /\ Push(t, e) /\ logging' = [logging EXCEPT ![w] = e] /\ cut' = cut
    BY <1>1 DEF LogInv, JournalTypeOK, Entry, NoEntry, LogTaskStep
  <1> HIDE DEF e
  <1>3. JournalTypeOK /\ Numbered /\ OwnEntries /\ EveryStepIsGlobal /\ t # All /\ All \notin JTask
    BY JournalAssumption DEF LogInv
  <1>4. e \notin Entries(streams[t]) \cup Entries(streams[All]) \cup Pending \cup cut
    BY <1>2, NewEntryIsNew
  <1>5. logging[w] = NoEntry /\ logging \in [Writer -> Entry \cup {NoEntry}]
    BY <1>3 DEF LogTaskStep, JournalTypeOK
  <1>6. Pending' = Pending \cup {e}
    BY <1>2, <1>5 DEF Pending
  <1>7. Numbered'
    <2> SUFFICES ASSUME NEW z \in JTask, NEW i \in 1..Len(streams[z])'
                 PROVE  streams[z]'[i].task = z /\ streams[z]'[i].id = i
      BY DEF Numbered
    <2>1. CASE z # t
      BY <1>2, <1>3, <2>1, PushAdds DEF Numbered
    <2>2. CASE z = t
      <3>1. Len(streams[t]) \in Nat /\ Len(streams[t])' = Len(streams[t]) + 1
        BY <1>2, <1>3, PushAdds DEF JournalTypeOK
      <3>2. CASE i \in 1..Len(streams[t])
        <4>1. streams[t]'[i] = streams[t][i]
          BY <1>2, <1>3, <3>2, PushAdds
        <4>2. QED
          BY <1>3, <2>2, <3>2, <4>1 DEF Numbered
      <3>3. CASE i = Len(streams[t]) + 1
        BY <1>2, <1>3, <2>2, <3>3, PushAdds
      <3>4. QED
        BY <2>2, <3>1, <3>2, <3>3
    <2>3. QED
      BY <2>1, <2>2
  <1>8. OwnEntries'
    <2> SUFFICES ASSUME NEW v \in Writer, logging'[v] # NoEntry
                 PROVE  /\ logging'[v] \notin cut'
                        /\ \A x \in Writer \ {v} : logging'[x] # logging'[v]
      BY DEF OwnEntries
    <2>1. e \notin cut /\ \A x \in Writer : logging[x] # e
      BY <1>2, <1>4 DEF Pending
    <2>2. \A x \in Writer : logging'[x] = IF x = w THEN e ELSE logging[x]
      BY <1>2, <1>5
    <2>3. QED
      BY <1>2, <1>3, <1>5, <2>1, <2>2 DEF OwnEntries
  <1>9. EveryStepIsGlobal'
    <2>1. /\ Entries(streams[t])' = Entries(streams[t]) \cup {e}
          /\ Entries(streams[All])' = Entries(streams[All])
          /\ \A z \in JTask : z # t => Entries(streams[z])' = Entries(streams[z])
      BY <1>2, <1>3, PushAddsEntry
    <2>2. \A x \in Entries(streams[All]) : x \in Entry /\ x.task \in JTask
      BY <1>3, EntriesType
    <2>3. \A x \in Entries(streams[All])' : x \in Entries(streams[x.task])'
      BY <1>3, <2>1, <2>2 DEF EveryStepIsGlobal
    <2>4. ASSUME NEW z \in JTask
          PROVE  (Entries(streams[z]) \ Entries(streams[All]))' = {x \in Pending' \cup cut' : x.task = z}
      <3>1. Entries(streams[z]) \ Entries(streams[All]) = {x \in Pending \cup cut : x.task = z}
        BY <1>3 DEF EveryStepIsGlobal
      <3>2. CASE z # t
        BY <1>2, <1>6, <2>1, <3>1, <3>2
      <3>3. CASE z = t
        BY <1>2, <1>4, <1>6, <2>1, <3>1, <3>3
      <3>4. QED
        BY <3>2, <3>3
    <2>5. QED
      BY <2>3, <2>4, <1>6 DEF EveryStepIsGlobal
  <1>10. QED
    BY <1>7, <1>8, <1>9 DEF LogInv

LEMMA GlobalStepKeepsLog ==
  ASSUME LogInv, NEW w \in Writer, LogGlobalStep(w), JournalTypeOK'
  PROVE  LogInv'
  <1> DEFINE e == logging[w]
  <1>1. JournalTypeOK /\ Numbered /\ OwnEntries /\ EveryStepIsGlobal /\ All \notin JTask
    BY JournalAssumption DEF LogInv
  <1>2. logging[w] \in Entry /\ logging[w].task \in JTask /\ logging[w] # NoEntry
    BY <1>1 DEF LogGlobalStep, JournalTypeOK, Entry
  <1>3. /\ e \in Entry /\ e.task \in JTask /\ e # NoEntry /\ e = logging[w]
        /\ Push(All, e) /\ cut' = cut
        /\ \A v \in Writer : logging'[v] = IF v = w THEN NoEntry ELSE logging[v]
    BY <1>1, <1>2 DEF LogGlobalStep, JournalTypeOK
  <1> HIDE DEF e
  <1>4. e \notin cut /\ \A v \in Writer \ {w} : logging[v] # e
    BY <1>1, <1>3 DEF OwnEntries
  <1>5. Pending' = Pending \ {e} /\ e \in Pending
    BY <1>3, <1>4 DEF Pending
  <1>6. \A z \in JTask : streams'[z] = streams[z]
    BY <1>1, <1>3, PushAdds
  <1>7. /\ Entries(streams[All])' = Entries(streams[All]) \cup {e}
        /\ \A z \in JTask : Entries(streams[z])' = Entries(streams[z])
    BY <1>1, <1>3, PushAddsEntry
  <1>8. Numbered'
    BY <1>1, <1>6 DEF Numbered
  <1>9. OwnEntries'
    BY <1>1, <1>3 DEF OwnEntries
  <1>10. EveryStepIsGlobal'
    <2>1. \A x \in Entries(streams[All]) : x.task \in JTask
      BY <1>1, EntriesType
    <2>2. e \in Entries(streams[e.task])
      BY <1>1, <1>3, <1>5 DEF EveryStepIsGlobal
    <2>3. \A x \in Entries(streams[All])' : x \in Entries(streams[x.task])'
      BY <1>1, <1>3, <1>7, <2>1, <2>2 DEF EveryStepIsGlobal
    <2>4. ASSUME NEW z \in JTask
          PROVE  (Entries(streams[z]) \ Entries(streams[All]))' = {x \in Pending' \cup cut' : x.task = z}
      <3>1. Entries(streams[z]) \ Entries(streams[All]) = {x \in Pending \cup cut : x.task = z}
        BY <1>1 DEF EveryStepIsGlobal
      <3>2. QED
        BY <1>3, <1>4, <1>5, <1>7, <3>1
    <2>5. QED
      BY <2>3, <2>4 DEF EveryStepIsGlobal
  <1>11. QED
    BY <1>8, <1>9, <1>10 DEF LogInv

LEMMA CutKeepsLog ==
  ASSUME LogInv, NEW w \in Writer, LogCut(w), JournalTypeOK'
  PROVE  LogInv'
  <1>1. JournalTypeOK /\ Numbered /\ OwnEntries /\ EveryStepIsGlobal
    BY DEF LogInv
  <1>2. /\ logging[w] # NoEntry /\ cut' = cut \cup {logging[w]} /\ streams' = streams
        /\ \A v \in Writer : logging'[v] = IF v = w THEN NoEntry ELSE logging[v]
    BY <1>1 DEF LogCut, JournalTypeOK
  <1>3. \A v \in Writer \ {w} : logging[v] # logging[w]
    BY <1>1, <1>2 DEF OwnEntries
  <1>4. Pending' \cup cut' = Pending \cup cut
    BY <1>2, <1>3 DEF Pending
  <1>5. Numbered'
    BY <1>1, <1>2 DEF Numbered
  <1>6. OwnEntries'
    BY <1>1, <1>2, <1>3 DEF OwnEntries
  <1>7. EveryStepIsGlobal'
    BY <1>1, <1>2, <1>4 DEF EveryStepIsGlobal
  <1>8. QED
    BY <1>5, <1>6, <1>7 DEF LogInv

(* A step that leaves streams, writers and cut entries alone.              *)
LEMMA QuietKeepsLog ==
  ASSUME LogInv, JournalTypeOK', UNCHANGED <<streams, logging, cut>>
  PROVE  LogInv'
  <1>1. Pending' = Pending
    BY DEF Pending
  <1>2. QED
    BY <1>1 DEF LogInv, Numbered, OwnEntries, EveryStepIsGlobal, Entries

LEMMA LogStep == LogInv /\ [JournalNext]_journalVars => LogInv'
  <1> SUFFICES ASSUME LogInv, [JournalNext]_journalVars PROVE LogInv'
    OBVIOUS
  <1>1. JournalTypeOK'
    BY TypeStep DEF LogInv
  <1>2. ASSUME NEW w \in Writer, LogTaskStep(w) PROVE LogInv'
    BY <1>1, <1>2, TaskStepKeepsLog
  <1>3. ASSUME NEW w \in Writer, LogGlobalStep(w) PROVE LogInv'
    BY <1>1, <1>3, GlobalStepKeepsLog
  <1>4. ASSUME NEW w \in Writer, LogCut(w) PROVE LogInv'
    BY <1>1, <1>4, CutKeepsLog
  <1>5. ASSUME NEW r \in Reader, AskCheckpoint(r) PROVE LogInv'
    BY <1>1, <1>5, QuietKeepsLog DEF AskCheckpoint
  <1>6. ASSUME NEW r \in Reader, GetLastCheckpoint(r) PROVE LogInv'
    BY <1>1, <1>6, QuietKeepsLog DEF GetLastCheckpoint
  <1>7. CASE UNCHANGED journalVars
    BY <1>1, <1>7, QuietKeepsLog DEF journalVars
  <1>8. QED
    BY <1>2, <1>3, <1>4, <1>5, <1>6, <1>7 DEF JournalNext

(* For every set of tasks and of concurrent writers, whichever pushes      *)
(* fail: the global stream lacks exactly the steps of a log_step that is   *)
(* between its two pushes or that raised there, and holds no other step.   *)
THEOREM GlobalLacksOnlyCutSteps == JournalSpec => []EveryStepIsGlobal
  <1>1. LogInv => EveryStepIsGlobal
    BY DEF LogInv
  <1>2. QED
    BY LogInit, LogStep, <1>1, PTL DEF JournalSpec
-----------------------------------------------------------------------------
(***************************************************************************)
(* CheckpointsNeverGoBack: what a reader was answered is still among the   *)
(* checkpoints that the next fetch returns, because a push leaves the      *)
(* fetched prefix in place, and the answer is the last of those.           *)
(***************************************************************************)
AnswersAreFetched ==
  \A r \in Reader, t \in JTask :
    answer[r][t] # 0 => answer[r][t] \in Checkpoints(Fetched(t))

ReadInv == LogInv /\ AnswersAreFetched

LEMMA NumberedCheckpoint ==
  ASSUME LogInv, NEW t \in JTask, NEW i \in Checkpoints(Fetched(t))
  PROVE  Fetched(t)[i].id = i /\ i \in Nat \ {0}
  <1>1. i \in 1..Len(Fetched(t)) /\ Len(Fetched(t)) \in Nat /\ Len(Fetched(t)) <= Len(streams[t])
        /\ Fetched(t)[i] = streams[t][i] /\ Len(streams[t]) \in Nat
    <2>1. JournalTypeOK /\ streams[t] \in Seq(Entry)
      BY DEF LogInv, JournalTypeOK
    <2>2. QED
      BY <2>1, FetchedType DEF Checkpoints
  <1>2. QED
    BY <1>1 DEF LogInv, Numbered

(* A push keeps the checkpoints that a fetch returned.                     *)
LEMMA FetchedGrows ==
  ASSUME JournalTypeOK, JournalTypeOK', NEW s \in JTask \cup {All}, NEW e \in Entry, Push(s, e),
         NEW t \in JTask
  PROVE  Checkpoints(Fetched(t)) \subseteq Checkpoints(Fetched(t))'
  <1>1. streams[t] \in Seq(Entry) /\ Len(streams[t]) \in Nat /\ streams'[t] \in Seq(Entry)
    BY DEF JournalTypeOK
  <1>2. CASE t # s
    BY <1>2, PushAdds DEF Fetched
  <1>3. CASE t = s
    <2>1. /\ Len(streams'[t]) = Len(streams[t]) + 1
          /\ \A i \in 1..Len(streams[t]) : streams'[t][i] = streams[t][i]
      BY <1>3, PushAdds
    <2> DEFINE F == FetchedOf(streams[t])
               G == FetchedOf(streams'[t])
    <2>2. Fetched(t) = F /\ Fetched(t)' = G
      BY DEF Fetched, FetchedOf
    <2>3. /\ DOMAIN F = 1..Len(F) /\ Len(F) \in Nat
          /\ Len(F) <= Len(streams[t]) /\ Len(F) <= MaxBulkFetch
          /\ \A i \in DOMAIN F : F[i] = streams[t][i]
      BY <1>1, FetchedOfType
    <2>4. /\ DOMAIN G = 1..Len(G) /\ Len(G) \in Nat
          /\ Len(streams'[t]) <= MaxBulkFetch => Len(G) = Len(streams'[t])
          /\ MaxBulkFetch <= Len(streams'[t]) => Len(G) = MaxBulkFetch
          /\ \A i \in DOMAIN G : G[i] = streams'[t][i]
      BY <1>1, FetchedOfType
    <2> HIDE DEF F, G
    <2>5. \A i \in DOMAIN F : i \in DOMAIN G /\ G[i] = F[i]
      <3>1. Len(F) <= Len(G)
        <4>1. MaxBulkFetch \in Nat /\ Len(streams[t]) \in Nat /\ Len(streams'[t]) \in Nat
          BY <1>1, <2>1, JournalAssumption
        <4>2. \A a, b, f, g, m \in Nat :
                f <= a /\ f <= m /\ b = a + 1 /\ (b <= m => g = b) /\ (m <= b => g = m) => f <= g
          OBVIOUS
        <4>3. QED
          BY ONLY <2>1, <2>3, <2>4, <4>1, <4>2, Zenon
      <3>2. ASSUME NEW i \in DOMAIN F PROVE i \in DOMAIN G /\ G[i] = F[i]
        <4>1. i \in 1..Len(F)
          BY <2>3
        <4>2. i \in 1..Len(G) /\ i \in 1..Len(streams[t])
          BY ONLY <1>1, <2>3, <2>4, <3>1, <4>1
        <4>3. G[i] = streams'[t][i] /\ F[i] = streams[t][i] /\ streams'[t][i] = streams[t][i]
          BY <2>1, <2>3, <2>4, <4>2, Zenon
        <4>4. QED
          BY <2>4, <4>2, <4>3
      <3>3. QED
        BY <3>2
    <2>6. QED
      BY <2>2, <2>5 DEF Checkpoints
  <1>4. QED
    BY <1>2, <1>3

LEMMA ReadInit == JournalInit => ReadInv
  BY LogInit DEF JournalInit, ReadInv, AnswersAreFetched

(* A reader is answered with a checkpoint that it would be answered with   *)
(* again, and that no earlier answer exceeds.                              *)
LEMMA AnswerAdvances ==
  ASSUME ReadInv, NEW q \in Reader, GetLastCheckpoint(q), NEW r \in Reader, NEW t \in JTask
  PROVE  /\ answer'[r][t] # 0 => answer'[r][t] \in Checkpoints(Fetched(t))
         /\ answer'[r][t] >= answer[r][t]
         /\ streams' = streams
  <1>1. LogInv /\ AnswersAreFetched /\ JournalTypeOK
    BY DEF ReadInv, LogInv
  <1>2. answer \in [Reader -> [JTask -> Nat]] /\ answer[r][t] \in Nat
    BY <1>1 DEF JournalTypeOK
  <1>3. answer[r][t] # 0 => answer[r][t] \in Checkpoints(Fetched(t))
    BY <1>1 DEF AnswersAreFetched
  <1>4. CASE answer'[r][t] = answer[r][t]
    BY <1>2, <1>3, <1>4 DEF GetLastCheckpoint
  <1>5. CASE answer'[r][t] # answer[r][t]
    <2> DEFINE newest == LastOf(Checkpoints(Fetched(t)))
    <2>1. r = q /\ t = reading[q] /\ Checkpoints(Fetched(t)) # {} /\ answer'[r][t] = Fetched(t)[newest].id
      <3>1. reading[q] \in JTask
        BY <1>1 DEF GetLastCheckpoint, JournalTypeOK
      <3>2. QED
        BY <1>2, <1>5, <3>1 DEF GetLastCheckpoint
    <2>2. newest \in Checkpoints(Fetched(t)) /\ \A j \in Checkpoints(Fetched(t)) : j <= newest
      BY <1>1, <2>1, LastCheckpoint
    <2>3. Fetched(t)[newest].id = newest /\ newest \in Nat \ {0}
      BY <1>1, <2>2, NumberedCheckpoint
    <2> HIDE DEF newest
    <2>4. QED
      BY <1>2, <1>3, <2>1, <2>2, <2>3 DEF GetLastCheckpoint
  <1>6. QED
    BY <1>4, <1>5

LEMMA PushKeepsAnswers ==
  ASSUME ReadInv, LogInv', NEW s \in JTask \cup {All}, NEW e \in Entry, Push(s, e), answer' = answer
  PROVE  ReadInv'
  <1>1. JournalTypeOK /\ JournalTypeOK'
    BY DEF ReadInv, LogInv
  <1>2. \A t \in JTask : Checkpoints(Fetched(t)) \subseteq Checkpoints(Fetched(t))'
    BY <1>1, FetchedGrows
  <1>3. QED
    BY <1>2 DEF ReadInv, AnswersAreFetched

(* A step that leaves streams and answers alone.                           *)
LEMMA QuietKeepsAnswers ==
  ASSUME ReadInv, LogInv', UNCHANGED <<streams, answer>>
  PROVE  ReadInv'
  BY DEF ReadInv, AnswersAreFetched, Fetched, Checkpoints

LEMMA ReadStep == ReadInv /\ [JournalNext]_journalVars => ReadInv'
  <1> SUFFICES ASSUME ReadInv, [JournalNext]_journalVars PROVE ReadInv'
    OBVIOUS
  <1>1. LogInv' /\ JournalTypeOK
    BY LogStep DEF ReadInv, LogInv
  <1>2. ASSUME NEW w \in Writer, LogTaskStep(w) PROVE ReadInv'
    <2>1. PICK t \in JTask, c \in BOOLEAN :
            Push(t, [task |-> t, id |-> Len(streams[t]) + 1, checkpoint |-> c])
      BY <1>2 DEF LogTaskStep
    <2>2. [task |-> t, id |-> Len(streams[t]) + 1, checkpoint |-> c] \in Entry
      BY <1>1 DEF Entry, JournalTypeOK
    <2>3. QED
      BY <1>1, <1>2, <2>1, <2>2, PushKeepsAnswers DEF LogTaskStep
  <1>3. ASSUME NEW w \in Writer, LogGlobalStep(w) PROVE ReadInv'
    <2>1. logging[w] \in Entry
      BY <1>1, <1>3 DEF LogGlobalStep, JournalTypeOK
    <2>2. QED
      BY <1>1, <1>3, <2>1, PushKeepsAnswers DEF LogGlobalStep
  <1>4. ASSUME NEW w \in Writer, LogCut(w) PROVE ReadInv'
    BY <1>1, <1>4, QuietKeepsAnswers DEF LogCut
  <1>5. ASSUME NEW r \in Reader, AskCheckpoint(r) PROVE ReadInv'
    BY <1>1, <1>5, QuietKeepsAnswers DEF AskCheckpoint
  <1>6. ASSUME NEW q \in Reader, GetLastCheckpoint(q) PROVE ReadInv'
    <2>1. streams' = streams
      BY <1>6 DEF GetLastCheckpoint
    <2>2. \A t \in JTask : Checkpoints(Fetched(t))' = Checkpoints(Fetched(t))
      BY <2>1 DEF Fetched, Checkpoints
    <2>3. \A r \in Reader, t \in JTask :
            answer'[r][t] # 0 => answer'[r][t] \in Checkpoints(Fetched(t))
      BY <1>6, AnswerAdvances
    <2>4. QED
      BY <1>1, <2>2, <2>3 DEF ReadInv, AnswersAreFetched
  <1>7. CASE UNCHANGED journalVars
    BY <1>1, <1>7, QuietKeepsAnswers DEF journalVars
  <1>8. QED
    BY <1>2, <1>3, <1>4, <1>5, <1>6, <1>7 DEF JournalNext

LEMMA AdvanceStep ==
  ReadInv /\ [JournalNext]_journalVars
    => [\A r \in Reader, t \in JTask : answer'[r][t] >= answer[r][t]]_journalVars
  <1> SUFFICES ASSUME ReadInv, JournalNext, NEW r \in Reader, NEW t \in JTask
               PROVE  answer'[r][t] >= answer[r][t]
    OBVIOUS
  <1>1. answer[r][t] \in Nat
    BY DEF ReadInv, LogInv, JournalTypeOK
  <1>2. CASE answer' = answer
    BY <1>1, <1>2
  <1>3. ASSUME NEW q \in Reader, GetLastCheckpoint(q) PROVE answer'[r][t] >= answer[r][t]
    BY <1>3, AnswerAdvances
  <1>4. QED
    BY <1>2, <1>3 DEF JournalNext, LogTaskStep, LogGlobalStep, LogCut, AskCheckpoint

(* For every bulk limit, however many readers and writers: the checkpoints *)
(* one reader is given of a task only advance.                             *)
THEOREM CheckpointsAdvance == JournalSpec => CheckpointsNeverGoBack
  BY ReadInit, ReadStep, AdvanceStep, PTL DEF JournalSpec, CheckpointsNeverGoBack

-----------------------------------------------------------------------------
(* Throttle: a bucket holds no more than its capacity less what it gave in *)
(* any window that is still open, so no window can be overdrawn.           *)

Bucket == [tokens : 0..Burst, refilled : Nat]
History == [0..MaxClock -> Nat]

(* The clock, the buckets and their histories keep their domains; every    *)
(* caller that is at a bucket has one.                                     *)
BucketsOK ==
  /\ now \in 0..MaxClock
  /\ buckets \in Seq(Bucket)
  /\ granted \in Seq(History) /\ Len(granted) = Len(buckets)
  /\ current \in 0..Len(buckets)
  /\ \A b \in DOMAIN buckets : buckets[b].refilled <= now

Place(n) ==
  [at : {"idle", "trying", "sleeping", "once"}, bucket : 0..n, asks : Nat, wake : Int]
CallersOK == caller \in [Caller -> Place(Len(buckets))]
CallersHaveBuckets ==
  \A c \in Caller : caller[c].at # "idle" => caller[c].bucket \in DOMAIN buckets

(* What is in a bucket now and what it gave since t fit its capacity and   *)
(* what arrived since t; nothing was given in the future.                  *)
WindowsFit ==
  \A b \in DOMAIN buckets, t \in 0..MaxClock :
    IF t <= now THEN granted[b][t] + Refilled(b).tokens <= Burst + (now - t)
                ELSE granted[b][t] = 0

ThrottleInv == BucketsOK /\ CallersOK /\ CallersHaveBuckets /\ WindowsFit

(* A bucket and its history, one by one.                                   *)
LEMMA AtBucket ==
  ASSUME BucketsOK, NEW b \in DOMAIN buckets
  PROVE  /\ buckets[b] \in Bucket /\ granted[b] \in History /\ b \in DOMAIN granted
         /\ buckets[b].tokens \in 0..Burst /\ buckets[b].refilled \in Nat
         /\ buckets[b].refilled <= now /\ now \in Nat /\ now \in 0..MaxClock
<1>1. /\ buckets \in Seq(Bucket) /\ granted \in Seq(History) /\ Len(granted) = Len(buckets)
      /\ buckets[b].refilled <= now /\ now \in 0..MaxClock
  BY DEF BucketsOK
<1>2. b \in 1..Len(buckets) /\ b \in DOMAIN granted
  BY <1>1
<1>3. buckets[b] \in Bucket /\ granted[b] \in History
  BY <1>1, <1>2
<1> QED
  BY <1>1, <1>2, <1>3, ThrottleAssumption DEF Bucket

LEMMA RefilledType ==
  ASSUME BucketsOK, NEW b \in DOMAIN buckets
  PROVE  Refilled(b) \in Bucket /\ Refilled(b).refilled = now /\ Refilled(b).tokens \in 0..Burst
<1> QED
  BY AtBucket, ThrottleAssumption DEF Refilled, Bucket

(* What a step of the clock and a decrement do to the tokens at hand.      *)
LEMMA RefilledTokens ==
  ASSUME NEW b
  PROVE  Refilled(b).tokens =
           IF buckets[b].tokens + (now - buckets[b].refilled) < Burst
           THEN buckets[b].tokens + (now - buckets[b].refilled) ELSE Burst
BY DEF Refilled

LEMMA ThrottleStarts == ThrottleInit => ThrottleInv
<1> SUFFICES ASSUME ThrottleInit PROVE ThrottleInv
  OBVIOUS
<1>1. BucketsOK
  BY ThrottleAssumption DEF ThrottleInit, BucketsOK
<1>2. CallersOK /\ CallersHaveBuckets
  BY DEF ThrottleInit, CallersOK, CallersHaveBuckets, NotAsking, Place
<1>3. WindowsFit
  BY DEF ThrottleInit, WindowsFit
<1> QED
  BY <1>1, <1>2, <1>3 DEF ThrottleInv

(* Time that passes brings at most one token.                              *)
LEMMA TimeKeepsWindows == ThrottleInv /\ PassTime => ThrottleInv'
<1> SUFFICES ASSUME ThrottleInv, PassTime PROVE ThrottleInv'
  OBVIOUS
<1>1. BucketsOK'
  <2>1. now' \in 0..MaxClock /\ now \in Nat /\ now' = now + 1
    BY ThrottleAssumption DEF ThrottleInv, BucketsOK, PassTime
  <2>2. ASSUME NEW b \in DOMAIN buckets PROVE buckets[b].refilled <= now'
    BY <2>1, AtBucket DEF ThrottleInv
  <2> QED
    BY <2>1, <2>2 DEF ThrottleInv, BucketsOK, PassTime
<1>2. CallersOK' /\ CallersHaveBuckets'
  BY DEF ThrottleInv, CallersOK, CallersHaveBuckets, PassTime
<1>3. ASSUME NEW b \in DOMAIN buckets, NEW t \in 0..MaxClock
      PROVE  IF t <= now' THEN granted[b][t] + Refilled(b)'.tokens <= Burst + (now' - t)
                          ELSE granted[b][t] = 0
  <2>1. /\ buckets[b].tokens \in 0..Burst /\ buckets[b].refilled \in Nat
        /\ granted[b][t] \in Nat /\ now \in Nat
        /\ buckets[b].refilled <= now
    BY AtBucket, ThrottleAssumption DEF ThrottleInv, History
  <2>2. now' = now + 1 /\ buckets' = buckets
    BY DEF PassTime
  <2>3. IF t <= now THEN granted[b][t] + Refilled(b).tokens <= Burst + (now - t)
                    ELSE granted[b][t] = 0
    BY DEF ThrottleInv, WindowsFit
  <2>4. Refilled(b)'.tokens =
           IF buckets[b].tokens + (now' - buckets[b].refilled) < Burst
           THEN buckets[b].tokens + (now' - buckets[b].refilled) ELSE Burst
    BY <2>2 DEF Refilled
  <2> QED
    BY <2>1, <2>2, <2>3, <2>4, RefilledTokens, ThrottleAssumption
<1>4. WindowsFit'
  BY <1>3 DEF WindowsFit, PassTime
<1> QED
  BY <1>1, <1>2, <1>4 DEF ThrottleInv

(* A lookup leaves the buckets alone or adds a full one.                   *)
LEMMA LookupKeepsWindows ==
  ASSUME ThrottleInv, GetLimiter, UNCHANGED now
  PROVE  BucketsOK' /\ WindowsFit' /\ current' \in DOMAIN buckets' /\ Len(buckets') >= Len(buckets)
<1>1. CASE current # 0
  BY <1>1 DEF GetLimiter, ThrottleInv, BucketsOK, WindowsFit, Refilled
<1>2. CASE current = 0
  <2> DEFINE new == [tokens |-> Burst, refilled |-> now]
             none == [t \in 0..MaxClock |-> 0]
  <2>1. buckets' = Append(buckets, new) /\ granted' = Append(granted, none)
        /\ current' = Len(buckets) + 1
    BY <1>2 DEF GetLimiter
  <2>2. new \in Bucket /\ none \in History /\ now \in 0..MaxClock /\ now \in Nat
    BY ThrottleAssumption DEF ThrottleInv, BucketsOK, Bucket, History
  <2>3. buckets \in Seq(Bucket) /\ granted \in Seq(History) /\ Len(granted) = Len(buckets)
    BY DEF ThrottleInv, BucketsOK
  <2> HIDE DEF new, none
  <2>4. /\ buckets' \in Seq(Bucket) /\ granted' \in Seq(History)
        /\ Len(buckets') = Len(buckets) + 1 /\ Len(granted') = Len(buckets')
        /\ \A i \in 1..Len(buckets) : buckets'[i] = buckets[i] /\ granted'[i] = granted[i]
        /\ buckets'[Len(buckets) + 1] = new /\ granted'[Len(buckets) + 1] = none
    BY <2>1, <2>2, <2>3, AppendProperties
  <2>5. BucketsOK'
    <3>1. ASSUME NEW b \in DOMAIN buckets' PROVE buckets'[b].refilled <= now
      BY <2>2, <2>3, <2>4 DEF new, ThrottleInv, BucketsOK
    <3> QED
      BY <2>1, <2>2, <2>3, <2>4, <3>1 DEF BucketsOK
  <2>6. ASSUME NEW b \in DOMAIN buckets', NEW t \in 0..MaxClock
        PROVE  IF t <= now THEN granted'[b][t] + Refilled(b)'.tokens <= Burst + (now - t)
                           ELSE granted'[b][t] = 0
    <3>1. CASE b \in DOMAIN buckets
      <4>1. buckets'[b] = buckets[b] /\ granted'[b] = granted[b]
        BY <2>3, <2>4, <3>1
      <4>2. Refilled(b)' = Refilled(b)
        BY <4>1 DEF Refilled
      <4> QED
        BY <3>1, <4>1, <4>2 DEF ThrottleInv, WindowsFit
    <3>2. CASE b = Len(buckets) + 1
      <4>1. granted'[b][t] = 0 /\ buckets'[b].tokens = Burst /\ buckets'[b].refilled = now
        <5>1. granted'[b] = none /\ buckets'[b] = new
          BY <2>4, <3>2
        <5> QED
          BY <5>1 DEF new, none
      <4>2. Refilled(b)'.tokens = Burst
        BY <4>1, <2>2, ThrottleAssumption DEF Refilled
      <4> QED
        BY <4>1, <4>2, <2>2, ThrottleAssumption
    <3> QED
      BY <3>1, <3>2, <2>3, <2>4
  <2>7. WindowsFit'
    BY <2>6 DEF WindowsFit
  <2> QED
    BY <2>1, <2>3, <2>4, <2>5, <2>7
<1> QED
  BY <1>1, <1>2

(* A decrement takes from the tokens at hand what it adds to the windows;  *)
(* refilling alone leaves every window as full as it was.                  *)
LEMMA TakingKeepsWindows ==
  ASSUME ThrottleInv, UNCHANGED <<now, current>>, NEW b \in DOMAIN buckets,
         NEW n \in Nat, n <= Refilled(b).tokens,
         buckets' = [buckets EXCEPT ![b] = [Refilled(b) EXCEPT !.tokens = @ - n]],
         granted' \in Seq(History), DOMAIN granted' = DOMAIN granted,
         \A c \in DOMAIN buckets, t \in 0..MaxClock :
           granted'[c][t] = IF c = b /\ t <= now THEN granted[c][t] + n ELSE granted[c][t]
  PROVE  BucketsOK' /\ WindowsFit' /\ Len(buckets') = Len(buckets)
<1>1. /\ buckets \in Seq(Bucket) /\ granted \in Seq(History) /\ Len(granted) = Len(buckets)
      /\ now \in 0..MaxClock /\ now \in Nat /\ current \in 0..Len(buckets)
      /\ \A c \in DOMAIN buckets : buckets[c].refilled <= now
  BY DEF ThrottleInv, BucketsOK
<1>2. Refilled(b) \in Bucket /\ Refilled(b).refilled = now
  BY RefilledType DEF ThrottleInv
<1> DEFINE left == [Refilled(b) EXCEPT !.tokens = @ - n]
<1>3. left \in Bucket /\ left.refilled = now /\ left.tokens = Refilled(b).tokens - n
  BY <1>2, ThrottleAssumption DEF Bucket
<1> HIDE DEF left
<1>4. /\ buckets' \in Seq(Bucket) /\ Len(buckets') = Len(buckets)
      /\ DOMAIN buckets' = DOMAIN buckets
      /\ \A c \in DOMAIN buckets : buckets'[c] = IF c = b THEN left ELSE buckets[c]
  <2>1. buckets' = [buckets EXCEPT ![b] = left]
    BY DEF left
  <2> QED
    BY <2>1, <1>1, <1>3
<1>5. BucketsOK'
  <2>1. Len(granted') = Len(granted)
    BY <1>1
  <2>2. ASSUME NEW c \in DOMAIN buckets' PROVE buckets'[c].refilled <= now
    <3>1. CASE c = b
      <4>1. buckets'[c] = left /\ left.refilled <= now
        BY <1>1, <1>3, <1>4, <3>1
      <4> QED
        BY <4>1
    <3>2. CASE c # b
      BY <1>1, <1>4, <3>2
    <3> QED
      BY <3>1, <3>2
  <2> QED
    BY <1>1, <1>4, <2>1, <2>2 DEF BucketsOK
<1>6. ASSUME NEW c \in DOMAIN buckets, NEW t \in 0..MaxClock
      PROVE  IF t <= now THEN granted'[c][t] + Refilled(c)'.tokens <= Burst + (now - t)
                         ELSE granted'[c][t] = 0
  <2>1. granted[c][t] \in Nat
    BY AtBucket, ThrottleAssumption, SMTT(30) DEF ThrottleInv, History
  <2>2. IF t <= now THEN granted[c][t] + Refilled(c).tokens <= Burst + (now - t)
                    ELSE granted[c][t] = 0
    BY DEF ThrottleInv, WindowsFit
  <2>3. CASE c = b
    <3>1. Refilled(b)'.tokens = left.tokens
      <4>1. buckets'[b] = left
        BY <1>4
      <4>2. left.tokens \in 0..Burst /\ left.refilled = now
        BY <1>3 DEF Bucket
      <4> QED
        BY <1>1, <4>1, <4>2, ThrottleAssumption, SMTT(30) DEF Refilled
    <3> QED
      <4>1. Refilled(b).tokens \in Nat /\ now \in Nat /\ t \in Nat
        BY <1>1, <1>2, ThrottleAssumption DEF Bucket
      <4>2. Refilled(b)'.tokens = Refilled(b).tokens - n
        BY <1>3, <3>1
      <4>3. granted'[c][t] = IF t <= now THEN granted[c][t] + n ELSE granted[c][t]
        BY <2>3
      <4> QED
        BY <2>1, <2>2, <2>3, <4>1, <4>2, <4>3, ThrottleAssumption, SMTT(30)
  <2>4. CASE c # b
    <3>1. Refilled(c)' = Refilled(c)
      BY <1>4, <2>4 DEF Refilled
    <3> QED
      BY <2>2, <2>4, <3>1
  <2> QED
    BY <2>3, <2>4
<1>7. WindowsFit'
  BY <1>4, <1>6 DEF WindowsFit
<1> QED
  BY <1>4, <1>5, <1>7

LEMMA TakeKeepsWindows ==
  ASSUME ThrottleInv, UNCHANGED <<now, current>>, NEW b \in DOMAIN buckets,
         NEW n \in Nat, n <= Refilled(b).tokens, Take(b, n)
  PROVE  BucketsOK' /\ WindowsFit' /\ Len(buckets') = Len(buckets)
<1>1. granted \in Seq(History) /\ b \in DOMAIN granted /\ now \in Nat
      /\ DOMAIN buckets = DOMAIN granted
  BY DEF ThrottleInv, BucketsOK
<1> DEFINE more == [t \in 0..MaxClock |-> IF t <= now THEN granted[b][t] + n ELSE granted[b][t]]
<1>2. more \in History
  <2>1. granted[b] \in History
    BY AtBucket DEF ThrottleInv
  <2>2. ASSUME NEW t \in 0..MaxClock
        PROVE (IF t <= now THEN granted[b][t] + n ELSE granted[b][t]) \in Nat
    BY <2>1, ThrottleAssumption DEF History
  <2> QED
    BY <2>2 DEF History
<1>3. granted' = [granted EXCEPT ![b] = more]
  BY DEF Take
<1>4. granted' \in Seq(History) /\ DOMAIN granted' = DOMAIN granted
  BY <1>1, <1>2, <1>3
<1>5. \A c \in DOMAIN buckets, t \in 0..MaxClock :
           granted'[c][t] = IF c = b /\ t <= now THEN granted[c][t] + n ELSE granted[c][t]
  BY <1>1, <1>3
<1> QED
  BY <1>4, <1>5, TakingKeepsWindows DEF Take

LEMMA RefusalKeepsWindows ==
  ASSUME ThrottleInv, UNCHANGED <<now, current>>, NEW b \in DOMAIN buckets, Refuse(b)
  PROVE  BucketsOK' /\ WindowsFit' /\ Len(buckets') = Len(buckets)
<1>1. Refilled(b) \in Bucket
  BY RefilledType DEF ThrottleInv
<1>2. 0 <= Refilled(b).tokens /\ Refilled(b) = [Refilled(b) EXCEPT !.tokens = @ - 0]
  BY <1>1 DEF Bucket
<1>3. granted \in Seq(History) /\ Len(granted) = Len(buckets) /\ buckets \in Seq(Bucket)
  BY DEF ThrottleInv, BucketsOK
<1>4. \A c \in DOMAIN buckets, t \in 0..MaxClock : granted[c][t] + 0 = granted[c][t]
  BY AtBucket, ThrottleAssumption DEF ThrottleInv, History
<1>5. granted' \in Seq(History) /\ DOMAIN granted' = DOMAIN granted
      /\ \A c \in DOMAIN buckets, t \in 0..MaxClock :
           granted'[c][t] = IF c = b /\ t <= now THEN granted[c][t] + 0 ELSE granted[c][t]
  BY <1>3, <1>4 DEF Refuse
<1>6. buckets' = [buckets EXCEPT ![b] = [Refilled(b) EXCEPT !.tokens = @ - 0]]
  BY <1>2 DEF Refuse
<1>7. 0 \in Nat
  OBVIOUS
<1> QED
  BY <1>2, <1>5, <1>6, <1>7, TakingKeepsWindows

-----------------------------------------------------------------------------
(* Whoever stays at a bucket that is there stays at one that is there.     *)
LEMMA CallersStay ==
  ASSUME ThrottleInv, NEW c \in Caller, Len(buckets') \in Nat, Len(buckets') >= Len(buckets),
         DOMAIN buckets' = 1..Len(buckets'),
         NEW next \in Place(Len(buckets')),
         next.at # "idle" => next.bucket \in DOMAIN buckets',
         caller' = [caller EXCEPT ![c] = next]
  PROVE  CallersOK' /\ CallersHaveBuckets'
<1>1. Len(buckets) \in Nat /\ DOMAIN buckets = 1..Len(buckets)
  BY DEF ThrottleInv, BucketsOK
<1> QED
  BY <1>1 DEF ThrottleInv, CallersOK, CallersHaveBuckets, Place

LEMMA CallersStayAt ==
  ASSUME ThrottleInv, NEW c \in Caller, BucketsOK', Len(buckets') = Len(buckets),
         NEW next \in Place(Len(buckets)),
         next.at # "idle" => next.bucket \in DOMAIN buckets,
         caller' = [caller EXCEPT ![c] = next]
  PROVE  CallersOK' /\ CallersHaveBuckets'
<1>1. /\ Len(buckets) \in Nat /\ DOMAIN buckets = 1..Len(buckets)
      /\ DOMAIN buckets' = 1..Len(buckets') /\ Len(buckets') >= Len(buckets)
  BY DEF ThrottleInv, BucketsOK
<1> QED
  BY <1>1, CallersStay

LEMMA ThrottleStep == ThrottleInv /\ [ThrottleNext]_throttleVars => ThrottleInv'
<1> SUFFICES ASSUME ThrottleInv, [ThrottleNext]_throttleVars PROVE ThrottleInv'
  OBVIOUS
<1> USE DEF ThrottleInv
<1>0. /\ Len(buckets) \in Nat /\ DOMAIN buckets = 1..Len(buckets) /\ now \in Nat
      /\ \A c \in Caller : caller[c] \in Place(Len(buckets))
  BY DEF BucketsOK, CallersOK
<1>i. NotAsking \in Place(Len(buckets))
  BY <1>0 DEF NotAsking, Place
<1>n. NotAsking.at = "idle"
  BY DEF NotAsking
<1>1. CASE PassTime
  BY <1>1, TimeKeepsWindows
<1>2. CASE RemoveLimiter
  <2>1. BucketsOK' /\ CallersOK' /\ CallersHaveBuckets'
    BY <1>2, <1>0 DEF RemoveLimiter, BucketsOK, CallersOK, CallersHaveBuckets
  <2>2. WindowsFit'
    BY <1>2 DEF RemoveLimiter, WindowsFit, Refilled
  <2> QED
    BY <2>1, <2>2
<1>3. ASSUME NEW c \in Caller, NEW how \in {"trying", "once"}, NEW n \in 1..MaxAsk, Ask(c, how, n)
      PROVE  ThrottleInv'
  <2>1. BucketsOK' /\ WindowsFit' /\ current' \in DOMAIN buckets' /\ Len(buckets') >= Len(buckets)
    BY <1>3, LookupKeepsWindows DEF Ask
  <2>2. Len(buckets') \in Nat /\ DOMAIN buckets' = 1..Len(buckets')
    BY <2>1 DEF BucketsOK
  <2> DEFINE next == [at |-> how, bucket |-> current', asks |-> n, wake |-> 0]
  <2>3. next \in Place(Len(buckets'))
    BY <2>1, <2>2, ThrottleAssumption DEF Place
  <2>4. CallersOK' /\ CallersHaveBuckets'
    BY <1>3, <2>1, <2>2, <2>3, CallersStay DEF Ask
  <2> QED
    BY <2>1, <2>4
<1>4. ASSUME NEW c \in Caller, Wake(c) \/ GiveUp(c) PROVE ThrottleInv'
  <2>1. BucketsOK' /\ WindowsFit' /\ UNCHANGED buckets
    BY <1>4 DEF Wake, GiveUp, BucketsOK, WindowsFit, Refilled
  <2>2. CASE Wake(c)
    <3> DEFINE next == [caller[c] EXCEPT !.at = "trying"]
    <3>1. caller' = [caller EXCEPT ![c] = next] /\ caller[c].bucket \in DOMAIN buckets
      BY <2>2 DEF Wake, CallersHaveBuckets
    <3>2. next \in Place(Len(buckets))
          /\ next.bucket = caller[c].bucket
      BY <1>0 DEF Place
    <3> QED
      BY <2>1, <3>1, <3>2, CallersStayAt
  <2>3. CASE GiveUp(c)
    BY <2>1, <2>3, <1>i, <1>n, CallersStayAt DEF GiveUp
  <2> QED
    BY <1>4, <2>2, <2>3
<1>5. ASSUME NEW c \in Caller, TryAgain(c) PROVE ThrottleInv'
  <2> DEFINE b == caller[c].bucket
             n == caller[c].asks
  <2>1. b \in DOMAIN buckets /\ n \in Nat
    BY <1>5, <1>0 DEF TryAgain, CallersHaveBuckets, Place
  <2>2. CASE n <= Refilled(b).tokens /\ Take(b, n) /\ caller' = [caller EXCEPT ![c] = NotAsking]
    <3>1. BucketsOK' /\ WindowsFit' /\ Len(buckets') = Len(buckets)
      BY <1>5, <2>1, <2>2, TakeKeepsWindows DEF TryAgain
    <3> QED
      BY <2>2, <3>1, <1>i, <1>n, CallersStayAt
  <2>3. CASE Refuse(b) /\ caller' = [caller EXCEPT ![c].at = "sleeping",
                                                   ![c].wake = now + n - Refilled(b).tokens]
    <3>1. BucketsOK' /\ WindowsFit' /\ Len(buckets') = Len(buckets)
      BY <1>5, <2>1, <2>3, RefusalKeepsWindows DEF TryAgain
    <3> DEFINE wake == now + n - Refilled(b).tokens
               next == [caller[c] EXCEPT !.at = "sleeping", !.wake = wake]
    <3>3. caller' = [caller EXCEPT ![c] = next]
      BY <2>3, <1>0 DEF CallersOK
    <3>4. wake \in Int
      <4>1. Refilled(b).tokens \in Int /\ now \in Int
        BY <2>1, RefilledType, ThrottleAssumption DEF Bucket, ThrottleInv, BucketsOK
      <4> QED
        BY <2>1, <4>1
    <3>5. next \in Place(Len(buckets))
          /\ next.bucket = b
      <4> HIDE DEF wake
      <4> QED
        BY <3>4, <1>0, <2>1 DEF Place
    <3> QED
      BY <2>1, <3>1, <3>3, <3>5, CallersStayAt
  <2> QED
    BY <1>5, <2>2, <2>3 DEF TryAgain
<1>6. ASSUME NEW c \in Caller, TryAcquire(c) PROVE ThrottleInv'
  <2> DEFINE b == caller[c].bucket
             n == caller[c].asks
  <2>1. b \in DOMAIN buckets /\ n \in Nat
    BY <1>6, <1>0 DEF TryAcquire, CallersHaveBuckets, Place
  <2>2. BucketsOK' /\ WindowsFit' /\ Len(buckets') = Len(buckets)
    <3>1. CASE n <= Refilled(b).tokens
      BY <1>6, <2>1, <3>1, TakeKeepsWindows DEF TryAcquire
    <3>2. CASE ~(n <= Refilled(b).tokens)
      BY <1>6, <2>1, <3>2, RefusalKeepsWindows DEF TryAcquire
    <3> QED
      BY <3>1, <3>2
  <2> QED
    BY <1>6, <2>2, <1>i, <1>n, CallersStayAt DEF TryAcquire
<1>7. CASE UNCHANGED throttleVars
  BY <1>7 DEF throttleVars, BucketsOK, CallersOK, CallersHaveBuckets, WindowsFit, Refilled
<1> QED
  BY <1>1, <1>2, <1>3, <1>4, <1>5, <1>6, <1>7 DEF ThrottleNext

(* No window of time sees more tokens leave one bucket than its capacity   *)
(* and what arrived in that window.                                        *)
THEOREM WindowsAreBounded == ThrottleSpec => []NeverOverdrawn
<1>1. ThrottleInv => NeverOverdrawn
  <2> SUFFICES ASSUME ThrottleInv, NEW b \in DOMAIN buckets, NEW t \in 0..now
               PROVE  granted[b][t] <= Burst + (now - t)
    BY DEF NeverOverdrawn
  <2>1. t \in 0..MaxClock /\ t \in Nat /\ now \in Nat /\ t <= now
    BY ThrottleAssumption DEF ThrottleInv, BucketsOK
  <2>2. granted[b][t] \in Nat
    BY <2>1, AtBucket, ThrottleAssumption DEF ThrottleInv, History
  <2>3. Refilled(b).tokens \in Nat
    BY RefilledType DEF ThrottleInv, Bucket
  <2>4. granted[b][t] + Refilled(b).tokens <= Burst + (now - t)
    BY <2>1 DEF ThrottleInv, WindowsFit
  <2> QED
    BY <2>1, <2>2, <2>3, <2>4, ThrottleAssumption
<1> QED
  BY <1>1, ThrottleStarts, ThrottleStep, PTL DEF ThrottleSpec

-----------------------------------------------------------------------------
(* RecoveryCascade: everything below a run's place that had a handler when *)
(* the run began has been tried.                                           *)

Outcomes == [success : BOOLEAN, confidence : Int]
Tries == [step : 1..Last, outcome : Outcomes]
RunRecord ==
  [at : 0..(Last + 1), awaiting : BOOLEAN, context : SUBSET CascadeStep,
   tried : Seq(Tries), since : SUBSET CascadeStep]

(* What a run tried went up in cost, stayed below its place, and was no    *)
(* confident success but for the last, which ends the run.                 *)
TriedInOrder(run) ==
  /\ \A i \in 1..Len(run.tried) : run.tried[i].step < run.at
  /\ \A i \in 1..(Len(run.tried) - 1) :
       ~Confident(run.tried[i].outcome) /\ run.tried[i].step < run.tried[i + 1].step

CascadeEnded(run) == run.tried # <<>> /\ Confident(run.tried[Len(run.tried)].outcome)

(* The handlers of the run's beginning are still there, and those below    *)
(* its place were tried.                                                   *)
TriedInFull(run, given) ==
  /\ run.since \subseteq given
  /\ IF CascadeEnded(run)
     THEN run.at = Last + 1 /\ \A s \in run.since : s <= run.tried[Len(run.tried)].step
            => \E i \in 1..Len(run.tried) : run.tried[i].step = s
     ELSE \A s \in run.since : s < run.at => \E i \in 1..Len(run.tried) : run.tried[i].step = s

RunOK(run, given) ==
  /\ run \in RunRecord
  /\ run.awaiting => run.at \in 1..Last
  /\ TriedInOrder(run) /\ TriedInFull(run, given)

CascadeInv ==
  /\ handlers \in [CascadeStep -> {"none", "builtin", "custom"}]
  /\ runs \in [Runner -> RunRecord]
  /\ \A r \in Runner : RunOK(runs[r], Given)

(* Steps are numbers.                                                      *)
LEMMA StepTypes ==
  ASSUME NEW run \in RunRecord
  PROVE  /\ \A i \in 1..Len(run.tried) : run.tried[i].step \in Nat
         /\ \A s \in run.since : s \in Nat
         /\ run.at \in Nat /\ DOMAIN run.tried = 1..Len(run.tried)
<1>1. run.tried \in Seq(Tries) /\ run.since \subseteq CascadeStep /\ run.at \in 0..(Last + 1)
  BY DEF RunRecord
<1>2. ASSUME NEW i \in 1..Len(run.tried) PROVE run.tried[i].step \in Nat
  <2>1. run.tried[i] \in Tries
    BY <1>1
  <2> QED
    BY <2>1 DEF Tries, Last
<1>3. ASSUME NEW s \in run.since PROVE s \in Nat
  <2>1. s \in CascadeStep
    BY <1>1
  <2>2. s \in 1..8
    BY <2>1, CascadeAssumption DEF Last
  <2> QED
    BY <2>2
<1>5. run.at \in Nat
  BY <1>1 DEF Last
<1>4. DOMAIN run.tried = 1..Len(run.tried)
  BY <1>1
<1> QED
  BY <1>2, <1>3, <1>4, <1>5

(* A run that has an answer has tried one step more.                       *)
LEMMA AnsweredOK ==
  ASSUME NEW run, NEW given, RunOK(run, given), run.at \in 1..Last, NEW o \in Outcomes,
         NEW next,
         next = [run EXCEPT !.tried = Append(@, [step |-> run.at, outcome |-> o]),
                            !.awaiting = FALSE,
                            !.at = IF Confident(o) THEN Last + 1 ELSE @ + 1]
  PROVE  RunOK(next, given)
<1> DEFINE new == [step |-> run.at, outcome |-> o]
           n == Len(run.tried)
<1>1. /\ run \in RunRecord /\ run.tried \in Seq(Tries) /\ n \in Nat /\ run.at \in Nat
      /\ new \in Tries /\ ~CascadeEnded(run)
  BY DEF RunOK, RunRecord, TriedInFull, Last, Tries
<1>2. /\ next.tried = Append(run.tried, new) /\ next.awaiting = FALSE /\ next.since = run.since
      /\ next.at = IF Confident(o) THEN Last + 1 ELSE run.at + 1
      /\ next.context = run.context
  BY <1>1 DEF RunRecord
<1>3. /\ next.tried \in Seq(Tries) /\ Len(next.tried) = n + 1 /\ next.tried[n + 1] = new
      /\ \A i \in 1..n : next.tried[i] = run.tried[i]
  <2> HIDE DEF new
  <2> QED
    BY <1>1, <1>2
<1>4. next \in RunRecord
  <2>1. next.at \in 0..(Last + 1)
    BY <1>1, <1>2 DEF Last
  <2> QED
    BY <1>1, <1>3, <2>1 DEF RunRecord
<1>5. TriedInOrder(next)
  <2>1. ASSUME NEW i \in 1..Len(next.tried) PROVE next.tried[i].step < next.at
    <3>1. run.at < next.at
      BY <1>1, <1>2 DEF Last
    <3>2. CASE i = n + 1
      BY <1>3, <3>1, <3>2
    <3>3. CASE i \in 1..n
      <4>1. run.tried[i].step < run.at /\ next.tried[i] = run.tried[i]
        BY <1>3, <3>3 DEF RunOK, TriedInOrder
      <4>2. run.tried[i].step \in Nat /\ next.at \in Nat
        BY <1>1, <1>4, <3>3, StepTypes
      <4> QED
        BY <1>1, <3>1, <4>1, <4>2
    <3> QED
      BY <1>1, <1>3, <3>2, <3>3
  <2>2. ASSUME NEW i \in 1..(Len(next.tried) - 1)
        PROVE  ~Confident(next.tried[i].outcome) /\ next.tried[i].step < next.tried[i + 1].step
    <3>1. i \in 1..n /\ next.tried[i] = run.tried[i]
      BY <1>1, <1>3
    <3>2. CASE i = n
      <4>1. run.tried[n].step < run.at
        BY <3>1, <3>2 DEF RunOK, TriedInOrder
      <4>2. ~Confident(run.tried[n].outcome)
        BY <1>1, <3>1, <3>2 DEF CascadeEnded
      <4> QED
        BY <1>1, <1>3, <3>1, <3>2, <4>1, <4>2
    <3>3. CASE i \in 1..(n - 1)
      <4>1. next.tried[i + 1] = run.tried[i + 1]
        BY <1>1, <1>3, <3>3
      <4> QED
        BY <3>1, <3>3, <4>1 DEF RunOK, TriedInOrder
    <3> QED
      BY <1>1, <3>1, <3>2, <3>3
  <2> QED
    BY <2>1, <2>2 DEF TriedInOrder
<1>6. TriedInFull(next, given)
  <2>1. ASSUME NEW s \in run.since, s <= run.at
        PROVE  \E i \in 1..Len(next.tried) : next.tried[i].step = s
    <3>1. CASE s = run.at
      <4>1. n + 1 \in 1..Len(next.tried) /\ next.tried[n + 1].step = s
        BY <1>1, <1>3, <3>1
      <4> QED
        BY <4>1
    <3>2. CASE s # run.at
      <4>1. s < run.at
        BY <1>1, <2>1, <3>2, CascadeAssumption DEF RunRecord, Last
      <4>2. PICK i \in 1..n : run.tried[i].step = s
        BY <1>1, <4>1 DEF RunOK, TriedInFull
      <4> QED
        BY <1>1, <1>3, <4>2
    <3> QED
      BY <3>1, <3>2
  <2>2. CascadeEnded(next) <=> Confident(o)
    BY <1>1, <1>3 DEF CascadeEnded
  <2>3. next.since \subseteq given
    BY <1>2 DEF RunOK, TriedInFull
  <2>4. CASE Confident(o)
    <3>1. next.tried[Len(next.tried)].step = run.at /\ next.at = Last + 1
      BY <1>2, <1>3, <2>4
    <3> QED
      BY <1>2, <2>1, <2>2, <2>3, <2>4, <3>1 DEF TriedInFull
  <2>5. CASE ~Confident(o)
    <3>1. next.at = run.at + 1
      BY <1>2, <2>5
    <3>2. \A s \in run.since : s < next.at => s <= run.at
      BY <1>1, <3>1, CascadeAssumption DEF RunRecord, Last
    <3> QED
      BY <1>2, <2>1, <2>2, <2>3, <2>5, <3>2 DEF TriedInFull
  <2> QED
    BY <2>4, <2>5
<1> QED
  BY <1>2, <1>4, <1>5, <1>6 DEF RunOK

(* A step of the cascade that moves one run to a record that is in order,  *)
(* and leaves the handlers, keeps the invariant.                           *)
LEMMA RunMoves ==
  ASSUME CascadeInv, UNCHANGED handlers, NEW r \in Runner, NEW next,
         RunOK(next, Given), runs' = [runs EXCEPT ![r] = next]
  PROVE  CascadeInv'
<1>1. Given' = Given
  BY DEF Given
<1>2. next \in RunRecord
  BY DEF RunOK
<1>3. runs' \in [Runner -> RunRecord]
  BY <1>2 DEF CascadeInv
<1>4. ASSUME NEW q \in Runner PROVE RunOK(runs'[q], Given')
  <2>1. runs'[q] = IF q = r THEN next ELSE runs[q]
    BY DEF CascadeInv
  <2>2. RunOK(runs[q], Given)
    BY DEF CascadeInv
  <2> QED
    BY <1>1, <2>1, <2>2
<1> QED
  BY <1>3, <1>4 DEF CascadeInv

LEMMA NoRunOK == ASSUME NEW given PROVE RunOK(NoRun, given)
<1>1. NoRun \in RunRecord
  BY DEF NoRun, RunRecord, Last
<1>2. TriedInOrder(NoRun)
  BY DEF NoRun, TriedInOrder
<1>3. TriedInFull(NoRun, given)
  BY DEF NoRun, TriedInFull, CascadeEnded
<1> QED
  BY <1>1, <1>2, <1>3 DEF RunOK, NoRun

LEMMA CascadeStepKeeps == CascadeInv /\ [CascadeNext]_cascadeVars => CascadeInv'
<1> SUFFICES ASSUME CascadeInv, [CascadeNext]_cascadeVars PROVE CascadeInv'
  OBVIOUS
<1>0. \A r \in Runner : RunOK(runs[r], Given) /\ runs[r] \in RunRecord
  BY DEF CascadeInv
<1>1. ASSUME NEW s \in CascadeStep, Register(s) PROVE CascadeInv'
  <2>1. handlers' \in [CascadeStep -> {"none", "builtin", "custom"}] /\ Given \subseteq Given'
    BY <1>1 DEF Register, CascadeInv, Given
  <2>2. ASSUME NEW r \in Runner PROVE RunOK(runs[r], Given')
    BY <1>0, <2>1 DEF RunOK, TriedInFull
  <2> QED
    BY <1>1, <2>1, <2>2 DEF Register, CascadeInv
<1>2. CASE ResetHistory
  BY <1>2 DEF ResetHistory, CascadeInv, Given
<1>3. ASSUME NEW r \in Runner, NEW context \in SUBSET CascadeStep, Run(r, context)
      PROVE  CascadeInv'
  <2> DEFINE next == [NoRun EXCEPT !.at = 1, !.context = context, !.since = Given]
  <2>1. next \in RunRecord
    <3>1. 1 \in 0..(Last + 1) /\ Given \in SUBSET CascadeStep /\ <<>> \in Seq(Tries)
      BY DEF Last, Given
    <3> QED
      BY <3>1 DEF NoRun, RunRecord
  <2>2. TriedInOrder(next) /\ TriedInFull(next, Given)
    <3>1. \A s \in Given : ~(s < 1)
      BY CascadeAssumption DEF Given, Last
    <3> QED
      BY <3>1 DEF NoRun, TriedInOrder, TriedInFull, CascadeEnded
  <2>3. RunOK(next, Given)
    BY <2>1, <2>2 DEF RunOK, NoRun
  <2> QED
    BY <1>3, <2>3, RunMoves DEF Run
<1>4. ASSUME NEW r \in Runner, SkipStep(r) PROVE CascadeInv'
  <2> DEFINE run == runs[r]
             next == [run EXCEPT !.at = @ + 1]
  <2>1. /\ run \in RunRecord /\ run.at \in 1..Last /\ ~run.awaiting /\ run.at \notin Given
        /\ TriedInOrder(run) /\ TriedInFull(run, Given)
    BY <1>0, <1>4 DEF SkipStep, RunOK
  <2>2. /\ next.at = run.at + 1 /\ next.tried = run.tried /\ next.since = run.since
        /\ next.awaiting = FALSE /\ next \in RunRecord
    BY <2>1 DEF RunRecord, Last
  <2>3. TriedInOrder(next)
    <3>1. \A i \in 1..Len(run.tried) : run.tried[i].step \in Nat
      BY <2>1, StepTypes
    <3>2. \A i \in 1..Len(run.tried) : run.tried[i].step < run.at + 1
      BY <2>1, <3>1, SMTT(30) DEF TriedInOrder, Last
    <3> QED
      BY <2>1, <2>2, <3>2 DEF TriedInOrder
  <2>4. TriedInFull(next, Given)
    <3>1. ~CascadeEnded(run) /\ ~CascadeEnded(next)
      <4>1. ~CascadeEnded(run)
        BY <2>1 DEF TriedInFull, Last
      <4> QED
        BY <2>2, <4>1 DEF CascadeEnded
    <3>2. \A s \in run.since : s < run.at + 1 => s < run.at
      <4>1. run.at \notin run.since
        BY <2>1 DEF TriedInFull
      <4> QED
        BY <2>1, <4>1, StepTypes
    <3> QED
      BY <2>1, <2>2, <3>1, <3>2 DEF TriedInFull
  <2>5. RunOK(next, Given)
    BY <2>2, <2>3, <2>4 DEF RunOK
  <2> QED
    BY <1>4, <2>5, RunMoves DEF SkipStep
<1>5. ASSUME NEW r \in Runner, TryBuiltIn(r) PROVE CascadeInv'
  <2>1. runs[r].at \in 1..Last
    BY <1>5, CascadeAssumption DEF TryBuiltIn, Given
  <2> DEFINE o == BuiltIn(runs[r].at, runs[r].context)
  <2>2. o \in Outcomes
    BY <2>1 DEF BuiltIn, Confidence, Outcomes, Last
  <2>3. RunOK(Answered(r, o), Given)
    <3> HIDE DEF o
    <3> QED
      BY <1>0, <2>1, <2>2, AnsweredOK DEF Answered
  <2> QED
    BY <1>5, <2>3, RunMoves DEF TryBuiltIn
<1>6. ASSUME NEW r \in Runner, TryCustom(r) PROVE CascadeInv'
  <2> DEFINE run == runs[r]
             next == [run EXCEPT !.awaiting = TRUE]
  <2>1. run \in RunRecord /\ run.at \in 1..Last /\ TriedInOrder(run) /\ TriedInFull(run, Given)
    BY <1>0, <1>6, CascadeAssumption DEF TryCustom, RunOK, Given
  <2>2. next \in RunRecord /\ next.at = run.at /\ next.tried = run.tried /\ next.since = run.since
    BY <2>1 DEF RunRecord
  <2>3. RunOK(next, Given)
    BY <2>1, <2>2 DEF RunOK, TriedInOrder, TriedInFull, CascadeEnded
  <2> QED
    BY <1>6, <2>3, RunMoves DEF TryCustom
<1>7. ASSUME NEW r \in Runner, CustomReturns(r) \/ CustomRaises(r) PROVE CascadeInv'
  <2>1. PICK o \in Outcomes : runs' = [runs EXCEPT ![r] = Answered(r, o)]
    <3>1. Results \subseteq Outcomes /\ Raised \in Outcomes
      BY DEF Results, Raised, Outcomes, MinConfidence
    <3>2. CASE CustomReturns(r)
      BY <3>1, <3>2 DEF CustomReturns
    <3>3. CASE CustomRaises(r)
      BY <3>1, <3>3 DEF CustomRaises
    <3> QED
      BY <1>7, <3>2, <3>3
  <2>2. runs[r].at \in 1..Last
    BY <1>0, <1>7 DEF CustomReturns, CustomRaises, RunOK
  <2>3. RunOK(Answered(r, o), Given)
    BY <1>0, <2>2, AnsweredOK DEF Answered
  <2> QED
    BY <1>7, <2>1, <2>3, RunMoves DEF CustomReturns, CustomRaises
<1>8. ASSUME NEW r \in Runner, RunReturns(r) PROVE CascadeInv'
  BY <1>8, NoRunOK, RunMoves DEF RunReturns
<1>9. CASE UNCHANGED cascadeVars
  BY <1>9 DEF cascadeVars, CascadeInv, Given
<1> QED
  BY <1>1, <1>2, <1>3, <1>4, <1>5, <1>6, <1>7, <1>8, <1>9 DEF CascadeNext

(* A run takes the cheapest valid recovery of the handlers it began with.  *)
THEOREM CheapestIsTaken == CascadeSpec => []CheapestFirst
<1>1. CascadeInit => CascadeInv
  <2> SUFFICES ASSUME CascadeInit PROVE CascadeInv
    OBVIOUS
  <2>1. handlers \in [CascadeStep -> {"none", "builtin", "custom"}]
    BY DEF CascadeInit
  <2>2. runs = [r \in Runner |-> NoRun] /\ NoRun \in RunRecord
    BY NoRunOK DEF CascadeInit, RunOK
  <2>3. \A r \in Runner : RunOK(runs[r], Given)
    BY <2>2, NoRunOK
  <2> QED
    BY <2>1, <2>2, <2>3 DEF CascadeInv
<1>2. CascadeInv => CheapestFirst
  <2> SUFFICES ASSUME CascadeInv, NEW r \in Runner
               PROVE  LET tried == runs[r].tried
                          ended == tried # <<>> /\ Confident(tried[Len(tried)].outcome)
                          reach == IF ended THEN tried[Len(tried)].step ELSE runs[r].at - 1
                      IN  /\ \A i \in 1..(Len(tried) - 1) :
                                ~Confident(tried[i].outcome) /\ tried[i].step < tried[i + 1].step
                          /\ ended => runs[r].at = Last + 1
                          /\ \A s \in runs[r].since :
                                s <= reach => \E i \in DOMAIN tried : tried[i].step = s
    BY DEF CheapestFirst
  <2>1. /\ runs[r] \in RunRecord /\ TriedInOrder(runs[r]) /\ TriedInFull(runs[r], Given)
    BY DEF CascadeInv, RunOK
  <2>2. DOMAIN runs[r].tried = 1..Len(runs[r].tried)
    BY <2>1, StepTypes
  <2>3. \A s \in runs[r].since : s <= runs[r].at - 1 => s < runs[r].at
    BY <2>1, StepTypes
  <2> QED
    BY <2>1, <2>2, <2>3 DEF TriedInOrder, TriedInFull, CascadeEnded
<1> QED
  BY <1>1, <1>2, CascadeStepKeeps, PTL DEF CascadeSpec

-----------------------------------------------------------------------------
(* Gateway: what a request still holds, by how far its adapters are.       *)

Holding == SUBSET {"driver", "browser", "page"}
Job == [at : {"waiting", "sending", "closing", "done"}, held : Holding, result : Result,
        trouble : BOOLEAN]
RequestRecord ==
  [kind : {"none", "refused", "chat", "parallel", "completion", "stream"},
   names : Seq(Provider \cup {Unknown}), at : {"sending", "streaming", "ended"}]

(* Before its close an adapter holds a browser only with its driver; after *)
(* it, neither, unless there was trouble.                                  *)
JobOK(j) ==
  /\ j \in Job
  /\ j.at \in {"waiting", "sending"} => j.held = {}
  /\ j.at = "closing" => ("browser" \in j.held => "driver" \in j.held)
  /\ j.at = "done" => ({"driver", "browser"} \cap j.held # {} => j.trouble)

(* A request whose answer has begun has no adapter at work, and only a     *)
(* request for several providers has several adapters.                     *)
RequestOK(q, jobs) ==
  /\ q \in RequestRecord /\ jobs \in Seq(Job)
  /\ \A i \in DOMAIN jobs : JobOK(jobs[i])
  /\ q.at # "sending" => \A i \in DOMAIN jobs : jobs[i].at \in {"waiting", "done"}
  /\ q.at = "sending" /\ q.kind = "stream" => DOMAIN jobs = {1}

GatewayInv ==
  /\ request \in [Request -> RequestRecord]
  /\ chatJob \in [Request -> Seq(Job)]
  /\ \A r \in Request : RequestOK(request[r], chatJob[r])

(* Whatever part of it fails, a close releases browser and driver, or says *)
(* that the driver did not stop.                                           *)
LEMMA CloseReleases ==
  ASSUME NEW j, JobOK(j), j.at = "closing", NEW k \in After(j)
  PROVE  JobOK(Done(k)) /\ k \in Job
<1>1. j \in Job /\ ("browser" \in j.held => "driver" \in j.held)
  BY DEF JobOK
<1>2. ASSUME NEW a \in Job, NEW res \in {"driver", "browser", "page"}, NEW b \in Releases(a, res)
      PROVE  /\ b \in Job /\ b.held \subseteq a.held
             /\ res # "driver" => b.held \in {a.held, a.held \ {res}} /\ b.trouble = a.trouble
             /\ res = "driver" => \/ a.held = b.held /\ "driver" \notin b.held
                                  \/ b.held = {} \/ b.trouble
  BY <1>2, ZenonT(30) DEF Releases, Job, Holding
<1>3. PICK a \in Releases(j, "page") : \E b \in Releases(a, "browser") : k \in Releases(b, "driver")
  BY DEF After
<1>4. PICK b \in Releases(a, "browser") : k \in Releases(b, "driver")
  BY <1>3
<1>5. a \in Job /\ a.held \in {j.held, j.held \ {"page"}}
  BY <1>1, <1>2
<1>6. b \in Job /\ b.held \in {a.held, a.held \ {"browser"}}
  BY <1>2, <1>5
<1>7. k \in Job /\ ((b.held = k.held /\ "driver" \notin k.held) \/ k.held = {} \/ k.trouble)
  BY <1>2, <1>4, <1>6
<1>8. {"driver", "browser"} \cap k.held # {} => k.trouble
  BY <1>1, <1>5, <1>6, <1>7
<1>9. Done(k) \in Job /\ Done(k).at = "done" /\ Done(k).held = k.held /\ Done(k).trouble = k.trouble
  BY <1>7 DEF Done, Job
<1> QED
  BY <1>7, <1>8, <1>9 DEF JobOK

(* A step that moves one job of a request that is being answered.          *)
LEMMA JobMoves ==
  ASSUME GatewayInv, NEW r \in Request, NEW i \in DOMAIN chatJob[r], NEW j, JobOK(j),
         request[r].at = "sending", UNCHANGED request, Update(r, i, j)
  PROVE  GatewayInv'
<1> DEFINE jobs == [chatJob[r] EXCEPT ![i] = j]
<1>1. chatJob[r] \in Seq(Job) /\ j \in Job /\ RequestOK(request[r], chatJob[r])
  BY DEF GatewayInv, JobOK
<1>2. /\ jobs \in Seq(Job) /\ DOMAIN jobs = DOMAIN chatJob[r]
      /\ \A k \in DOMAIN jobs : jobs[k] = IF k = i THEN j ELSE chatJob[r][k]
  BY <1>1
<1>3. chatJob' = [chatJob EXCEPT ![r] = jobs]
  BY DEF Update
<1>4. RequestOK(request[r], jobs)
  <2>1. ASSUME NEW k \in DOMAIN jobs PROVE JobOK(jobs[k])
    <3>1. JobOK(chatJob[r][k])
      BY <1>1, <1>2 DEF RequestOK
    <3> QED
      BY <1>2, <3>1
  <2> QED
    BY <1>1, <1>2, <2>1 DEF RequestOK
<1> HIDE DEF jobs
<1>5. ASSUME NEW q \in Request PROVE RequestOK(request'[q], chatJob'[q])
  <2>1. chatJob'[q] = IF q = r THEN jobs ELSE chatJob[q]
    BY <1>3 DEF GatewayInv
  <2>2. RequestOK(request[q], chatJob[q])
    BY DEF GatewayInv
  <2> QED
    BY <1>4, <2>1, <2>2
<1>6. chatJob' \in [Request -> Seq(Job)]
  BY <1>2, <1>3 DEF GatewayInv
<1> QED
  BY <1>5, <1>6 DEF GatewayInv

(* A request whose answer begins or ends, with its adapters at rest.       *)
LEMMA RequestMoves ==
  ASSUME GatewayInv, NEW r \in Request, NEW at \in {"streaming", "ended"},
         \A i \in DOMAIN chatJob[r] : chatJob[r][i].at \in {"waiting", "done"},
         request' = [request EXCEPT ![r].at = at], UNCHANGED chatJob
  PROVE  GatewayInv'
<1> DEFINE q == [request[r] EXCEPT !.at = at]
<1>1. request[r] \in RequestRecord /\ RequestOK(request[r], chatJob[r])
  BY DEF GatewayInv
<1>2. q \in RequestRecord /\ q.at = at /\ at # "sending"
  BY <1>1 DEF RequestRecord
<1>3. RequestOK(q, chatJob[r])
  BY <1>1, <1>2 DEF RequestOK
<1>4. request' = [request EXCEPT ![r] = q]
  BY DEF GatewayInv
<1> HIDE DEF q
<1>5. ASSUME NEW s \in Request PROVE RequestOK(request'[s], chatJob'[s])
  <2>1. request'[s] = IF s = r THEN q ELSE request[s]
    BY <1>4 DEF GatewayInv
  <2>2. RequestOK(request[s], chatJob[s])
    BY DEF GatewayInv
  <2> QED
    BY <1>3, <2>1, <2>2
<1>6. request' \in [Request -> RequestRecord]
  BY <1>2, <1>4 DEF GatewayInv
<1> QED
  BY <1>5, <1>6 DEF GatewayInv

(* A request that ends without its adapters.                               *)
LEMMA FanOutRaisesKeeps ==
  ASSUME GatewayInv, NEW r \in Request, FanOutRaises(r)
  PROVE  GatewayInv'
<1> DEFINE q == Refused
<1>2. q \in RequestRecord /\ q.at = "ended"
  BY DEF RequestRecord, Refused
<1>3. RequestOK(q, <<>>)
  BY <1>2 DEF RequestOK
<1>4. request' = [request EXCEPT ![r] = q] /\ chatJob' = [chatJob EXCEPT ![r] = <<>>]
  BY DEF FanOutRaises, GatewayInv
<1> HIDE DEF q
<1>5. ASSUME NEW s \in Request PROVE RequestOK(request'[s], chatJob'[s])
  <2>1. /\ request'[s] = IF s = r THEN q ELSE request[s]
        /\ chatJob'[s] = IF s = r THEN <<>> ELSE chatJob[s]
    BY <1>4 DEF GatewayInv
  <2>2. RequestOK(request[s], chatJob[s])
    BY DEF GatewayInv
  <2> QED
    BY <1>3, <2>1, <2>2
<1>6. request' \in [Request -> RequestRecord] /\ chatJob' \in [Request -> Seq(Job)]
  BY <1>2, <1>4 DEF GatewayInv
<1> QED
  BY <1>5, <1>6 DEF GatewayInv

(* A request that comes in.                                                *)
LEMMA NewKeeps ==
  ASSUME GatewayInv, NEW r \in Request,
         NEW q \in RequestRecord, q.kind = "stream" => Len(q.names) = 1, New(r, q)
  PROVE  GatewayInv'
<1> DEFINE names == q.names
           jobs == [i \in DOMAIN names |-> NewJob]
<1>1. NewJob \in Job /\ JobOK(NewJob)
  BY DEF NewJob, Job, JobOK, Result, Holding
<1>2. names \in Seq(Provider \cup {Unknown})
  BY DEF RequestRecord
<1>3. jobs \in Seq(Job) /\ \A i \in DOMAIN jobs : jobs[i] = NewJob
  <2> HIDE DEF names
  <2>1. DOMAIN names = 1..Len(names) /\ Len(names) \in Nat
    BY <1>2
  <2> QED
    BY <1>1, <2>1
<1>4. q.at = "sending" /\ q.kind = "stream" => DOMAIN jobs = {1}
  <2>1. DOMAIN names = 1..Len(names)
    BY <1>2
  <2>2. DOMAIN jobs = 1..Len(names)
    BY <2>1
  <2>3. 1..1 = {1}
    OBVIOUS
  <2> QED
    BY <2>2, <2>3
<1>5. RequestOK(q, jobs)
  <2>1. q.at # "sending" => \A i \in DOMAIN jobs : jobs[i].at \in {"waiting", "done"}
    BY <1>3 DEF NewJob
  <2> QED
    BY <1>1, <1>2, <1>3, <1>4, <2>1 DEF RequestOK
<1>6. request' = [request EXCEPT ![r] = q] /\ chatJob' = [chatJob EXCEPT ![r] = jobs]
  BY DEF New
<1> HIDE DEF jobs
<1>7. ASSUME NEW s \in Request PROVE RequestOK(request'[s], chatJob'[s])
  <2>1. /\ request'[s] = IF s = r THEN q ELSE request[s]
        /\ chatJob'[s] = IF s = r THEN jobs ELSE chatJob[s]
    BY <1>6 DEF GatewayInv
  <2>2. RequestOK(request[s], chatJob[s])
    BY DEF GatewayInv
  <2> QED
    BY <1>5, <2>1, <2>2
<1> QED
  BY <1>2, <1>3, <1>6, <1>7 DEF GatewayInv

(* Names of providers make a sequence.                                     *)
LEMMA NamesAreASequence ==
  ASSUME NEW n \in 1..2, NEW names \in [1..n -> Provider \cup {Unknown}]
  PROVE  names \in Seq(Provider \cup {Unknown}) /\ Len(names) = n
<1>1. n \in Nat
  OBVIOUS
<1>2. names \in Seq(Provider \cup {Unknown})
  BY <1>1, SeqDef
<1> QED
  BY <1>1, <1>2

LEMMA DisconnectKeeps ==
  ASSUME GatewayInv, NEW r \in Request, Disconnect(r)
  PROVE  GatewayInv'
<1> DEFINE j == chatJob[r][1]
<1>1. /\ request[r].at = "sending" /\ DOMAIN chatJob[r] = {1} /\ JobOK(j) /\ j \in Job
      /\ request[r] \in RequestRecord
  BY DEF Disconnect, GatewayInv, RequestOK, JobOK
<1>2. CASE j.at = "waiting" /\ request' = [request EXCEPT ![r].at = "ended"] /\ UNCHANGED chatJob
  BY <1>1, <1>2, RequestMoves
<1>3. ASSUME NEW held \in Holdings, j.at = "sending", UNCHANGED request,
             Update(r, 1, [j EXCEPT !.at = "closing", !.held = held, !.result = "error"])
      PROVE  GatewayInv'
  <2>1. JobOK([j EXCEPT !.at = "closing", !.held = held, !.result = "error"])
    <3>1. held \in Holding /\ ("browser" \in held => "driver" \in held)
      BY DEF Holdings, Holding, Acquired, Depth
    <3> QED
      BY <1>1, <3>1 DEF JobOK, Job, Result
  <2> QED
    BY <1>1, <1>3, <2>1, JobMoves
<1>4. ASSUME NEW k \in 0..Depth, j.at = "closing", UNCHANGED request,
             Update(r, 1, Done([j EXCEPT !.held = @ \cap {Acquired[i] : i \in 1..k},
                                         !.result = "error", !.trouble = TRUE]))
      PROVE  GatewayInv'
  <2> DEFINE held == j.held \cap {Acquired[i] : i \in 1..k}
  <2>1. held \in Holding
    BY <1>1 DEF Job, Holding
  <2> HIDE DEF held
  <2>2. JobOK(Done([j EXCEPT !.held = held, !.result = "error", !.trouble = TRUE]))
    BY <1>1, <2>1 DEF JobOK, Done, Job, Result
  <2>3. Update(r, 1, Done([j EXCEPT !.held = held, !.result = "error", !.trouble = TRUE]))
    BY <1>4 DEF held
  <2> QED
    BY <1>1, <1>4, <2>2, <2>3, JobMoves
<1> QED
  BY <1>2, <1>3, <1>4 DEF Disconnect

LEMMA GatewayStep == GatewayInv /\ [GatewayNext]_gatewayVars => GatewayInv'
<1> SUFFICES ASSUME GatewayInv, [GatewayNext]_gatewayVars PROVE GatewayInv'
  OBVIOUS
<1>0. \A r \in Request : /\ RequestOK(request[r], chatJob[r]) /\ request[r] \in RequestRecord
                         /\ \A i \in DOMAIN chatJob[r] : JobOK(chatJob[r][i])
  BY DEF GatewayInv, RequestOK
<1>1. ASSUME NEW r \in Request, NEW n \in 1..2, NEW names \in [1..n -> Provider \cup {Unknown}],
             NEW b \in BOOLEAN, Chat(r, names, b)
      PROVE  GatewayInv'
  <2> DEFINE kind == IF b /\ Len(names) > 1 THEN "parallel" ELSE "chat"
             q == [kind |-> kind, names |-> names, at |-> "sending"]
  <2>1. Refused \in RequestRecord /\ Refused.kind # "stream"
    BY DEF Refused, RequestRecord
  <2>2. q \in RequestRecord /\ q.kind # "stream"
    BY <1>1, NamesAreASequence DEF RequestRecord
  <2>3. New(r, Refused) \/ New(r, q)
    BY <1>1 DEF Chat
  <2> HIDE DEF q
  <2> QED
    BY <2>1, <2>2, <2>3, NewKeeps
<1>2. ASSUME NEW r \in Request, NEW p \in Provider \cup {Unknown}, NEW b \in BOOLEAN,
             Completion(r, p, b)
      PROVE  GatewayInv'
  <2> DEFINE kind == IF b THEN "stream" ELSE "completion"
             q == [kind |-> kind, names |-> <<p>>, at |-> "sending"]
  <2>1. Refused \in RequestRecord /\ Refused.kind # "stream"
    BY DEF Refused, RequestRecord
  <2>2. q \in RequestRecord /\ Len(q.names) = 1
    <3>1. <<p>> \in Seq(Provider \cup {Unknown}) /\ Len(<<p>>) = 1
      OBVIOUS
    <3> QED
      BY <3>1 DEF RequestRecord
  <2>3. New(r, Refused) \/ New(r, q)
    BY <1>2 DEF Completion
  <2> HIDE DEF q
  <2> QED
    BY <2>1, <2>2, <2>3, NewKeeps
<1>3. ASSUME NEW r \in Request, Disconnect(r) PROVE GatewayInv'
  BY <1>3, DisconnectKeeps
<1>4. ASSUME NEW r \in Request, NEW i \in DOMAIN chatJob[r], StartSend(r, i) PROVE GatewayInv'
  <2>1. JobOK([chatJob[r][i] EXCEPT !.at = "sending"])
    BY <1>0, <1>4 DEF StartSend, JobOK, Job
  <2> QED
    BY <1>4, <2>1, JobMoves DEF StartSend, Turn
<1>5. ASSUME NEW r \in Request, NEW i \in DOMAIN chatJob[r],
             SendReturns(r, i) \/ CloseAdapter(r, i)
      PROVE  GatewayInv'
  <2> DEFINE j == chatJob[r][i]
  <2>1. JobOK(j) /\ j \in Job /\ request[r].at = "sending"
    BY <1>0, <1>5 DEF SendReturns, CloseAdapter, RequestOK, JobOK, RequestRecord
  <2>2. ASSUME NEW held \in Holdings, NEW result \in Result, UNCHANGED request,
               Update(r, i, [j EXCEPT !.at = "closing", !.held = held, !.result = result])
        PROVE  GatewayInv'
    <3>1. held \in Holding /\ ("browser" \in held => "driver" \in held)
      BY DEF Holdings, Holding, Acquired, Depth
    <3>2. JobOK([j EXCEPT !.at = "closing", !.held = held, !.result = result])
      BY <2>1, <3>1 DEF JobOK, Job
    <3> QED
      BY <2>1, <2>2, <3>2, JobMoves
  <2>3. CASE CloseAdapter(r, i)
    <3>1. PICK k \in After(j) : Update(r, i, Done(k))
      BY <2>3 DEF CloseAdapter
    <3>2. JobOK(Done(k))
      BY <2>1, <2>3, CloseReleases DEF CloseAdapter
    <3> QED
      BY <2>1, <2>3, <3>1, <3>2, JobMoves DEF CloseAdapter
  <2>4. CASE SendReturns(r, i)
    <3>1. PICK held \in Holdings : \E result \in ResultsOf(r, held) :
            Update(r, i, [j EXCEPT !.at = "closing", !.held = held, !.result = result])
      BY <2>4 DEF SendReturns
    <3>2. ResultsOf(r, held) \subseteq Result
      BY DEF ResultsOf, Result
    <3> QED
      BY <2>2, <2>4, <3>1, <3>2 DEF SendReturns
  <2> QED
    BY <1>5, <2>3, <2>4
<1>6. ASSUME NEW r \in Request, AnswerChat(r) PROVE GatewayInv'
  BY <1>6, RequestMoves DEF AnswerChat, AllDone
<1>7. ASSUME NEW r \in Request, AnswerCompletion(r) PROVE GatewayInv'
  <2>1. PICK at \in {"streaming", "ended"} : request' = [request EXCEPT ![r].at = at]
    BY <1>7 DEF AnswerCompletion
  <2> QED
    BY <1>7, <2>1, RequestMoves DEF AnswerCompletion, AllDone
<1>8. ASSUME NEW r \in Request, EndStream(r) PROVE GatewayInv'
  <2>1. \A i \in DOMAIN chatJob[r] : chatJob[r][i].at \in {"waiting", "done"}
    BY <1>0, <1>8 DEF EndStream, RequestOK
  <2> QED
    BY <1>8, <2>1, RequestMoves DEF EndStream
<1>9. ASSUME NEW r \in Request, FanOutRaises(r) PROVE GatewayInv'
  BY <1>9, FanOutRaisesKeeps
<1>10. CASE UNCHANGED gatewayVars
  BY <1>10 DEF gatewayVars, GatewayInv
<1> QED
  BY <1>1, <1>2, <1>3, <1>4, <1>5, <1>6, <1>7, <1>8, <1>9, <1>10 DEF GatewayNext, RequestStep

(* No browser or driver an adapter started for itself outlives its request. *)
THEOREM NothingOutlivesItsRequest == GatewaySpec => []BrowsersAreClosed
<1>1. GatewayInit => GatewayInv
  <2>1. NoRequest \in RequestRecord /\ RequestOK(NoRequest, <<>>)
    BY DEF NoRequest, RequestRecord, RequestOK
  <2> QED
    BY <2>1 DEF GatewayInit, GatewayInv
<1>2. GatewayInv => BrowsersAreClosed
  BY DEF GatewayInv, RequestOK, JobOK, BrowsersAreClosed, Ended
<1> QED
  BY <1>1, <1>2, GatewayStep, PTL DEF GatewaySpec

(* What holds at 0 and is handed on from one number to the next holds up   *)
(* to n.                                                                   *)
LEMMA CountsUp ==
  ASSUME NEW n \in Nat, NEW Good, 0 \in Good,
         \A m \in 0 .. n : m < n /\ m \in Good => m + 1 \in Good
  PROVE  \A m \in 0 .. n : m \in Good
  <1> DEFINE Bad == {i \in 1 .. n + 1 : n + 1 - i \notin Good}
             i == LastOf(Bad)
  <1> SUFFICES ASSUME NEW m \in 0 .. n, m \notin Good PROVE FALSE
    OBVIOUS
  <1>1. n + 1 - m \in Bad
    <2>1. n + 1 - (n + 1 - m) = m /\ n + 1 - m \in 1 .. n + 1
      OBVIOUS
    <2> QED
      BY <2>1
  <1>2. i \in Bad /\ \A j \in Bad : j <= i
    <2>1. Bad \in SUBSET (1 .. n + 1)
      OBVIOUS
    <2> HIDE DEF Bad
    <2>2. Bad # {} /\ n + 1 \in Nat
      BY <1>1
    <2> QED
      BY <2>1, <2>2, LastExists
  <1> HIDE DEF i
  <1>3. n + 1 - i \in 0 .. n /\ n + 1 - i # 0
    BY <1>2
  <1>4. (n - i) \in 0 .. n /\ n - i < n /\ (n - i) + 1 = n + 1 - i
    BY <1>2, <1>3
  <1>5. n - i \notin Good
    BY <1>2, <1>4
  <1>6. i + 1 \in Bad
    BY <1>2, <1>3, <1>5
  <1> QED
    BY <1>2, <1>6

(* The counters as they are after each of the jobs is recorded.            *)
RecordsInTurn(after, h, names, jobs) ==
  /\ after[0] = h
  /\ \A n \in 1..Len(jobs) :
       after[n] = [after[n - 1] EXCEPT ![names[n]] = Reported(@, jobs[n].result)]
  /\ RecordAll(h, names, jobs) = after[Len(jobs)]

(* The recursion of RecordAll is well founded.                             *)
LEMMA RecordAllIs ==
  ASSUME NEW h, NEW names, NEW jobs, Len(jobs) \in Nat
  PROVE  \E after : RecordsInTurn(after, h, names, jobs)
  <1> DEFINE L == Len(jobs)
             Record(o, n) == [o EXCEPT ![names[n]] = Reported(@, jobs[n].result)]
             Solves(f, m) == f = [n \in 0 .. m |-> IF n = 0 THEN h ELSE Record(f[n - 1], n)]
             Good == {m \in 0 .. L : \E f : Solves(f, m)}
  <1> L \in Nat
    OBVIOUS
  <1> HIDE DEF L
  <1>1. 0 \in Good
    <2>1. \E f : Solves(f, 0)
      <3>1. Solves([n \in 0 .. 0 |-> h], 0)
        <4> HIDE DEF Record
        <4> QED
          OBVIOUS
      <3> HIDE DEF Solves
      <3> QED
        BY <3>1, Zenon
    <2> HIDE DEF Solves
    <2> QED
      BY <2>1
  <1>2. ASSUME NEW m \in 0 .. L, m < L, m \in Good
        PROVE  m + 1 \in Good
    <2>1. PICK f : Solves(f, m)
      BY <1>2
    <2> DEFINE g == [n \in 0 .. m + 1 |-> IF n = m + 1 THEN Record(f[m], m + 1) ELSE f[n]]
    <2> HIDE DEF Record
    <2>2. ASSUME NEW n \in 0 .. m + 1 PROVE g[n] = IF n = 0 THEN h ELSE Record(g[n - 1], n)
      <3>1. CASE n = 0
        BY <2>1, <3>1
      <3>2. CASE n # 0 /\ n < m + 1
        <4>1. n \in 0 .. m /\ n - 1 \in 0 .. m /\ n # m + 1 /\ n - 1 # m + 1
          BY <3>2
        <4>2. g[n] = f[n] /\ g[n - 1] = f[n - 1]
          BY <4>1
        <4>3. f[n] = Record(f[n - 1], n)
          BY <2>1, <4>1, <3>2
        <4> QED
          BY <4>2, <4>3, <3>2
      <3>3. CASE n = m + 1
        <4>1. g[n] = Record(f[m], n) /\ n # 0 /\ n - 1 = m /\ m \in 0 .. m + 1 /\ m # m + 1
          BY <3>3
        <4>2. g[m] = f[m]
          BY <4>1
        <4> QED
          BY <4>1, <4>2
      <3> QED
        BY <3>1, <3>2, <3>3
    <2>3. Solves(g, m + 1)
      BY <2>2
    <2> HIDE DEF Solves, g
    <2>4. \E k : Solves(k, m + 1)
      BY <2>3, Zenon
    <2> QED
      BY <1>2, <2>4
  <1>3. L \in Good
    <2> HIDE DEF Good
    <2>1. \A m \in 0 .. L : m \in Good
      BY <1>1, <1>2, CountsUp
    <2> QED
      BY <2>1
  <1> DEFINE Eq(k) == k = [n \in 0 .. L |->
                IF n = 0 THEN h
                ELSE [k[n - 1] EXCEPT ![names[n]] = Reported(@, jobs[n].result)]]
             a == CHOOSE k : Eq(k)
  <1>4. Eq(a)
    <2>1. PICK f : Solves(f, L)
      BY <1>3
    <2>2. Eq(f)
      BY <2>1, Zenon
    <2> HIDE DEF Eq
    <2> QED
      BY <2>2, Zenon
  <1>5. RecordAll(h, names, jobs) = a[L]
    BY Zenon DEF RecordAll, L
  <1>6. a = [n \in 0 .. L |-> IF n = 0 THEN h ELSE Record(a[n - 1], n)]
    BY <1>4, Zenon
  <1> HIDE DEF a, Record
  <1>7. a[0] = h /\ \A n \in 1 .. L : a[n] = Record(a[n - 1], n)
    <2>1. \A n \in 0 .. L : a[n] = IF n = 0 THEN h ELSE Record(a[n - 1], n)
      BY <1>6, Zenon
    <2> QED
      BY <2>1
  <1>8. RecordsInTurn(a, h, names, jobs)
    BY <1>5, <1>7, Zenon DEF L, Record, RecordsInTurn
  <1> QED
    BY <1>8, Zenon

(* The counters of a provider whose answers number N[R] for each set R of  *)
(* results.                                                                *)
Counted(N) ==
  [success |-> N[{"ok"}], failure |-> N[Result \ {"ok"}], authOk |-> N[{"ok"}],
   authFailed |-> N[{"auth error"}], captcha |-> N[{"cloudflare"}]]

Counters == [success : Nat, failure : Nat, authOk : Nat, authFailed : Nat, captcha : Nat]

LEMMA OneMoreIsReported ==
  ASSUME NEW N \in [SUBSET Result -> Nat], NEW res \in Result, NEW M,
         \A R \in SUBSET Result : M[R] = IF res \in R THEN N[R] + 1 ELSE N[R]
  PROVE  Reported(Counted(N), res) = Counted(M)
<1>1. /\ {"ok"} \in SUBSET Result /\ Result \ {"ok"} \in SUBSET Result
      /\ {"auth error"} \in SUBSET Result /\ {"cloudflare"} \in SUBSET Result
  BY DEF Result
<1>2. res \in {"ok", "error", "auth error", "cloudflare"}
  BY DEF Result
<1>3. /\ M[{"ok"}] = IF res = "ok" THEN N[{"ok"}] + 1 ELSE N[{"ok"}]
      /\ M[Result \ {"ok"}] = IF res = "ok" THEN N[Result \ {"ok"}] ELSE N[Result \ {"ok"}] + 1
      /\ M[{"auth error"}] = IF res = "auth error" THEN N[{"auth error"}] + 1 ELSE N[{"auth error"}]
      /\ M[{"cloudflare"}] = IF res = "cloudflare" THEN N[{"cloudflare"}] + 1 ELSE N[{"cloudflare"}]
  BY <1>1
<1> DEFINE c == Counted(N)
<1>4. /\ c \in Counters
      /\ c.success = N[{"ok"}] /\ c.failure = N[Result \ {"ok"}] /\ c.authOk = N[{"ok"}]
      /\ c.authFailed = N[{"auth error"}] /\ c.captcha = N[{"cloudflare"}]
  BY <1>1 DEF Counted, Counters
<1> HIDE DEF c
<1> DEFINE d ==
        [success |-> IF res = "ok" THEN c.success + 1 ELSE c.success,
         failure |-> IF res = "ok" THEN c.failure ELSE c.failure + 1,
         authOk |-> IF res = "ok" THEN c.authOk + 1 ELSE c.authOk,
         authFailed |-> IF res = "auth error" THEN c.authFailed + 1 ELSE c.authFailed,
         captcha |-> IF res = "cloudflare" THEN c.captcha + 1 ELSE c.captcha]
<1>5. Reported(c, res) = d
  <2>1. CASE res = "ok"
    BY <1>4, <2>1 DEF Reported, Counters
  <2>2. CASE res = "error"
    BY <1>4, <2>2 DEF Reported, Counters
  <2>3. CASE res = "auth error"
    BY <1>4, <2>3 DEF Reported, Counters
  <2>4. CASE res = "cloudflare"
    BY <1>4, <2>4 DEF Reported, Counters
  <2> QED
    BY <1>2, <2>1, <2>2, <2>3, <2>4
<1>6. Counted(M) = d
  BY <1>2, <1>3, <1>4 DEF Counted
<1> HIDE DEF d
<1>7. Reported(c, res) = Counted(M)
  BY <1>5, <1>6
<1> QED
  BY <1>7 DEF c

(* The answers of finished chats that say something of p in R, and those   *)
(* of request r among its first n.                                         *)
PairsOf(p, R) ==
  UNION {{<<r, i>> : i \in {k \in DOMAIN chatJob[r] :
      request[r].names[k] = p /\ chatJob[r][k].result \in R}} :
      r \in {q \in Request : Ended(q) /\ request[q].kind \in {"chat", "parallel"}}}
Scored(r, n, p, R) ==
  {<<r, i>> : i \in {k \in 1..n : request[r].names[k] = p /\ chatJob[r][k].result \in R}}

(* A finished chat is never looked at again: its answers stay counted.     *)
HealthInv ==
  /\ GatewayInv
  /\ \A r \in Request : request[r].at = "streaming" => request[r].kind \in {"completion", "stream"}
  /\ health = [p \in Provider |-> health[p]]
  /\ \A p \in Provider : \A R \in SUBSET Result : IsFiniteSet(PairsOf(p, R))
  /\ HealthIsTheProvidersOwn

(* A step after which the same chats are finished, with the same jobs,     *)
(* counts what was counted before.                                         *)
LEMMA CountsStay ==
  ASSUME UNCHANGED health,
         \A r \in Request :
           LET counted == Ended(r) /\ request[r].kind \in {"chat", "parallel"} /\ chatJob[r] # <<>>
           IN  /\ counted' <=> counted
               /\ counted => request'[r] = request[r] /\ chatJob'[r] = chatJob[r]
  PROVE  /\ \A p, R : PairsOf(p, R)' = PairsOf(p, R) /\ Answers(p, R)' = Answers(p, R)
         /\ HealthIsTheProvidersOwn' <=> HealthIsTheProvidersOwn
<1>1. ASSUME NEW p, NEW R PROVE PairsOf(p, R)' = PairsOf(p, R)
  <2>1. ASSUME NEW x PROVE x \in PairsOf(p, R) <=>
          \E r \in Request : /\ Ended(r) /\ request[r].kind \in {"chat", "parallel"} /\ chatJob[r] # <<>>
                            /\ \E i \in DOMAIN chatJob[r] :
                                 /\ x = <<r, i>> /\ request[r].names[i] = p
                                 /\ chatJob[r][i].result \in R
    BY DEF PairsOf
  <2>2. ASSUME NEW x PROVE x \in PairsOf(p, R)' <=>
          \E r \in Request : /\ Ended(r)' /\ request'[r].kind \in {"chat", "parallel"} /\ chatJob'[r] # <<>>
                            /\ \E i \in DOMAIN chatJob'[r] :
                                 /\ x = <<r, i>> /\ request'[r].names[i] = p
                                 /\ chatJob'[r][i].result \in R
    BY DEF PairsOf
  <2> QED
    BY <2>1, <2>2
<1>2. ASSUME NEW p, NEW R PROVE Answers(p, R)' = Answers(p, R)
  <2>1. Answers(p, R) = Cardinality(PairsOf(p, R))
    BY Zenon DEF Answers, PairsOf
  <2>2. Answers(p, R)' = Cardinality(PairsOf(p, R)')
    BY Zenon DEF Answers, PairsOf
  <2> QED
    BY <1>1, <2>1, <2>2
<1> QED
  BY <1>1, <1>2 DEF HealthIsTheProvidersOwn
(* The answers counted when the first n of a finishing chat are recorded.  *)
Tally(r, n, p, R) == PairsOf(p, R) \cup Scored(r, n, p, R)

LEMMA TallyGrows ==
  ASSUME NEW r \in Request, request[r].at = "sending", NEW n \in Nat, NEW p, NEW R,
         IsFiniteSet(Tally(r, n, p, R))
  PROVE  /\ IsFiniteSet(Tally(r, n + 1, p, R))
         /\ Cardinality(Tally(r, n, p, R)) \in Nat
         /\ Cardinality(Tally(r, n + 1, p, R)) =
              IF request[r].names[n + 1] = p /\ chatJob[r][n + 1].result \in R
              THEN Cardinality(Tally(r, n, p, R)) + 1 ELSE Cardinality(Tally(r, n, p, R))
<1> DEFINE here == request[r].names[n + 1] = p /\ chatJob[r][n + 1].result \in R
<1>1. <<r, n + 1>> \notin Tally(r, n, p, R)
  <2>1. <<r, n + 1>> \notin PairsOf(p, R)
    BY DEF PairsOf, Ended
  <2>2. <<r, n + 1>> \notin Scored(r, n, p, R)
    BY DEF Scored
  <2> QED
    BY <2>1, <2>2 DEF Tally
<1>2. Scored(r, n + 1, p, R) = IF here THEN Scored(r, n, p, R) \cup {<<r, n + 1>>}
                                       ELSE Scored(r, n, p, R)
  <2>1. 1 .. n + 1 = (1 .. n) \cup {n + 1}
    OBVIOUS
  <2> QED
    BY <2>1 DEF Scored
<1>3. Tally(r, n + 1, p, R) = IF here THEN Tally(r, n, p, R) \cup {<<r, n + 1>>} ELSE Tally(r, n, p, R)
  <2> HIDE DEF here
  <2> QED
    BY <1>2 DEF Tally
<1> HIDE DEF here
<1>4. Cardinality(Tally(r, n, p, R)) \in Nat
  BY FS_CardinalityType
<1>5. CASE here
  <2>1. /\ IsFiniteSet(Tally(r, n, p, R) \cup {<<r, n + 1>>})
        /\ Cardinality(Tally(r, n, p, R) \cup {<<r, n + 1>>}) = Cardinality(Tally(r, n, p, R)) + 1
    BY <1>1, FS_AddElement
  <2> QED
    BY <1>3, <1>4, <1>5, <2>1 DEF here
<1>6. CASE ~here
  BY <1>3, <1>4, <1>6 DEF here
<1> QED
  BY <1>5, <1>6

(* The answers of a chat are recorded when it finishes, each once.         *)
LEMMA RecordingCounts ==
  ASSUME HealthInv, NEW r \in Request, AnswerChat(r)
  PROVE  HealthInv'
<1> DEFINE names == request[r].names
           jobs == chatJob[r]
           L == Len(jobs)
<1>1. /\ jobs \in Seq(Job) /\ L \in Nat /\ DOMAIN jobs = 1 .. L /\ request[r].at = "sending"
      /\ \A n \in 1 .. L : jobs[n].result \in Result
  <2>1. jobs \in Seq(Job) /\ request[r].at = "sending"
    BY DEF HealthInv, GatewayInv, AnswerChat
  <2> HIDE DEF jobs
  <2>2. L \in Nat /\ DOMAIN jobs = 1 .. L
    BY <2>1
  <2>3. \A n \in 1 .. L : jobs[n] \in Job
    BY <2>1
  <2> QED
    BY <2>1, <2>2, <2>3 DEF Job
<1> HIDE DEF names, jobs, L
<1>2. PICK after : RecordsInTurn(after, health, names, jobs)
  BY <1>1, RecordAllIs DEF L
<1>0. /\ after[0] = health
      /\ \A n \in 1 .. L :
           after[n] = [after[n - 1] EXCEPT ![names[n]] = Reported(@, jobs[n].result)]
      /\ RecordAll(health, names, jobs) = after[L]
  BY <1>2, Zenon DEF RecordsInTurn, L
<1> DEFINE Num(n, p) == [R \in SUBSET Result |-> Cardinality(Tally(r, n, p, R))]
           Recorded(n) ==
             /\ after[n] = [p \in Provider |-> after[n][p]]
             /\ \A p \in Provider :
                  /\ after[n][p] = Counted(Num(n, p))
                  /\ \A R \in SUBSET Result : IsFiniteSet(Tally(r, n, p, R))
           Good == {n \in 0 .. L : Recorded(n)}
<1>3. 0 \in Good
  <2>1. ASSUME NEW p, NEW R PROVE Tally(r, 0, p, R) = PairsOf(p, R)
    <3>1. Scored(r, 0, p, R) = {}
      BY DEF Scored
    <3> QED
      BY <3>1 DEF Tally
  <2>2. ASSUME NEW p \in Provider, NEW R \in SUBSET Result
        PROVE  /\ IsFiniteSet(Tally(r, 0, p, R))
               /\ Num(0, p)[R] = Answers(p, R)
    <3>1. Answers(p, R) = Cardinality(PairsOf(p, R))
      BY Zenon DEF Answers, PairsOf
    <3> QED
      BY <2>1, <3>1 DEF HealthInv
  <2>3. ASSUME NEW p \in Provider PROVE health[p] = Counted(Num(0, p))
    <3>1. /\ {"ok"} \in SUBSET Result /\ Result \ {"ok"} \in SUBSET Result
          /\ {"auth error"} \in SUBSET Result /\ {"cloudflare"} \in SUBSET Result
      BY DEF Result
    <3> HIDE DEF Num
    <3> QED
      BY <2>2, <3>1 DEF HealthInv, HealthIsTheProvidersOwn, Counted
  <2>4. health = [p \in Provider |-> health[p]]
    BY DEF HealthInv
  <2>5. Recorded(0)
    <3> HIDE DEF Num
    <3> QED
      BY <1>0, <2>2, <2>3, <2>4
  <2> HIDE DEF Recorded
  <2> QED
    BY <1>1, <2>5
<1>4. ASSUME NEW m \in 0 .. L, m < L, m \in Good PROVE m + 1 \in Good
  <2>0. m \in Nat /\ m + 1 \in 1 .. L /\ m + 1 \in 0 .. L /\ (m + 1) - 1 = m
    BY <1>1, <1>4
  <2>1. Recorded(m)
    <3> HIDE DEF Recorded
    <3> QED
      BY <1>4
  <2>2. after[m + 1] = [after[m] EXCEPT ![names[m + 1]] = Reported(@, jobs[m + 1].result)]
    BY <1>0, <2>0
  <2>3. /\ after[m + 1] = [p \in Provider |-> after[m + 1][p]]
        /\ \A p \in Provider :
             after[m + 1][p] = IF p = names[m + 1] THEN Reported(after[m][p], jobs[m + 1].result)
                               ELSE after[m][p]
    <3> HIDE DEF Num
    <3> QED
      BY <2>1, <2>2
  <2>4. ASSUME NEW p \in Provider, NEW R \in SUBSET Result
        PROVE  /\ IsFiniteSet(Tally(r, m + 1, p, R))
               /\ Cardinality(Tally(r, m, p, R)) \in Nat
               /\ Cardinality(Tally(r, m + 1, p, R)) =
                    IF names[m + 1] = p /\ jobs[m + 1].result \in R
                    THEN Cardinality(Tally(r, m, p, R)) + 1 ELSE Cardinality(Tally(r, m, p, R))
    <3>1. IsFiniteSet(Tally(r, m, p, R))
      BY <2>1
    <3> QED
      BY <1>1, <2>0, <3>1, TallyGrows DEF names, jobs
  <2>5. ASSUME NEW p \in Provider PROVE after[m + 1][p] = Counted(Num(m + 1, p))
    <3>1. after[m][p] = Counted(Num(m, p)) /\ Num(m, p) \in [SUBSET Result -> Nat]
      BY <2>1, <2>4
    <3>2. /\ \A R \in SUBSET Result : Num(m, p)[R] = Cardinality(Tally(r, m, p, R))
          /\ \A R \in SUBSET Result : Num(m + 1, p)[R] = Cardinality(Tally(r, m + 1, p, R))
      OBVIOUS
    <3>3. jobs[m + 1].result \in Result
      BY <1>1, <2>0
    <3> HIDE DEF Num
    <3>4. CASE p = names[m + 1]
      <4>1. \A R \in SUBSET Result : Num(m + 1, p)[R] =
              IF jobs[m + 1].result \in R THEN Num(m, p)[R] + 1 ELSE Num(m, p)[R]
        BY <2>4, <3>2, <3>4
      <4>2. Reported(Counted(Num(m, p)), jobs[m + 1].result) = Counted(Num(m + 1, p))
        <5> DEFINE N == Num(m, p)
                   M == Num(m + 1, p)
                   res == jobs[m + 1].result
        <5>1. /\ N \in [SUBSET Result -> Nat] /\ res \in Result
              /\ \A R \in SUBSET Result : M[R] = IF res \in R THEN N[R] + 1 ELSE N[R]
          BY <3>1, <3>3, <4>1
        <5> HIDE DEF N, M, res
        <5>2. Reported(Counted(N), res) = Counted(M)
          BY <5>1, OneMoreIsReported, ZenonT(30)
        <5> QED
          BY <5>2 DEF N, M, res
      <4> QED
        BY <2>3, <3>1, <3>4, <4>2
    <3>5. CASE p # names[m + 1]
      <4>1. \A R \in SUBSET Result : Num(m + 1, p)[R] = Num(m, p)[R]
        BY <2>4, <3>2, <3>5
      <4>2. /\ {"ok"} \in SUBSET Result /\ Result \ {"ok"} \in SUBSET Result
            /\ {"auth error"} \in SUBSET Result /\ {"cloudflare"} \in SUBSET Result
        BY DEF Result
      <4>3. Counted(Num(m + 1, p)) = Counted(Num(m, p))
        BY <4>1, <4>2 DEF Counted
      <4> QED
        BY <2>3, <3>1, <3>5, <4>3
    <3> QED
      BY <3>4, <3>5
  <2>6. Recorded(m + 1)
    <3> HIDE DEF Num
    <3> QED
      BY <2>3, <2>4, <2>5
  <2> HIDE DEF Recorded
  <2> QED
    BY <2>0, <2>6
<1>5. Recorded(L)
  <2>1. \A n \in 0 .. L : n \in Good
    <3> HIDE DEF Good
    <3> QED
      BY <1>1, <1>3, <1>4, CountsUp
  <2> HIDE DEF Recorded
  <2> QED
    BY <1>1, <2>1
<1>6. ASSUME NEW p, NEW R PROVE PairsOf(p, R)' = Tally(r, L, p, R)
  <2>1. ASSUME NEW q \in Request
        PROVE  /\ request'[q].kind = request[q].kind /\ request'[q].names = request[q].names
               /\ request'[q].at = IF q = r THEN "ended" ELSE request[q].at
    BY DEF AnswerChat, HealthInv, GatewayInv, RequestRecord
  <2>2. chatJob' = chatJob /\ request[r].kind \in {"chat", "parallel"}
    BY DEF AnswerChat
  <2>3. ASSUME NEW x PROVE x \in PairsOf(p, R)' <=>
          \E q \in Request : /\ request'[q].at = "ended" /\ request'[q].kind \in {"chat", "parallel"}
                            /\ \E i \in DOMAIN chatJob[q] :
                                 /\ x = <<q, i>> /\ request'[q].names[i] = p
                                 /\ chatJob[q][i].result \in R
    BY <2>2 DEF PairsOf, Ended
  <2>4. ASSUME NEW x PROVE x \in PairsOf(p, R) <=>
          \E q \in Request : /\ request[q].at = "ended" /\ request[q].kind \in {"chat", "parallel"}
                            /\ \E i \in DOMAIN chatJob[q] :
                                 /\ x = <<q, i>> /\ request[q].names[i] = p
                                 /\ chatJob[q][i].result \in R
    BY DEF PairsOf, Ended
  <2>5. ASSUME NEW x PROVE x \in Scored(r, L, p, R) <=>
          \E i \in DOMAIN chatJob[r] : x = <<r, i>> /\ request[r].names[i] = p /\ chatJob[r][i].result \in R
    BY <1>1 DEF Scored, jobs
  <2>6. ASSUME NEW x PROVE x \in PairsOf(p, R)' <=> x \in PairsOf(p, R) \/ x \in Scored(r, L, p, R)
    BY <1>1, <2>1, <2>2, <2>3, <2>4, <2>5
  <2> QED
    BY <2>6 DEF Tally
<1>7. health' = after[L]
  BY <1>0 DEF AnswerChat, names, jobs
<1>8. GatewayInv'
  BY RequestMoves DEF AnswerChat, AllDone, HealthInv
<1>9. health' = [p \in Provider |-> health'[p]]
  <2> HIDE DEF Num
  <2> QED
    BY <1>5, <1>7
<1>10. \A p \in Provider : \A R \in SUBSET Result : IsFiniteSet(PairsOf(p, R)')
  <2> HIDE DEF Num
  <2> QED
    BY <1>5, <1>6
<1>11. ASSUME NEW p \in Provider
       PROVE  health'[p] = [success |-> Answers(p, {"ok"})', failure |-> Answers(p, Result \ {"ok"})',
                            authOk |-> Answers(p, {"ok"})', authFailed |-> Answers(p, {"auth error"})',
                            captcha |-> Answers(p, {"cloudflare"})']
  <2>1. /\ {"ok"} \in SUBSET Result /\ Result \ {"ok"} \in SUBSET Result
        /\ {"auth error"} \in SUBSET Result /\ {"cloudflare"} \in SUBSET Result
    BY DEF Result
  <2>2. ASSUME NEW R \in SUBSET Result PROVE Answers(p, R)' = Num(L, p)[R]
    <3>1. Answers(p, R)' = Cardinality(PairsOf(p, R)')
      BY Zenon DEF Answers, PairsOf
    <3> QED
      BY <1>6, <3>1
  <2>3. health'[p] = Counted(Num(L, p))
    <3> HIDE DEF Num
    <3> QED
      BY <1>5, <1>7
  <2> HIDE DEF Num
  <2> QED
    BY <2>1, <2>2, <2>3 DEF Counted
<1>12. HealthIsTheProvidersOwn'
  BY <1>11 DEF HealthIsTheProvidersOwn
<1>13. \A q \in Request : request'[q].at = "streaming" => request'[q].kind \in {"completion", "stream"}
  BY DEF AnswerChat, HealthInv, GatewayInv, RequestRecord
<1> QED
  BY <1>8, <1>9, <1>10, <1>12, <1>13 DEF HealthInv
(* A step of a request that no chat's answers come from keeps the count.   *)
Counts(q, jobs) == q.at = "ended" /\ q.kind \in {"chat", "parallel"} /\ jobs # <<>>

LEMMA OthersKeepCount ==
  ASSUME HealthInv, GatewayInv', UNCHANGED health, NEW r \in Request, NEW q, NEW jobs,
         request' = [request EXCEPT ![r] = q], chatJob' = [chatJob EXCEPT ![r] = jobs],
         ~ Counts(request[r], chatJob[r]), ~ Counts(q, jobs),
         q.at = "streaming" => q.kind \in {"completion", "stream"}
  PROVE  HealthInv'
<1>1. ASSUME NEW s \in Request
      PROVE  /\ request'[s] = IF s = r THEN q ELSE request[s]
             /\ chatJob'[s] = IF s = r THEN jobs ELSE chatJob[s]
  BY DEF HealthInv, GatewayInv
<1>2. \A s \in Request :
        LET counted == Ended(s) /\ request[s].kind \in {"chat", "parallel"} /\ chatJob[s] # <<>>
        IN  /\ counted' <=> counted
            /\ counted => request'[s] = request[s] /\ chatJob'[s] = chatJob[s]
  BY <1>1 DEF Ended, Counts
<1>3. /\ \A p, R : PairsOf(p, R)' = PairsOf(p, R) /\ Answers(p, R)' = Answers(p, R)
      /\ HealthIsTheProvidersOwn' <=> HealthIsTheProvidersOwn
  BY <1>2, CountsStay
<1>4. \A s \in Request : request'[s].at = "streaming" => request'[s].kind \in {"completion", "stream"}
  BY <1>1 DEF HealthInv
<1> QED
  BY <1>3, <1>4 DEF HealthInv

LEMMA HealthStep == HealthInv /\ [GatewayNext]_gatewayVars => HealthInv'
<1> SUFFICES ASSUME HealthInv, [GatewayNext]_gatewayVars PROVE HealthInv'
  OBVIOUS
<1>0. /\ GatewayInv /\ GatewayInv'
      /\ \A r \in Request : /\ request[r] \in RequestRecord /\ RequestOK(request[r], chatJob[r])
                            /\ request = [request EXCEPT ![r] = request[r]]
                            /\ chatJob = [chatJob EXCEPT ![r] = chatJob[r]]
  <2>1. GatewayInv /\ GatewayInv'
    BY GatewayStep DEF HealthInv
  <2> QED
    BY <2>1 DEF GatewayInv
<1>1. ASSUME NEW r \in Request, NEW q, q.at = "sending" \/ q = Refused, New(r, q)
      PROVE  HealthInv'
  <2> DEFINE jobs == [i \in DOMAIN q.names |-> NewJob]
  <2>1. request' = [request EXCEPT ![r] = q] /\ chatJob' = [chatJob EXCEPT ![r] = jobs]
    BY <1>1 DEF New
  <2>2. ~ Counts(request[r], chatJob[r]) /\ UNCHANGED health
    BY <1>1 DEF New, Counts
  <2>3. ~ Counts(q, jobs) /\ (q.at = "streaming" => q.kind \in {"completion", "stream"})
    BY <1>1 DEF Counts, Refused
  <2> HIDE DEF jobs
  <2> QED
    BY <1>0, <2>1, <2>2, <2>3, OthersKeepCount
<1>2. ASSUME NEW r \in Request, NEW n \in 1..2, NEW names \in [1..n -> Provider \cup {Unknown}],
             NEW b \in BOOLEAN, Chat(r, names, b)
      PROVE  HealthInv'
  BY <1>1, <1>2 DEF Chat
<1>3. ASSUME NEW r \in Request, NEW p \in Provider \cup {Unknown}, NEW b \in BOOLEAN,
             Completion(r, p, b)
      PROVE  HealthInv'
  BY <1>1, <1>3 DEF Completion
<1>4. ASSUME NEW r \in Request, NEW i, NEW j, Update(r, i, j), request[r].at = "sending",
             UNCHANGED <<request, health>>
      PROVE  HealthInv'
  <2> DEFINE jobs == [chatJob[r] EXCEPT ![i] = j]
  <2>1. chatJob' = [chatJob EXCEPT ![r] = jobs]
    BY <1>4 DEF Update
  <2>2. request' = [request EXCEPT ![r] = request[r]]
    BY <1>0, <1>4
  <2>3. ~ Counts(request[r], chatJob[r]) /\ ~ Counts(request[r], jobs)
    BY <1>4 DEF Counts
  <2> HIDE DEF jobs
  <2> QED
    BY <1>0, <1>4, <2>1, <2>2, <2>3, OthersKeepCount
<1>5. ASSUME NEW r \in Request, NEW at \in {"streaming", "ended"},
             request' = [request EXCEPT ![r].at = at], UNCHANGED <<chatJob, health>>,
             request[r].kind \in {"completion", "stream"}
      PROVE  HealthInv'
  <2> DEFINE q == [request[r] EXCEPT !.at = at]
  <2>1. request' = [request EXCEPT ![r] = q]
    BY <1>5
  <2>2. chatJob' = [chatJob EXCEPT ![r] = chatJob[r]]
    BY <1>0, <1>5
  <2>3. q.kind = request[r].kind
    BY <1>0 DEF RequestRecord
  <2> HIDE DEF q
  <2>4. ~ Counts(request[r], chatJob[r]) /\ ~ Counts(q, chatJob[r])
    BY <1>5, <2>3 DEF Counts
  <2> QED
    BY <1>0, <1>5, <2>1, <2>2, <2>3, <2>4, OthersKeepCount
<1>6. ASSUME NEW r \in Request, Disconnect(r) PROVE HealthInv'
  <2>1. request[r].kind = "stream" /\ request[r].at = "sending" /\ UNCHANGED health
    BY <1>6 DEF Disconnect
  <2>2. CASE request' = [request EXCEPT ![r].at = "ended"] /\ UNCHANGED chatJob
    BY <1>5, <2>1, <2>2
  <2>3. CASE (\E j : Update(r, 1, j)) /\ UNCHANGED request
    BY <1>4, <2>1, <2>3
  <2> QED
    BY <1>6, <2>2, <2>3 DEF Disconnect
<1>7. ASSUME NEW r \in Request, NEW i \in DOMAIN chatJob[r],
             StartSend(r, i) \/ SendReturns(r, i) \/ CloseAdapter(r, i)
      PROVE  HealthInv'
  <2>1. request[r].at = "sending" /\ UNCHANGED <<request, health>>
    BY <1>0, <1>7 DEF StartSend, Turn, SendReturns, CloseAdapter, RequestOK, RequestRecord
  <2>2. \E j : Update(r, i, j)
    BY <1>7 DEF StartSend, SendReturns, CloseAdapter
  <2> QED
    BY <1>4, <2>1, <2>2
<1>8. ASSUME NEW r \in Request, AnswerChat(r) PROVE HealthInv'
  BY <1>8, RecordingCounts
<1>9. ASSUME NEW r \in Request, AnswerCompletion(r) PROVE HealthInv'
  <2>1. PICK at \in {"streaming", "ended"} : request' = [request EXCEPT ![r].at = at]
    BY <1>9 DEF AnswerCompletion
  <2> QED
    BY <1>5, <1>9, <2>1 DEF AnswerCompletion
<1>10. ASSUME NEW r \in Request, EndStream(r) PROVE HealthInv'
  BY <1>5, <1>10 DEF EndStream, HealthInv
<1>11. ASSUME NEW r \in Request, FanOutRaises(r) PROVE HealthInv'
  <2> DEFINE q == Refused
  <2>1. /\ request' = [request EXCEPT ![r] = q] /\ chatJob' = [chatJob EXCEPT ![r] = <<>>]
        /\ request[r].at = "sending" /\ UNCHANGED health
    BY <1>11 DEF FanOutRaises
  <2>2. q.at = "ended"
    BY DEF Refused
  <2> HIDE DEF q
  <2>3. ~ Counts(request[r], chatJob[r]) /\ ~ Counts(q, <<>>) /\ q.at # "streaming"
    BY <2>1, <2>2 DEF Counts
  <2> QED
    BY <1>0, <2>1, <2>3, OthersKeepCount
<1>12. CASE UNCHANGED gatewayVars
  <2>1. \A p, R : PairsOf(p, R)' = PairsOf(p, R) /\ Answers(p, R)' = Answers(p, R)
    BY <1>12 DEF gatewayVars, PairsOf, Answers, Ended
  <2> QED
    BY <1>0, <1>12, <2>1 DEF gatewayVars, HealthInv, HealthIsTheProvidersOwn
<1> QED
  BY <1>2, <1>3, <1>6, <1>7, <1>8, <1>9, <1>10, <1>11, <1>12 DEF GatewayNext, RequestStep

(* What the health tracker says of a provider is what its own answers say. *)
THEOREM HealthIsCounted == GatewaySpec => []HealthIsTheProvidersOwn
<1>1. GatewayInit => HealthInv
  <2> SUFFICES ASSUME GatewayInit PROVE HealthInv
    OBVIOUS
  <2>1. NoRequest \in RequestRecord /\ RequestOK(NoRequest, <<>>)
    BY DEF NoRequest, RequestRecord, RequestOK
  <2>2. GatewayInv
    BY <2>1 DEF GatewayInit, GatewayInv
  <2>3. ASSUME NEW p, NEW R PROVE PairsOf(p, R) = {} /\ Answers(p, R) = 0
    <3>1. PairsOf(p, R) = {}
      BY DEF PairsOf, GatewayInit, NoRequest
    <3>2. Answers(p, R) = Cardinality(PairsOf(p, R))
      BY Zenon DEF Answers, PairsOf
    <3> QED
      BY <3>1, <3>2, FS_EmptySet
  <2>4. \A r \in Request : request[r].at # "streaming"
    BY DEF GatewayInit, NoRequest
  <2>5. IsFiniteSet({})
    BY FS_EmptySet
  <2> QED
    BY <2>2, <2>3, <2>4, <2>5 DEF HealthInv, HealthIsTheProvidersOwn, GatewayInit, NoCounts
<1>2. HealthInv => HealthIsTheProvidersOwn
  BY DEF HealthInv
<1> QED
  BY <1>1, <1>2, HealthStep, PTL DEF GatewaySpec

-----------------------------------------------------------------------------
(* RedisClient: how far the two stores agree on a key, by the type it is   *)
(* used for.  The dictionary may have dropped a value that the server      *)
(* still keeps, when it is past its time; a group keeps a stream without   *)
(* entries alive on the server; and the server keeps no empty list.        *)
Held == [type : {"value"}, value : Field, until : Int]

AgreeOn(use, d, st, li, g, e, h, time) ==
  /\ g <=> h
  /\ use # "value" => d = NoKey
  /\ use # "stream" => st = <<>> /\ ~g
  /\ use # "list" => li = <<>>
  /\ use = "none" => e = NoKey
  /\ use = "value" => \/ d = NoKey /\ e = NoKey
                      \/ e \in Held /\ (d = e \/ (d = NoKey /\ e.until <= time))
  /\ use = "stream" => \/ st = <<>> /\ ~g /\ e = NoKey
                       \/ e = Items("stream", st)
  /\ use = "list" => e = IF li = <<>> THEN NoKey ELSE Items("list", li)

Agree(k) == AgreeOn(usedFor[k], mem.data[k], mem.streams[k], mem.lists[k], k \in mem.groups,
                    srv.keys[k], k \in srv.groups, clock)

Uses == {"none", "value", "stream", "list"}

StoreTypes ==
  /\ mem.data = [k \in Key |-> mem.data[k]]
  /\ mem.streams \in [Key -> Seq(Field)]
  /\ mem.lists \in [Key -> Seq(Field)]
  /\ mem = [data |-> mem.data, streams |-> mem.streams, lists |-> mem.lists, groups |-> mem.groups]
  /\ srv.keys = [k \in Key |-> srv.keys[k]]
  /\ srv = [keys |-> srv.keys, groups |-> srv.groups]
  /\ usedFor \in [Key -> Uses]
  /\ clock \in Int

StoreInv ==
  careful => /\ last[1] = last[2]
             /\ StoreTypes
             /\ \A k \in Key : Agree(k)

LEMMA StoreInitInv == StoreInit => StoreInv
  BY DEF StoreInit, StoreInv, StoreTypes, Agree, AgreeOn, Uses, NoKey

(* A call touches one key.                                                 *)
LEMMA Touches ==
  ASSUME StoreInv, careful, NEW k \in Key, NEW use \in Uses, NEW d,
         NEW st \in Seq(Field), NEW li \in Seq(Field), NEW e, NEW G, NEW H,
         mem' = [data |-> [mem.data EXCEPT ![k] = d], streams |-> [mem.streams EXCEPT ![k] = st],
                 lists |-> [mem.lists EXCEPT ![k] = li], groups |-> G],
         srv' = [keys |-> [srv.keys EXCEPT ![k] = e], groups |-> H],
         G \ {k} = mem.groups \ {k}, H \ {k} = srv.groups \ {k},
         usedFor' = [usedFor EXCEPT ![k] = use], clock' = clock,
         last'[1] = last'[2],
         AgreeOn(use, d, st, li, k \in G, e, k \in H, clock)
  PROVE  StoreInv'
  <1>1. StoreTypes'
    BY DEF StoreInv, StoreTypes
  <1>2. Agree(k)'
    BY DEF StoreInv, StoreTypes, Agree
  <1>3. ASSUME NEW q \in Key, q # k PROVE Agree(q)'
    <2>1. /\ usedFor'[q] = usedFor[q] /\ mem'.data[q] = mem.data[q]
          /\ mem'.streams[q] = mem.streams[q] /\ mem'.lists[q] = mem.lists[q]
          /\ srv'.keys[q] = srv.keys[q]
          /\ q \in mem'.groups <=> q \in mem.groups
          /\ q \in srv'.groups <=> q \in srv.groups
      BY <1>3 DEF StoreInv, StoreTypes
    <2>2. Agree(q)
      BY DEF StoreInv
    <2> QED
      BY <2>1, <2>2 DEF Agree, AgreeOn
  <1> QED
    BY <1>1, <1>2, <1>3 DEF StoreInv

LEMMA StoreStep == StoreInv /\ [StoreNext]_storeVars => StoreInv'
  <1> SUFFICES ASSUME StoreInv, StoreNext \/ UNCHANGED storeVars PROVE StoreInv'
    OBVIOUS
  <1>1. CASE UNCHANGED storeVars
    BY <1>1 DEF storeVars, StoreInv, StoreTypes, Agree
  <1> SUFFICES ASSUME StoreNext, careful, careful' PROVE StoreInv'
    BY <1>1 DEF StoreNext, StoreInv
  <1>2. StoreTypes /\ \A k \in Key : Agree(k)
    BY DEF StoreInv
  <1>3. CASE Tick
    <2>1. /\ mem' = mem /\ srv' = srv /\ usedFor' = usedFor /\ last' = last
          /\ clock \in Int /\ clock' = clock + 1
      BY <1>2, <1>3 DEF Tick, StoreTypes
    <2>2. StoreTypes'
      BY <1>2, <2>1 DEF StoreTypes
    <2>3. ASSUME NEW k \in Key PROVE Agree(k)'
      <3>1. Agree(k)
        BY <1>2
      <3> QED
        BY <2>1, <3>1 DEF Agree, AgreeOn, Held
    <2> QED
      BY <2>1, <2>2, <2>3 DEF StoreInv
  <1>4. ASSUME NEW n \in 0 .. 1, PublishEvent(n) PROVE StoreInv'
    BY <1>2, <1>4 DEF PublishEvent, StoreInv, StoreTypes, Agree
  <1>5. CASE CloseStore
    BY <1>5 DEF CloseStore
  <1>6. ASSUME NEW k \in Key,
               \/ \E v \in Field \cup {Empty} : PushToList(k, v) \/ \E ttl \in 0..3 : SetKey(k, v, ttl)
               \/ \E d \in Field \cup {Missing} : PushToStream(k, d)
               \/ \E n \in 0..MaxItems : ReadStream(k, n)
               \/ GetKey(k) \/ DeleteKey(k) \/ PopFromList(k) \/ GetListLength(k)
               \/ CreateConsumerGroup(k) \/ AckMessage(k)
        PROVE  StoreInv'
    <2> DEFINE u == usedFor[k]
               d == mem.data[k]
               st == mem.streams[k]
               li == mem.lists[k]
               e == srv.keys[k]
               g == k \in mem.groups
    <2>1. /\ st \in Seq(Field) /\ li \in Seq(Field) /\ u \in Uses /\ clock \in Int
          /\ AgreeOn(u, d, st, li, g, e, k \in srv.groups, clock)
      BY <1>2 DEF StoreTypes, Agree
    <2>2. /\ mem.data = [mem.data EXCEPT ![k] = d] /\ mem.streams = [mem.streams EXCEPT ![k] = st]
          /\ mem.lists = [mem.lists EXCEPT ![k] = li] /\ srv.keys = [srv.keys EXCEPT ![k] = e]
      BY <1>2 DEF StoreTypes
    <2>3. /\ mem = [data |-> mem.data, streams |-> mem.streams, lists |-> mem.lists,
                    groups |-> mem.groups]
          /\ srv = [keys |-> srv.keys, groups |-> srv.groups]
      BY <1>2 DEF StoreTypes
    <2>4. ASSUME NEW x
          PROVE  /\ [mem EXCEPT !.data[k] = x] =
                      [data |-> [mem.data EXCEPT ![k] = x], streams |-> mem.streams,
                       lists |-> mem.lists, groups |-> mem.groups]
                 /\ [mem EXCEPT !.streams[k] = x] =
                      [data |-> mem.data, streams |-> [mem.streams EXCEPT ![k] = x],
                       lists |-> mem.lists, groups |-> mem.groups]
                 /\ [mem EXCEPT !.lists[k] = x] =
                      [data |-> mem.data, streams |-> mem.streams,
                       lists |-> [mem.lists EXCEPT ![k] = x], groups |-> mem.groups]
                 /\ [srv EXCEPT !.keys[k] = x] =
                      [keys |-> [srv.keys EXCEPT ![k] = x], groups |-> srv.groups]
      <3> DEFINE D == mem.data
                 S == mem.streams
                 L == mem.lists
                 G == mem.groups
                 K == srv.keys
                 H == srv.groups
      <3>1. /\ mem = [data |-> D, streams |-> S, lists |-> L, groups |-> G]
            /\ srv = [keys |-> K, groups |-> H]
        BY <2>3
      <3> HIDE DEF D, S, L, G, K, H
      <3>2. [mem EXCEPT !.data[k] = x] =
              [data |-> [D EXCEPT ![k] = x], streams |-> S, lists |-> L, groups |-> G]
        BY <3>1
      <3>3. [mem EXCEPT !.streams[k] = x] =
              [data |-> D, streams |-> [S EXCEPT ![k] = x], lists |-> L, groups |-> G]
        BY <3>1
      <3>4. [mem EXCEPT !.lists[k] = x] =
              [data |-> D, streams |-> S, lists |-> [L EXCEPT ![k] = x], groups |-> G]
        BY <3>1
      <3>5. [srv EXCEPT !.keys[k] = x] = [keys |-> [K EXCEPT ![k] = x], groups |-> H]
        BY <3>1
      <3> QED
        BY <3>2, <3>3, <3>4, <3>5 DEF D, S, L, G, K, H
    <2>5. Live(k) = IF e.type = "value" /\ e.until <= clock THEN NoKey ELSE e
      BY DEF Live, Past
    <2> HIDE DEF d, st, li, e, g, u
    <2>6. ASSUME NEW use \in Uses, NEW ok, Use(k, use, ok)
          PROVE  ok /\ u \in {"none", use} /\ usedFor' = [usedFor EXCEPT ![k] = use]
      BY <2>6 DEF Use, u
    <2>7. "value" \in Uses /\ "stream" \in Uses /\ "list" \in Uses
      BY DEF Uses
    <2>8. ASSUME NEW v \in Field \cup {Empty}, NEW ttl \in 0 .. 3, SetKey(k, v, ttl)
          PROVE  StoreInv'
      <3> DEFINE x == Value(v, IF ttl = 0 THEN Forever ELSE clock + ttl)
      <3>1. /\ ttl % 2 = 0 /\ v # Empty /\ u \in {"none", "value"}
            /\ usedFor' = [usedFor EXCEPT ![k] = "value"]
        BY <2>6, <2>7, <2>8 DEF SetKey
      <3>2. ttl \in {0, 2}
        BY <3>1
      <3>3. /\ mem' = [mem EXCEPT !.data[k] = x] /\ srv' = [srv EXCEPT !.keys[k] = x]
            /\ clock' = clock /\ last'[1] = last'[2]
        BY <2>8, <3>2 DEF SetKey, SrvPut
      <3>4. x \in Held
        BY <2>1, <3>1, <3>2, TimeAssumption DEF Held, Value, Forever
      <3> HIDE DEF x
      <3>5. AgreeOn("value", x, st, li, g, x, k \in srv.groups, clock)
        BY <2>1, <3>1, <3>4 DEF AgreeOn
      <3>6. /\ mem' = [data |-> [mem.data EXCEPT ![k] = x],
                       streams |-> [mem.streams EXCEPT ![k] = st],
                       lists |-> [mem.lists EXCEPT ![k] = li], groups |-> mem.groups]
            /\ srv' = [keys |-> [srv.keys EXCEPT ![k] = x], groups |-> srv.groups]
        BY <2>2, <2>4, <3>3, ZenonT(30)
      <3> QED
        BY <2>1, <2>7, <3>1, <3>3, <3>5, <3>6, Touches DEF g
    <2>9. ASSUME GetKey(k) PROVE StoreInv'
      <3> DEFINE x == IF d # NoKey /\ d.until <= clock THEN NoKey ELSE d
      <3>1. u \in {"none", "value"} /\ usedFor' = [usedFor EXCEPT ![k] = "value"]
        BY <2>6, <2>7, <2>9 DEF GetKey
      <3>2. mem' = [mem EXCEPT !.data[k] = x] /\ srv' = srv /\ clock' = clock
        BY <2>9 DEF GetKey, DropExpired, Past, d
      <3>3. last'[1] = last'[2]
        <4>1. last' = <<MemValue(k), SrvValue(k)>>
          BY <2>9 DEF GetKey
        <4>2. MemValue(k) = IF d = NoKey \/ d.until <= clock THEN Missing ELSE d.value
          BY DEF MemValue, Past, d
        <4>3. CASE e = NoKey
          BY <2>1, <2>5, <3>1, <4>1, <4>2, <4>3 DEF SrvValue, AgreeOn, NoKey
        <4>4. CASE e \in Held
          BY <2>1, <2>5, <3>1, <4>1, <4>2, <4>4, FieldAssumption DEF SrvValue, AgreeOn, NoKey, Held
        <4> QED
          BY <2>1, <3>1, <4>3, <4>4 DEF AgreeOn
      <3>4. x = d \/ (x = NoKey /\ e \in Held /\ e.until <= clock) \/ (x = NoKey /\ e = NoKey)
        BY <2>1, <3>1 DEF AgreeOn, NoKey, Held
      <3> HIDE DEF x
      <3>8. /\ mem' = [data |-> [mem.data EXCEPT ![k] = x],
                       streams |-> [mem.streams EXCEPT ![k] = st],
                       lists |-> [mem.lists EXCEPT ![k] = li], groups |-> mem.groups]
            /\ srv' = [keys |-> [srv.keys EXCEPT ![k] = e], groups |-> srv.groups]
        BY <2>2, <2>3, <2>4, <3>2
      <3>9. AgreeOn("value", x, st, li, k \in mem.groups, e, k \in srv.groups, clock)
        BY <2>1, <3>1, <3>4 DEF AgreeOn, g
      <3> QED
        BY <2>1, <2>7, <3>1, <3>2, <3>3, <3>8, <3>9, Touches
    <2>10. ASSUME DeleteKey(k) PROVE StoreInv'
      <3>1. u \in {"none", "value"} /\ usedFor' = [usedFor EXCEPT ![k] = "value"]
        BY <2>6, <2>7, <2>10 DEF DeleteKey
      <3>2. /\ mem' = [mem EXCEPT !.data[k] = NoKey] /\ srv' = [srv EXCEPT !.keys[k] = NoKey]
            /\ clock' = clock
        BY <2>10 DEF DeleteKey, SrvPut
      <3>3. last'[1] = last'[2]
        <4>1. last' = <<MemValue(k) # Missing, Live(k).type # "none">>
          BY <2>10 DEF DeleteKey
        <4>2. MemValue(k) = IF d = NoKey \/ d.until <= clock THEN Missing ELSE d.value
          BY DEF MemValue, Past, d
        <4>3. (MemValue(k) # Missing) <=> (Live(k).type # "none")
          <5>1. CASE e = NoKey
            BY <2>1, <2>5, <3>1, <4>2, <5>1 DEF AgreeOn, NoKey
          <5>2. CASE e \in Held
            BY <2>1, <2>5, <3>1, <4>2, <5>2, FieldAssumption DEF AgreeOn, NoKey, Held
          <5> QED
            BY <2>1, <3>1, <5>1, <5>2 DEF AgreeOn
        <4> QED
          BY <4>1, <4>3
      <3>8. /\ mem' = [data |-> [mem.data EXCEPT ![k] = NoKey],
                       streams |-> [mem.streams EXCEPT ![k] = st],
                       lists |-> [mem.lists EXCEPT ![k] = li], groups |-> mem.groups]
            /\ srv' = [keys |-> [srv.keys EXCEPT ![k] = NoKey], groups |-> srv.groups]
        BY <2>2, <2>3, <2>4, <3>2
      <3>9. AgreeOn("value", NoKey, st, li, k \in mem.groups, NoKey, k \in srv.groups, clock)
        BY <2>1, <3>1 DEF AgreeOn, g
      <3> QED
        BY <2>1, <2>7, <3>1, <3>2, <3>3, <3>8, <3>9, Touches
    <2>11. ASSUME NEW m \in Field \cup {Missing}, PushToStream(k, m) PROVE StoreInv'
      <3>1. /\ m # Missing /\ u \in {"none", "stream"}
            /\ usedFor' = [usedFor EXCEPT ![k] = "stream"]
        BY <2>6, <2>7, <2>11 DEF PushToStream
      <3>4. IsOr(k, "stream") /\ ItemsOf(k) = st
        BY <2>1, <2>5, <3>1 DEF IsOr, ItemsOf, AgreeOn, NoKey, Items
      <3>2. /\ mem' = [mem EXCEPT !.streams[k] = Append(st, m)] /\ clock' = clock
            /\ srv' = [srv EXCEPT !.keys[k] = Items("stream", Append(st, m))]
        BY <2>11, <3>1, <3>4 DEF PushToStream, SrvPut, st
      <3>3. last'[1] = last'[2] /\ Append(st, m) \in Seq(Field)
        BY <2>1, <2>11, <3>1, <3>4 DEF PushToStream
      <3>8. /\ mem' = [data |-> [mem.data EXCEPT ![k] = d],
                       streams |-> [mem.streams EXCEPT ![k] = Append(st, m)],
                       lists |-> [mem.lists EXCEPT ![k] = li], groups |-> mem.groups]
            /\ srv' = [keys |-> [srv.keys EXCEPT ![k] = Items("stream", Append(st, m))],
                        groups |-> srv.groups]
        BY <2>2, <2>3, <2>4, <3>2
      <3>9. AgreeOn("stream", d, Append(st, m), li, k \in mem.groups,
                    Items("stream", Append(st, m)), k \in srv.groups, clock)
        BY <2>1, <3>1 DEF AgreeOn, g
      <3> QED
        BY <2>1, <2>7, <3>1, <3>2, <3>3, <3>8, <3>9, Touches
    <2>12. ASSUME NEW n \in 0 .. MaxItems, ReadStream(k, n) PROVE StoreInv'
      <3>1. /\ n > 0 /\ st # <<>> /\ u \in {"none", "stream"}
            /\ usedFor' = [usedFor EXCEPT ![k] = "stream"]
        BY <2>6, <2>7, <2>12 DEF ReadStream, st
      <3>4. IsOr(k, "stream") /\ ItemsOf(k) = st
        BY <2>1, <2>5, <3>1 DEF IsOr, ItemsOf, AgreeOn, NoKey, Items
      <3>2. mem' = mem /\ srv' = srv /\ clock' = clock
        BY <2>12 DEF ReadStream
      <3>3. last'[1] = last'[2]
        BY <2>12, <3>1, <3>4 DEF ReadStream, st
      <3>8. /\ mem' = [data |-> [mem.data EXCEPT ![k] = d],
                       streams |-> [mem.streams EXCEPT ![k] = st],
                       lists |-> [mem.lists EXCEPT ![k] = li], groups |-> mem.groups]
            /\ srv' = [keys |-> [srv.keys EXCEPT ![k] = e], groups |-> srv.groups]
        BY <2>2, <2>3, <2>4, <3>2
      <3>9. AgreeOn("stream", d, st, li, k \in mem.groups, e, k \in srv.groups, clock)
        BY <2>1, <3>1 DEF AgreeOn, g
      <3> QED
        BY <2>1, <2>7, <3>1, <3>2, <3>3, <3>8, <3>9, Touches
    <2>13. ASSUME NEW v \in Field \cup {Empty}, PushToList(k, v) PROVE StoreInv'
      <3>1. /\ v # Empty /\ u \in {"none", "list"}
            /\ usedFor' = [usedFor EXCEPT ![k] = "list"]
        BY <2>6, <2>7, <2>13 DEF PushToList
      <3>4. IsOr(k, "list") /\ ItemsOf(k) = li
        BY <2>1, <2>5, <3>1 DEF IsOr, ItemsOf, AgreeOn, NoKey, Items
      <3>2. /\ mem' = [mem EXCEPT !.lists[k] = Append(li, v)] /\ clock' = clock
            /\ srv' = [srv EXCEPT !.keys[k] = Items("list", Append(li, v))]
        BY <2>13, <3>1, <3>4 DEF PushToList, SrvPut, li
      <3>3. last'[1] = last'[2] /\ Append(li, v) \in Seq(Field)
        BY <2>1, <2>13, <3>1, <3>4 DEF PushToList
      <3>5. Append(li, v) # <<>>
        BY <2>1
      <3>8. /\ mem' = [data |-> [mem.data EXCEPT ![k] = d],
                       streams |-> [mem.streams EXCEPT ![k] = st],
                       lists |-> [mem.lists EXCEPT ![k] = Append(li, v)], groups |-> mem.groups]
            /\ srv' = [keys |-> [srv.keys EXCEPT ![k] = Items("list", Append(li, v))], groups |-> srv.groups]
        BY <2>2, <2>3, <2>4, <3>2
      <3>9. AgreeOn("list", d, st, Append(li, v), k \in mem.groups,
                    Items("list", Append(li, v)), k \in srv.groups, clock)
        BY <2>1, <3>1, <3>5 DEF AgreeOn, g
      <3> QED
        BY <2>1, <2>7, <3>1, <3>2, <3>3, <3>8, <3>9, Touches
    <2>14. ASSUME PopFromList(k) PROVE StoreInv'
      <3>1. u \in {"none", "list"} /\ usedFor' = [usedFor EXCEPT ![k] = "list"]
        BY <2>6, <2>7, <2>14 DEF PopFromList
      <3>2. IsOr(k, "list") /\ ItemsOf(k) = li
        BY <2>1, <2>5, <3>1 DEF IsOr, ItemsOf, AgreeOn, NoKey, Items
      <3>3. CASE li = <<>>
        <4>1. mem' = mem /\ srv' = srv /\ clock' = clock
          BY <2>14, <3>2, <3>3 DEF PopFromList, li
        <4>2. last'[1] = last'[2]
          BY <2>14, <3>2, <3>3 DEF PopFromList, li
        <4>8. /\ mem' = [data |-> [mem.data EXCEPT ![k] = d],
                         streams |-> [mem.streams EXCEPT ![k] = st],
                         lists |-> [mem.lists EXCEPT ![k] = li], groups |-> mem.groups]
              /\ srv' = [keys |-> [srv.keys EXCEPT ![k] = e], groups |-> srv.groups]
          BY <2>2, <2>3, <2>4, <4>1
        <4>9. AgreeOn("list", d, st, li, k \in mem.groups, e, k \in srv.groups, clock)
          BY <2>1, <3>1, <3>3 DEF AgreeOn, g
        <4> QED
          BY <2>1, <2>7, <3>1, <4>1, <4>2, <4>8, <4>9, Touches
      <3>4. CASE li # <<>>
        <4> DEFINE x == Tail(li)
                   y == IF Len(li) = 1 THEN NoKey ELSE Items("list", x)
        <4>1. mem' = [mem EXCEPT !.lists[k] = x] /\ srv' = [srv EXCEPT !.keys[k] = y] /\ clock' = clock
          BY <2>14, <3>2, <3>4 DEF PopFromList, SrvPut, li
        <4>2. last'[1] = last'[2] /\ x \in Seq(Field)
          <5>1. Head(li) \in Field /\ x \in Seq(Field)
            BY <2>1, <3>4
          <5>2. last'[1] = Head(li) /\ last'[2] = IF Head(li) = Empty THEN Missing ELSE Head(li)
            BY <2>14, <3>2, <3>4 DEF PopFromList, li
          <5>3. Head(li) # Empty
            BY ONLY <5>1, FieldAssumption, Zenon
          <5>4. last'[1] = last'[2]
            BY ONLY <5>2, <5>3
          <5> HIDE DEF x
          <5> QED
            BY <5>1, <5>4
        <4>3. y = IF x = <<>> THEN NoKey ELSE Items("list", x)
          <5>1. x \in Seq(Field) /\ Len(x) = Len(li) - 1 /\ Len(li) \in Nat
            BY <2>1, <3>4
          <5> HIDE DEF x
          <5>2. x = <<>> <=> Len(li) = 1
            BY <5>1, SMTT(30)
          <5> QED
            BY <5>2
        <4> HIDE DEF x, y
        <4>8. /\ mem' = [data |-> [mem.data EXCEPT ![k] = d],
                         streams |-> [mem.streams EXCEPT ![k] = st],
                         lists |-> [mem.lists EXCEPT ![k] = x], groups |-> mem.groups]
              /\ srv' = [keys |-> [srv.keys EXCEPT ![k] = y], groups |-> srv.groups]
          BY <2>2, <2>3, <2>4, <4>1
        <4>9. AgreeOn("list", d, st, x, k \in mem.groups, y, k \in srv.groups, clock)
          BY <2>1, <3>1, <4>3 DEF AgreeOn, g
        <4> QED
          BY <2>1, <2>7, <3>1, <4>1, <4>2, <4>8, <4>9, Touches
      <3> QED
        BY <3>3, <3>4
    <2>15. ASSUME GetListLength(k) PROVE StoreInv'
      <3>1. u \in {"none", "list"} /\ usedFor' = [usedFor EXCEPT ![k] = "list"]
        BY <2>6, <2>7, <2>15 DEF GetListLength
      <3>4. IsOr(k, "list") /\ ItemsOf(k) = li
        BY <2>1, <2>5, <3>1 DEF IsOr, ItemsOf, AgreeOn, NoKey, Items
      <3>2. mem' = mem /\ srv' = srv /\ clock' = clock
        BY <2>15 DEF GetListLength
      <3>3. last'[1] = last'[2]
        BY <2>15, <3>4 DEF GetListLength, li
      <3>8. /\ mem' = [data |-> [mem.data EXCEPT ![k] = d],
                       streams |-> [mem.streams EXCEPT ![k] = st],
                       lists |-> [mem.lists EXCEPT ![k] = li], groups |-> mem.groups]
            /\ srv' = [keys |-> [srv.keys EXCEPT ![k] = e], groups |-> srv.groups]
        BY <2>2, <2>3, <2>4, <3>2
      <3>9. AgreeOn("list", d, st, li, k \in mem.groups, e, k \in srv.groups, clock)
        BY <2>1, <3>1 DEF AgreeOn, g
      <3> QED
        BY <2>1, <2>7, <3>1, <3>2, <3>3, <3>8, <3>9, Touches
    <2>16. ASSUME CreateConsumerGroup(k) PROVE StoreInv'
      <3>1. u \in {"none", "stream"} /\ usedFor' = [usedFor EXCEPT ![k] = "stream"]
        BY <2>6, <2>7, <2>16 DEF CreateConsumerGroup
      <3>4. IsOr(k, "stream") /\ ItemsOf(k) = st
        BY <2>1, <2>5, <3>1 DEF IsOr, ItemsOf, AgreeOn, NoKey, Items
      <3>5. g <=> k \in srv.groups
        BY <2>1 DEF AgreeOn
      <3> DEFINE y == IF g THEN e ELSE Items("stream", st)
      <3>2. /\ mem' = [mem EXCEPT !.groups = @ \cup {k}] /\ clock' = clock
            /\ srv' = [keys |-> [srv.keys EXCEPT ![k] = y], groups |-> srv.groups \cup {k}]
        <4>1. CASE g
          BY <2>2, <2>3, <2>16, <3>5, <4>1 DEF CreateConsumerGroup
        <4>2. CASE ~g
          BY <2>16, <3>4, <3>5, <4>2 DEF CreateConsumerGroup
        <4> QED
          BY <4>1, <4>2
      <3>3. last'[1] = last'[2]
        BY <2>16, <3>4, <3>5 DEF CreateConsumerGroup, g
      <3>6. y = Items("stream", st)
        BY <2>1, <3>1 DEF AgreeOn
      <3> DEFINE G == mem.groups \cup {k}
                 H == srv.groups \cup {k}
      <3>7. G \ {k} = mem.groups \ {k} /\ H \ {k} = srv.groups \ {k} /\ k \in G /\ k \in H
        OBVIOUS
      <3>8. /\ mem' = [data |-> [mem.data EXCEPT ![k] = d],
                       streams |-> [mem.streams EXCEPT ![k] = st],
                       lists |-> [mem.lists EXCEPT ![k] = li], groups |-> G]
            /\ srv' = [keys |-> [srv.keys EXCEPT ![k] = y], groups |-> H]
        BY <2>2, <2>3, <2>4, <3>2
      <3> HIDE DEF y, G, H
      <3>9. AgreeOn("stream", d, st, li, k \in G, y, k \in H, clock)
        BY <2>1, <3>1, <3>6, <3>7 DEF AgreeOn
      <3> QED
        BY <2>1, <2>7, <3>1, <3>2, <3>3, <3>7, <3>8, <3>9, Touches
    <2>17. ASSUME AckMessage(k) PROVE StoreInv'
      <3>1. /\ ~g /\ u \in {"none", "stream"}
            /\ usedFor' = [usedFor EXCEPT ![k] = "stream"]
        BY <2>6, <2>7, <2>17 DEF AckMessage, g
      <3>4. IsOr(k, "stream") /\ ItemsOf(k) = st
        BY <2>1, <2>5, <3>1 DEF IsOr, ItemsOf, AgreeOn, NoKey, Items
      <3>2. mem' = mem /\ srv' = srv /\ clock' = clock
        BY <2>17 DEF AckMessage
      <3>3. last'[1] = last'[2]
        <4>1. last'[1] = (k \in mem.groups) /\ last'[2] = FALSE
          BY <2>17, <3>4 DEF AckMessage
        <4>2. (k \in mem.groups) = FALSE
          BY <3>1, SMT DEF g
        <4> QED
          BY <4>1, <4>2
      <3>8. /\ mem' = [data |-> [mem.data EXCEPT ![k] = d],
                       streams |-> [mem.streams EXCEPT ![k] = st],
                       lists |-> [mem.lists EXCEPT ![k] = li], groups |-> mem.groups]
            /\ srv' = [keys |-> [srv.keys EXCEPT ![k] = e], groups |-> srv.groups]
        BY <2>2, <2>3, <2>4, <3>2
      <3>9. AgreeOn("stream", d, st, li, k \in mem.groups, e, k \in srv.groups, clock)
        BY <2>1, <3>1 DEF AgreeOn, g
      <3> QED
        BY <2>1, <2>7, <3>1, <3>2, <3>3, <3>8, <3>9, Touches
    <2> QED
      BY <1>6, <2>8, <2>9, <2>10, <2>11, <2>12, <2>13, <2>14, <2>15, <2>16, <2>17
  <1> QED
    BY <1>3, <1>4, <1>5, <1>6 DEF StoreNext

(* A careful caller cannot tell the two stores apart. *)
THEOREM StoresAnswerAlike == StoreSpec => []SameAnswers
<1>1. StoreInv => SameAnswers
  BY DEF StoreInv, SameAnswers
<1> QED
  BY <1>1, StoreInitInv, StoreStep, PTL DEF StoreSpec

-----------------------------------------------------------------------------
(* FileWorkspace: a call and what LinearFiles sees of it.                  *)
CallRecord ==
  [request : LF!FileRequest \cup {[op |-> "none"]}, pc : PC,
   outcome : {"none", "done", "failed", "missing", "conflict", "exists"},
   text : Text \cup {Absent}, linked : BOOLEAN, begun : Nat]

SeenText(j) == IF j.pc = "temp" THEN Absent ELSE j.text
Seen(j) == [request |-> j.request, outcome |-> j.outcome, text |-> SeenText(j),
            begun |-> j.begun # 0]

(* Each step of a call belongs to its operation, and a call has an outcome *)
(* when it is done and not before.                                         *)
CallOK(j) ==
  /\ j \in CallRecord
  /\ j.pc = "idle" => j = Idle
  /\ j.pc # "idle" => j.request \in LF!FileRequest
  /\ j.pc = "test" => j.request.op = "write" /\ j.request.flag
  /\ j.pc = "read" => j.request.op = "read"
  /\ j.pc = "half" => j.request.op = "append"
  /\ j.pc = "temp" => j.request.op \in {"write", "patch"}
  /\ j.pc = "wait" => j.request.op # "read"
  /\ j.pc = "temp" /\ j.request.op = "write" => j.text = <<j.request.new>>
  /\ j.pc \notin {"temp", "done"} => j.text = Absent
  /\ j.pc = "done" <=> j.outcome # "none"
  /\ j.pc # "half" => j.begun = 0

(* Between the two halves of a mutation: what the first half found in the  *)
(* file, or wrote there, is still there, and the file itself.              *)
StillThere(j, fs) ==
  /\ j.pc = "half" =>
       LET text == fs[j.request.path] IN
         /\ j.linked /\ text # Absent
         /\ j.begun # 0 => j.begun = Len(text) /\ text[Len(text)] = Half
  /\ j.pc = "temp" /\ j.request.op = "patch" =>
       LET found == fs[j.request.path] IN
         /\ found # Absent
         /\ Count(found, j.request.old) = j.request.count
         /\ j.text = Replaced(found, j.request.old, j.request.new)

Mutates(j) == j.pc \in {"go", "temp", "half"} /\ j.request.op # "read"

FileInv ==
  /\ files \in [Path -> Text \cup {Absent}]
  /\ job = [t \in Thread |-> job[t]]
  /\ \A t \in Thread : CallOK(job[t])
  /\ lock \in [Instance -> Thread \cup {None}]
  /\ instance \in Owners /\ OneObject
  /\ \A t \in Thread : /\ StillThere(job[t], files)
                       /\ Mutates(job[t]) => lock[instance[t]] = t

(* What a step does to the calls is what LinearFiles sees of it.           *)
SetTo(j, o, x) == [request |-> j.request, outcome |-> o, text |-> x, begun |-> FALSE]

LEMMA SetIs ==
  ASSUME NEW t \in Thread, NEW o, NEW x,
         \A u \in Thread : Seen(job'[u]) = IF u = t THEN SetTo(job[t], o, x) ELSE Seen(job[u])
  PROVE  LF!Set(t, o, x)
  <1> DEFINE todo == [u \in Thread |->
                [request |-> job[u].request, outcome |-> job[u].outcome,
                 begun |-> job[u].begun # 0,
                 text |-> IF job[u].pc = "temp" THEN Absent ELSE job[u].text]]
  <1>1. todo = [u \in Thread |-> Seen(job[u])]
    BY DEF Seen, SeenText
  <1>2. todo' = [u \in Thread |-> Seen(job'[u])]
    BY DEF Seen, SeenText
  <1>3. todo' = [todo EXCEPT ![t] = [request |-> @.request, outcome |-> o, text |-> x,
                                     begun |-> FALSE]]
    <2> HIDE DEF todo
    <2>1. [request |-> todo[t].request, outcome |-> o, text |-> x, begun |-> FALSE]
            = SetTo(job[t], o, x)
      BY <1>1 DEF Seen, SetTo
    <2> QED
      BY <1>1, <1>2, <2>1
  <1> QED
    BY <1>3, Zenon DEF LF!Set

LEMMA StaysIs ==
  ASSUME files' = files, \A u \in Thread : Seen(job'[u]) = Seen(job[u])
  PROVE  UNCHANGED LF!vars
  BY DEF LF!vars, Seen, SeenText
(* What a request carries, by its operation.                               *)
LEMMA RequestParts ==
  ASSUME NEW r \in LF!FileRequest
  PROVE  /\ r.op \in {"write", "append", "patch", "delete", "rmtree", "read"}
         /\ r.op # "rmtree" => r.path \in Path
         /\ r.op \in {"write", "append", "patch"} => r.new \in Mark
         /\ r.op \in {"write", "delete"} => r.flag \in BOOLEAN
  BY DEF LF!FileRequest

LEMMA IdleIs == Idle \in CallRecord /\ CallOK(Idle) /\ ~Mutates(Idle) /\ \A fs : StillThere(Idle, fs)
<1>1. Idle \in CallRecord
  BY DEF Idle, CallRecord, PC
<1> QED
  BY <1>1 DEF Idle, CallOK, Mutates, StillThere

(* Losing the name of its file is not seen of a call.                      *)
Cut(j) == [j EXCEPT !.linked = FALSE]

LEMMA UnlinkedIs ==
  ASSUME NEW j, CallOK(j), NEW k, k = j \/ (k = Cut(j) /\ j.pc # "idle")
  PROVE  /\ CallOK(k) /\ Seen(k) = Seen(j) /\ k.pc = j.pc /\ k.request = j.request
         /\ Mutates(k) <=> Mutates(j)
<1>1. j \in CallRecord
  BY DEF CallOK
<1>2. /\ k \in CallRecord /\ k.pc = j.pc /\ k.request = j.request /\ k.text = j.text
      /\ k.outcome = j.outcome /\ k.begun = j.begun
  BY <1>1 DEF CallRecord, Cut
<1>3. CallOK(k)
  BY <1>2 DEF CallOK
<1> QED
  BY <1>2, <1>3 DEF Seen, SeenText, Mutates

(* Threads that share one object mutate the files one at a time.           *)
LEMMA OneMutator ==
  ASSUME FileInv, NEW t \in Thread, NEW u \in Thread, u # t, Mutates(job[t])
  PROVE  ~Mutates(job[u]) /\ job[u].pc \notin {"half", "temp"} /\ job[u].begun = 0
<1>1. instance[t] = instance[u]
  BY DEF FileInv, OneObject
<1>2. ~Mutates(job[u])
  BY <1>1 DEF FileInv
<1>3. CallOK(job[u])
  BY DEF FileInv
<1> QED
  BY <1>2, <1>3 DEF Mutates, CallOK

(* A step of one call that leaves the files alone.                         *)
LEMMA CallMoves ==
  ASSUME FileInv, NEW t \in Thread, NEW j, CallOK(j), job' = [job EXCEPT ![t] = j],
         UNCHANGED <<instance, files>>, lock' \in [Instance -> Thread \cup {None}],
         \A u \in Thread \ {t} : lock[instance[u]] = u => lock'[instance[u]] = u,
         StillThere(j, files), Mutates(j) => lock'[instance[t]] = t
  PROVE  /\ FileInv'
         /\ \A u \in Thread : job'[u] = IF u = t THEN j ELSE job[u]
         /\ j.request = job[t].request =>
              /\ Seen(j) = Seen(job[t]) => UNCHANGED LF!vars
              /\ j.pc \notin {"temp", "half"} => LF!Set(t, j.outcome, j.text)
<1>1. \A u \in Thread : job'[u] = IF u = t THEN j ELSE job[u]
  BY DEF FileInv
<1>2. job' = [u \in Thread |-> job'[u]]
  BY DEF FileInv
<1>3. \A u \in Thread : CallOK(job'[u])
  BY <1>1 DEF FileInv
<1>4. \A u \in Thread : /\ StillThere(job'[u], files')
                       /\ Mutates(job'[u]) => lock'[instance'[u]] = u
  BY <1>1 DEF FileInv
<1>5. ASSUME Seen(j) = Seen(job[t]) PROVE UNCHANGED LF!vars
  <2>1. \A u \in Thread : Seen(job'[u]) = Seen(job[u])
    BY <1>1, <1>5
  <2> QED
    BY <2>1, StaysIs
<1>6. ASSUME j.pc \notin {"temp", "half"}, j.request = job[t].request
      PROVE  LF!Set(t, j.outcome, j.text)
  <2>1. Seen(j) = SetTo(job[t], j.outcome, j.text)
    BY <1>6 DEF Seen, SeenText, SetTo, CallOK
  <2>2. \A u \in Thread : Seen(job'[u]) =
          IF u = t THEN SetTo(job[t], j.outcome, j.text) ELSE Seen(job[u])
    BY <1>1, <2>1
  <2> QED
    BY <2>2, SetIs
<1>7. FileInv'
  BY <1>1, <1>2, <1>3, <1>4 DEF FileInv, OneObject
<1> QED
  BY <1>1, <1>5, <1>6, <1>7

(* What LinearFiles sees of the calls.                                     *)
Todo == [t \in Thread |-> [request |-> job[t].request, outcome |-> job[t].outcome,
                           begun |-> job[t].begun # 0,
                           text |-> IF job[t].pc = "temp" THEN Absent ELSE job[t].text]]

LEMMA QuietIs ==
  ASSUME FileInv, NEW t \in Thread, Mutates(job[t])
  PROVE  LF!Quiet(t)
  BY OneMutator DEF LF!Quiet

LEMMA TodoStays ==
  ASSUME \A u \in Thread : Seen(job'[u]) = Seen(job[u])
  PROVE  UNCHANGED Todo
  BY DEF Todo, Seen, SeenText

(* A step leaves the call of u alone, or takes the name from its file.     *)
TouchesNot(u) == job'[u] = job[u] \/ (job'[u] = Cut(job[u]) /\ job[u].pc # "idle")

(* A step of the call that mutates the files, which may take their names   *)
(* from the files that others opened.                                      *)
LEMMA MutatorMoves ==
  ASSUME FileInv, NEW t \in Thread, Mutates(job[t]), NEW j, CallOK(j),
         job' = [u \in Thread |-> job'[u]], job'[t] = j,
         \A u \in Thread : u # t => TouchesNot(u),
         UNCHANGED <<instance, lock>>, files' \in [Path -> Text \cup {Absent}],
         StillThere(j, files')
  PROVE  /\ FileInv'
         /\ Seen(j) = Seen(job[t]) => UNCHANGED Todo
         /\ j.pc \notin {"temp", "half"} /\ j.request = job[t].request =>
              LF!Set(t, j.outcome, j.text)
<1>1. ASSUME NEW u \in Thread, u # t
      PROVE  /\ CallOK(job'[u]) /\ Seen(job'[u]) = Seen(job[u]) /\ job'[u].pc = job[u].pc
             /\ Mutates(job'[u]) <=> Mutates(job[u])
  <2> DEFINE k == job'[u]
             i == job[u]
  <2>1. CallOK(i) /\ (k = i \/ (k = Cut(i) /\ i.pc # "idle"))
    BY <1>1 DEF FileInv, TouchesNot
  <2> HIDE DEF k, i
  <2>2. CallOK(k) /\ Seen(k) = Seen(i) /\ k.pc = i.pc /\ (Mutates(k) <=> Mutates(i))
    BY <2>1, UnlinkedIs
  <2> QED
    BY <2>2 DEF k, i
<1>2. \A u \in Thread : CallOK(job'[u])
  BY <1>1
<1>3. ASSUME NEW u \in Thread
      PROVE  StillThere(job'[u], files') /\ (Mutates(job'[u]) => lock'[instance'[u]] = u)
  <2>2. CASE u = t
    BY <2>2 DEF FileInv
  <2>3. CASE u # t
    <3>1. ~Mutates(job[u]) /\ job[u].pc \notin {"half", "temp"}
      BY <2>3, OneMutator
    <3> QED
      BY <1>1, <2>3, <3>1 DEF StillThere
  <2> QED
    BY <2>2, <2>3
<1>4. FileInv'
  BY <1>1, <1>2, <1>3 DEF FileInv, OneObject
<1>5. ASSUME Seen(j) = Seen(job[t]) PROVE UNCHANGED Todo
  <2>1. \A u \in Thread : Seen(job'[u]) = Seen(job[u])
    BY <1>1, <1>5
  <2> QED
    BY <2>1, TodoStays
<1>6. ASSUME j.pc \notin {"temp", "half"}, j.request = job[t].request
      PROVE  LF!Set(t, j.outcome, j.text)
  <2>1. Seen(j) = SetTo(job[t], j.outcome, j.text)
    BY <1>6 DEF Seen, SeenText, SetTo, CallOK
  <2>2. \A u \in Thread : Seen(job'[u]) =
          IF u = t THEN SetTo(job[t], j.outcome, j.text) ELSE Seen(job[u])
    BY <1>1, <2>1
  <2> QED
    BY <2>2, SetIs
<1> QED
  BY <1>4, <1>5, <1>6

AsPromised == OneObject => UNCHANGED LF!vars \/ LF!Next

LEMMA CallIs ==
  ASSUME FileInv, NEW t \in Thread, Call(t)
  PROVE  FileInv' /\ AsPromised
<1>1. PICK r \in LF!FileRequest :
        job' = [job EXCEPT ![t].request = r,
                           ![t].pc = CASE r.op = "write" /\ r.flag -> "test"
                                       [] r.op = "read" -> "go"
                                       [] OTHER -> "wait"]
  BY DEF Call
<1> DEFINE pc == CASE r.op = "write" /\ r.flag -> "test" [] r.op = "read" -> "go" [] OTHER -> "wait"
           j == [job[t] EXCEPT !.request = r, !.pc = pc]
<1>2. job[t] = Idle /\ CallOK(job[t]) /\ job[t] \in CallRecord
  BY DEF Call, FileInv, CallOK
<1>3. /\ pc \in PC /\ pc \notin {"idle", "temp", "half", "read", "done"}
      /\ pc = "test" => r.op = "write" /\ r.flag
      /\ pc = "wait" => r.op # "read"
      /\ pc = "go" => r.op = "read"
  BY RequestParts DEF PC
<1>4. job' = [job EXCEPT ![t] = j]
  BY <1>1
<1> HIDE DEF pc
<1>5. /\ j \in CallRecord /\ j.request = r /\ j.pc = pc /\ j.outcome = "none" /\ j.text = Absent
      /\ j.begun = 0
  <2> DEFINE i == job[t]
  <2>1. i \in CallRecord /\ i.outcome = "none" /\ i.text = Absent /\ i.begun = 0
    BY <1>2 DEF Idle
  <2>2. j = [i EXCEPT !.request = r, !.pc = pc]
    OBVIOUS
  <2> HIDE DEF i, j
  <2> QED
    BY <1>3, <2>1, <2>2 DEF CallRecord
<1> HIDE DEF j
<1>6. CallOK(j) /\ ~Mutates(j) /\ StillThere(j, files)
  BY <1>3, <1>5 DEF CallOK, Mutates, StillThere
<1>7. UNCHANGED <<instance, files, lock>>
  BY DEF Call
<1>8. FileInv' /\ \A u \in Thread : job'[u] = IF u = t THEN j ELSE job[u]
  <2>1. lock' \in [Instance -> Thread \cup {None}]
    BY <1>7 DEF FileInv
  <2> QED
    BY <1>4, <1>6, <1>7, <2>1, CallMoves
<1>9. Todo' = [Todo EXCEPT ![t].request = r]
  <2>1. Todo = [u \in Thread |-> Seen(job[u])] /\ Todo' = [u \in Thread |-> Seen(job'[u])]
    BY DEF Todo, Seen, SeenText
  <2>2. Seen(j) = [Seen(job[t]) EXCEPT !.request = r]
    BY <1>2, <1>3, <1>5 DEF Seen, SeenText, Idle
  <2>3. [Todo EXCEPT ![t].request = r] = [Todo EXCEPT ![t] = [Todo[t] EXCEPT !.request = r]]
    BY <2>1
  <2> QED
    BY <1>8, <2>1, <2>2, <2>3
<1>10. Todo[t] = LF!Idle
  <2>1. (job[t].begun # 0) = FALSE
    BY <1>2 DEF Idle
  <2>2. PICK b : b = (job[t].begun # 0)
    OBVIOUS
  <2>3. Todo[t] = [request |-> [op |-> "none"], outcome |-> "none", begun |-> b, text |-> Absent]
    BY <1>2, <2>2 DEF Todo, Idle
  <2>4. b = FALSE
    BY <2>1, <2>2
  <2> QED
    BY <2>3, <2>4, Zenon DEF LF!Idle
<1>11. LF!Call(t)
  BY <1>7, <1>9, <1>10 DEF LF!Call, Todo
<1> QED
  BY <1>8, <1>11 DEF AsPromised, LF!Next
(* A call whose outcome is known, and one that goes on.                    *)
LEMMA CallEnds ==
  ASSUME FileInv, NEW t \in Thread, NEW o \in {"done", "failed", "missing", "conflict", "exists"},
         NEW x \in Text \cup {Absent}, NEW j \in CallRecord, job[t].pc # "idle",
         j.request = job[t].request, j.pc = "done", j.outcome = o, j.text = x, j.begun = 0,
         job' = [job EXCEPT ![t] = j], UNCHANGED <<instance, files, lock>>
  PROVE  FileInv' /\ LF!Set(t, o, x)
<1>1. CallOK(job[t])
  BY DEF FileInv
<1>2. CallOK(j) /\ StillThere(j, files) /\ ~Mutates(j) /\ j.pc \notin {"temp", "half"}
  BY <1>1 DEF CallOK, StillThere, Mutates
<1>3. /\ lock' \in [Instance -> Thread \cup {None}]
      /\ \A u \in Thread \ {t} : lock[instance[u]] = u => lock'[instance[u]] = u
  BY DEF FileInv
<1> QED
  BY <1>2, <1>3, CallMoves

LEMMA CallGoes ==
  ASSUME FileInv, NEW t \in Thread, NEW j, CallOK(j), job[t].pc \notin {"done", "half"},
         j.pc \notin {"done", "half"}, j.request = job[t].request, job' = [job EXCEPT ![t] = j],
         UNCHANGED <<instance, files>>, lock' \in [Instance -> Thread \cup {None}],
         \A u \in Thread \ {t} : lock[instance[u]] = u => lock'[instance[u]] = u,
         StillThere(j, files), Mutates(j) => lock'[instance[t]] = t
  PROVE  FileInv' /\ UNCHANGED LF!vars
<1>1. CallOK(job[t])
  BY DEF FileInv
<1>2. Seen(j) = Seen(job[t])
  BY <1>1 DEF CallOK, Seen, SeenText
<1> QED
  BY <1>2, CallMoves

LEMMA PendingIs ==
  ASSUME NEW t \in Thread, NEW op, job[t].request.op = op, job[t].outcome = "none"
  PROVE  LF!Pending(t, op)
  BY DEF LF!Pending

LEMMA CallFacts ==
  ASSUME FileInv, NEW t \in Thread
  PROVE  /\ CallOK(job[t]) /\ job[t] \in CallRecord /\ job[t].pc \in PC
         /\ job[t].pc # "done" => job[t].outcome = "none"
         /\ job[t].pc # "half" => job[t].begun = 0
         /\ job[t].pc # "idle" => job[t].request \in LF!FileRequest
         /\ lock \in [Instance -> Thread \cup {None}]
         /\ files \in [Path -> Text \cup {Absent}]
  BY DEF FileInv, CallOK, CallRecord

LEMMA ExclusiveTestIs ==
  ASSUME FileInv, NEW t \in Thread, ExclusiveTest(t)
  PROVE  FileInv' /\ AsPromised
<1> DEFINE i == job[t]
<1>0. /\ CallOK(i) /\ i \in CallRecord /\ i.pc = "test" /\ i.request.op = "write" /\ i.request.flag
      /\ i.outcome = "none" /\ i.text = Absent /\ i.begun = 0 /\ UNCHANGED <<instance, files, lock>>
      /\ Absent \in Text \cup {Absent}
  BY CallFacts DEF ExclusiveTest, Doing, CallOK
<1>1. CASE files[MyPath(t)] # Absent
  <2> DEFINE j == [i EXCEPT !.pc = "done", !.outcome = "exists"]
  <2>1. job' = [job EXCEPT ![t] = j]
    BY <1>1 DEF ExclusiveTest, Outcome
  <2>2. /\ j \in CallRecord /\ j.request = i.request /\ j.pc = "done" /\ j.outcome = "exists"
        /\ j.text = Absent /\ j.begun = 0
    <3> HIDE DEF i
    <3> QED
      BY <1>0 DEF CallRecord, PC
  <2> HIDE DEF j
  <2>3. FileInv' /\ LF!Set(t, "exists", Absent)
    BY <1>0, <2>1, <2>2, CallEnds
  <2>4. LF!Pending(t, "write")
    BY <1>0, PendingIs
  <2>5. LF!Write(t)
    BY <1>0, <1>1, <2>3, <2>4 DEF LF!Write, LF!Ends, MyPath
  <2> QED
    BY <2>3, <2>5 DEF AsPromised, LF!Next
<1>2. CASE files[MyPath(t)] = Absent
  <2> DEFINE j == [i EXCEPT !.pc = "wait"]
  <2>1. job' = [job EXCEPT ![t] = j]
    BY <1>2 DEF ExclusiveTest, Goto
  <2>2. /\ j \in CallRecord /\ j.request = i.request /\ j.pc = "wait" /\ j.outcome = "none"
        /\ j.text = Absent /\ j.begun = 0
    <3> HIDE DEF i
    <3> QED
      BY <1>0 DEF CallRecord, PC
  <2> HIDE DEF j
  <2>3. CallOK(j) /\ StillThere(j, files) /\ ~Mutates(j) /\ j.pc # "done"
    BY <1>0, <2>2 DEF CallOK, StillThere, Mutates
  <2>4. /\ lock' \in [Instance -> Thread \cup {None}]
        /\ \A u \in Thread \ {t} : lock[instance[u]] = u => lock'[instance[u]] = u
    BY <1>0, CallFacts
  <2>5. FileInv' /\ UNCHANGED LF!vars
    BY <1>0, <2>1, <2>2, <2>3, <2>4, CallGoes
  <2> QED
    BY <2>5 DEF AsPromised
<1> QED
  BY <1>1, <1>2
LEMMA AcquireIs ==
  ASSUME FileInv, NEW t \in Thread, Acquire(t)
  PROVE  FileInv' /\ AsPromised
<1> DEFINE i == job[t]
           j == [i EXCEPT !.pc = "go"]
<1>0. /\ CallOK(i) /\ i \in CallRecord /\ i.pc = "wait" /\ i.outcome = "none" /\ i.text = Absent /\ i.begun = 0
      /\ i.request \in LF!FileRequest /\ UNCHANGED <<instance, files>>
      /\ lock \in [Instance -> Thread \cup {None}]
  BY CallFacts DEF Acquire, CallOK
<1>1. job' = [job EXCEPT ![t] = j]
  BY DEF Acquire, Goto
<1>2. /\ j \in CallRecord /\ j.request = i.request /\ j.pc = "go" /\ j.outcome = "none"
      /\ j.text = Absent /\ j.begun = 0
  <2> HIDE DEF i
  <2> QED
    BY <1>0 DEF CallRecord, PC
<1> HIDE DEF j
<1>3. CallOK(j) /\ StillThere(j, files) /\ j.pc # "done"
  BY <1>0, <1>2 DEF CallOK, StillThere
<1>4. instance \in [Thread -> Instance]
  BY OwnersAssumption DEF FileInv
<1>5. lock[instance[t]] = None /\ lock' = [lock EXCEPT ![instance[t]] = t]
  BY DEF Acquire
<1>6. /\ lock' \in [Instance -> Thread \cup {None}] /\ lock'[instance[t]] = t
      /\ \A u \in Thread \ {t} : lock[instance[u]] = u => lock'[instance[u]] = u
  BY <1>0, <1>4, <1>5, NoneAssumption
<1>7. FileInv' /\ UNCHANGED LF!vars
  BY <1>0, <1>1, <1>2, <1>3, <1>6, CallGoes
<1> QED
  BY <1>7 DEF AsPromised

(* What a patch leaves of a text is a text.                                *)
LEMMA ReplacedType ==
  ASSUME NEW text \in Text, NEW old, NEW new \in Mark
  PROVE  Replaced(text, old, new) \in Text
<1>1. DOMAIN text = 1..Len(text) /\ Len(text) \in Nat /\ \A i \in 1..Len(text) : text[i] \in Mark \cup {Half}
  BY DEF Text
<1>2. Replaced(text, old, new) \in [1..Len(text) -> Mark \cup {Half}]
  BY <1>1 DEF Replaced
<1>3. \A n \in Nat : [1..n -> Mark \cup {Half}] \subseteq Seq(Mark \cup {Half})
  BY SeqDef
<1> QED
  BY <1>1, <1>2, <1>3 DEF Text

(* The new text is in a temporary file.                                    *)
LEMMA TempIsMade ==
  ASSUME FileInv, NEW t \in Thread, job[t].pc = "go", job[t].request.op \in {"write", "patch"},
         NEW text \in Text, MakeTemp(t, text), UNCHANGED <<instance, files, lock>>,
         job[t].request.op = "write" => text = <<job[t].request.new>>,
         job[t].request.op = "patch" =>
           LET r == job[t].request
               found == files[r.path]
           IN  found # Absent /\ Count(found, r.old) = r.count /\ text = Replaced(found, r.old, r.new)
  PROVE  FileInv' /\ AsPromised
<1> DEFINE i == job[t]
           j == [i EXCEPT !.pc = "temp", !.text = text, !.linked = TRUE]
<1>0. /\ CallOK(i) /\ i \in CallRecord /\ i.outcome = "none" /\ i.begun = 0
      /\ i.request \in LF!FileRequest /\ lock \in [Instance -> Thread \cup {None}]
  BY CallFacts
<1>1. job' = [job EXCEPT ![t] = j]
  BY DEF MakeTemp
<1>2. /\ j \in CallRecord /\ j.request = i.request /\ j.pc = "temp" /\ j.outcome = "none"
      /\ j.text = text /\ j.begun = 0
  <2> HIDE DEF i
  <2> QED
    BY <1>0 DEF CallRecord, PC
<1> HIDE DEF j
<1>3. CallOK(j) /\ j.pc # "done"
  BY <1>0, <1>2 DEF CallOK
<1>4. StillThere(j, files)
  BY <1>2 DEF StillThere
<1>5. Mutates(j) => lock[instance[t]] = t
  BY <1>2 DEF FileInv, Mutates
<1>6. FileInv' /\ UNCHANGED LF!vars
  BY <1>0, <1>1, <1>2, <1>3, <1>4, <1>5, CallGoes
<1> QED
  BY <1>6 DEF AsPromised

LEMMA WriteGoIs ==
  ASSUME FileInv, NEW t \in Thread, WriteGo(t)
  PROVE  FileInv' /\ AsPromised
<1>1. job[t].request \in LF!FileRequest
  BY CallFacts DEF WriteGo, Doing
<1>2. <<job[t].request.new>> \in Text
  BY <1>1, RequestParts DEF WriteGo, Doing, Text
<1> QED
  BY <1>2, TempIsMade DEF WriteGo, Doing

LEMMA SameOperators ==
  ASSUME NEW text, NEW m, NEW new
  PROVE  Count(text, m) = LF!Count(text, m) /\ Replaced(text, m, new) = LF!Replaced(text, m, new)
<1>1. Count(text, m) = LF!Count(text, m)
  BY Zenon DEF Count, LF!Count, Cardinality, LF!Cardinality
<1>2. Replaced(text, m, new) = LF!Replaced(text, m, new)
  BY Zenon DEF Replaced, LF!Replaced
<1> QED
  BY <1>1, <1>2

LEMMA PatchGoIs ==
  ASSUME FileInv, NEW t \in Thread, PatchGo(t)
  PROVE  FileInv' /\ AsPromised
<1> DEFINE i == job[t]
           r == job[t].request
           found == files[r.path]
<1>0. /\ CallOK(i) /\ i \in CallRecord /\ i.pc = "go" /\ r.op = "patch" /\ i.outcome = "none"
      /\ i.text = Absent /\ i.begun = 0 /\ UNCHANGED <<instance, files, lock>> /\ r \in LF!FileRequest
      /\ Absent \in Text \cup {Absent}
  BY CallFacts DEF PatchGo, Doing, CallOK
<1>1. r.new \in Mark /\ r.path \in Path /\ found \in Text \cup {Absent}
  BY <1>0, CallFacts, RequestParts
<1>2. LF!Pending(t, "patch")
  BY <1>0, PendingIs
<1>3. ASSUME NEW o \in {"missing", "conflict"}, Outcome(t, o)
      PROVE  FileInv' /\ LF!Set(t, o, Absent)
  <2> DEFINE j == [i EXCEPT !.pc = "done", !.outcome = o]
  <2>1. job' = [job EXCEPT ![t] = j]
    BY <1>3 DEF Outcome
  <2>2. /\ j \in CallRecord /\ j.request = i.request /\ j.pc = "done" /\ j.outcome = o
        /\ j.text = Absent /\ j.begun = 0
    <3> HIDE DEF i
    <3> QED
      BY <1>0 DEF CallRecord, PC
  <2> HIDE DEF j
  <2> QED
    BY <1>0, <2>1, <2>2, CallEnds
<1>4. CASE found = Absent
  <2>1. Outcome(t, "missing")
    BY <1>4 DEF PatchGo
  <2>2. LF!Patch(t)
    BY <1>0, <1>2, <1>3, <1>4, <2>1 DEF LF!Patch, LF!Ends
  <2> QED
    BY <1>3, <2>1, <2>2 DEF AsPromised, LF!Next
<1>5. CASE found # Absent /\ Count(found, r.old) # r.count
  <2>1. Outcome(t, "conflict")
    BY <1>5 DEF PatchGo
  <2>2. LF!Patch(t)
    BY <1>0, <1>2, <1>3, <1>5, <2>1, SameOperators DEF LF!Patch, LF!Ends
  <2> QED
    BY <1>3, <2>1, <2>2 DEF AsPromised, LF!Next
<1>6. CASE found # Absent /\ Count(found, r.old) = r.count
  <2>1. MakeTemp(t, Replaced(found, r.old, r.new))
    BY <1>6 DEF PatchGo
  <2>2. Replaced(found, r.old, r.new) \in Text
    BY <1>1, <1>6, ReplacedType
  <2> QED
    BY <1>0, <1>6, <2>1, <2>2, TempIsMade
<1> QED
  BY <1>4, <1>5, <1>6

(* Any call may fail.                                                      *)
LEMMA FailureIs ==
  ASSUME FileInv, NEW t \in Thread, WriteFails(t) \/ AppendFails(t)
  PROVE  FileInv' /\ AsPromised
<1> DEFINE i == job[t]
           j == job'[t]
<1>0. /\ CallOK(i) /\ i \in CallRecord /\ i.pc \in {"temp", "half"} /\ i.outcome = "none"
      /\ UNCHANGED <<instance, files, lock>> /\ i.request \in LF!FileRequest
      /\ Absent \in Text \cup {Absent}
  BY CallFacts DEF WriteFails, AppendFails, Doing
<1>1. job' = [job EXCEPT ![t] = j] /\ job = [u \in Thread |-> job[u]]
  BY DEF WriteFails, AppendFails, AppendEnds, FileInv
<1>2. /\ j \in CallRecord /\ j.request = i.request /\ j.pc = "done" /\ j.outcome = "failed"
      /\ j.text = Absent /\ j.begun = 0
  <2>1. \/ /\ j = [i EXCEPT !.outcome = "failed", !.pc = "done", !.text = Absent,
                            !.linked = FALSE]
           /\ i.begun = 0
        \/ /\ j = [i EXCEPT !.pc = "done", !.outcome = "failed", !.linked = FALSE, !.begun = 0]
           /\ i.text = Absent
    BY <1>0, <1>1 DEF WriteFails, AppendFails, AppendEnds, Doing, CallOK
  <2> HIDE DEF i, j
  <2>2. i.begun = 0 /\ j = [i EXCEPT !.outcome = "failed", !.pc = "done", !.text = Absent,
                                     !.linked = FALSE] => j \in CallRecord
    BY <1>0 DEF CallRecord, PC
  <2>3. j = [i EXCEPT !.pc = "done", !.outcome = "failed", !.linked = FALSE, !.begun = 0]
          => j \in CallRecord
    <3> DEFINE k == [i EXCEPT !.pc = "done", !.outcome = "failed", !.linked = FALSE]
    <3>1. [i EXCEPT !.pc = "done", !.outcome = "failed", !.linked = FALSE, !.begun = 0]
            = [k EXCEPT !.begun = 0]
      BY <1>0
    <3>2. k \in CallRecord
      BY <1>0 DEF CallRecord, PC
    <3>3. [k EXCEPT !.begun = 0] \in CallRecord
      <4> HIDE DEF k
      <4> QED
        BY <3>2 DEF CallRecord
    <3> QED
      BY <3>1, <3>3
  <2> QED
    BY <1>0, <2>1, <2>2, <2>3 DEF CallRecord
<1> HIDE DEF j
<1>3. FileInv' /\ LF!Set(t, "failed", Absent)
  BY <1>0, <1>1, <1>2, CallEnds
<1>4. i.request # [op |-> "none"]
  BY <1>0, RequestParts
<1>5. LF!Fail(t)
  BY <1>0, <1>3, <1>4 DEF LF!Fail, LF!Ends, LF!Idle
<1> QED
  BY <1>3, <1>5 DEF AsPromised, LF!Next
LEMMA RemovedAllIs ==
  ASSUME FileInv, NEW t \in Thread, RemovedAll(t)
  PROVE  FileInv' /\ AsPromised
<1> DEFINE i == job[t]
           j == [i EXCEPT !.pc = "done", !.outcome = "done"]
<1>0. /\ CallOK(i) /\ i \in CallRecord /\ i.pc = "go" /\ i.request.op = "rmtree" /\ i.outcome = "none"
      /\ i.text = Absent /\ i.begun = 0 /\ UNCHANGED <<instance, files, lock>> /\ Absent \in Text \cup {Absent}
      /\ \A p \in Path : files[p] = Absent
  BY CallFacts DEF RemovedAll, Doing, CallOK
<1>1. job' = [job EXCEPT ![t] = j]
  BY DEF RemovedAll, Outcome
<1>2. /\ j \in CallRecord /\ j.request = i.request /\ j.pc = "done" /\ j.outcome = "done"
      /\ j.text = Absent /\ j.begun = 0
  <2> HIDE DEF i
  <2> QED
    BY <1>0 DEF CallRecord, PC
<1> HIDE DEF j
<1>3. FileInv' /\ LF!Set(t, "done", Absent)
  BY <1>0, <1>1, <1>2, CallEnds
<1>4. LF!Remove(t)
  BY <1>0, <1>3, PendingIs DEF LF!Remove, LF!Ends
<1> QED
  BY <1>3, <1>4 DEF AsPromised, LF!Next

LEMMA ReadIs ==
  ASSUME FileInv, NEW t \in Thread, ReadGo(t) \/ ReadText(t)
  PROVE  FileInv' /\ AsPromised
<1> DEFINE i == job[t]
           j == job'[t]
           found == files[i.request.path]
<1>0. /\ CallOK(i) /\ i \in CallRecord /\ i.pc \in {"go", "read"} /\ i.request.op = "read"
      /\ i.outcome = "none" /\ i.text = Absent /\ i.begun = 0 /\ UNCHANGED <<instance, files, lock>>
      /\ i.request \in LF!FileRequest /\ Absent \in Text \cup {Absent}
  BY CallFacts DEF ReadGo, ReadText, Doing, CallOK
<1>1. job' = [job EXCEPT ![t] = j] /\ job = [u \in Thread |-> job[u]]
  BY DEF ReadGo, ReadText, FileInv, Outcome, Goto
<1>2. found \in Text \cup {Absent}
  BY <1>0, RequestParts, CallFacts
<1>3. LF!Pending(t, "read")
  BY <1>0, PendingIs
<1>4. ASSUME NEW o \in {"missing", "done"}, NEW x \in Text \cup {Absent},
             j = [i EXCEPT !.pc = "done", !.outcome = o, !.text = x]
      PROVE  FileInv' /\ LF!Set(t, o, x)
  <2>1. /\ j \in CallRecord /\ j.request = i.request /\ j.pc = "done" /\ j.outcome = o
        /\ j.text = x /\ j.begun = 0
    <3> HIDE DEF i, j
    <3> QED
      BY <1>0, <1>4 DEF CallRecord, PC
  <2> HIDE DEF j
  <2> QED
    BY <1>0, <1>1, <2>1, CallEnds
<1>5. CASE found = Absent /\ j = [i EXCEPT !.pc = "done", !.outcome = "missing", !.text = Absent]
  <2>1. FileInv' /\ LF!Set(t, "missing", Absent)
    BY <1>4, <1>5
  <2>2. LF!Read(t)
    BY <1>0, <1>3, <1>5, <2>1 DEF LF!Read, LF!Ends
  <2> QED
    BY <2>1, <2>2 DEF AsPromised, LF!Next
<1>6. CASE found # Absent /\ j = [i EXCEPT !.pc = "done", !.outcome = "done", !.text = found]
  <2>1. FileInv' /\ LF!Set(t, "done", found)
    <3>1. PICK x \in Text \cup {Absent} : x = found
      BY <1>2
    <3>2. j = [i EXCEPT !.pc = "done", !.outcome = "done", !.text = x]
      BY <1>6, <3>1
    <3> HIDE DEF found, i, j
    <3>3. FileInv' /\ LF!Set(t, "done", x)
      BY <1>4, <3>2
    <3> QED
      BY <3>1, <3>3 DEF LF!Set
  <2>2. LF!Read(t)
    BY <1>0, <1>3, <1>6, <2>1 DEF LF!Read, LF!Set
  <2> QED
    BY <2>1, <2>2 DEF AsPromised, LF!Next
<1>7. CASE i.pc = "go" /\ j = [i EXCEPT !.pc = "read"]
  <2>1. /\ j \in CallRecord /\ j.request = i.request /\ j.pc = "read" /\ j.outcome = "none"
        /\ j.text = Absent /\ j.begun = 0
    <3> HIDE DEF i, j
    <3> QED
      BY <1>0, <1>7 DEF CallRecord, PC
  <2> HIDE DEF j
  <2>2. CallOK(j) /\ StillThere(j, files) /\ ~Mutates(j) /\ j.pc # "done"
    BY <1>0, <2>1 DEF CallOK, StillThere, Mutates
  <2>3. /\ lock' \in [Instance -> Thread \cup {None}]
        /\ \A u \in Thread \ {t} : lock[instance[u]] = u => lock'[instance[u]] = u
    BY <1>0, CallFacts
  <2>4. FileInv' /\ UNCHANGED LF!vars
    BY <1>0, <1>1, <2>1, <2>2, <2>3, CallGoes
  <2> QED
    BY <2>4 DEF AsPromised
<1>8. \/ found = Absent /\ j = [i EXCEPT !.pc = "done", !.outcome = "missing", !.text = Absent]
      \/ found # Absent /\ j = [i EXCEPT !.pc = "done", !.outcome = "done", !.text = found]
      \/ i.pc = "go" /\ j = [i EXCEPT !.pc = "read"]
  <2>1. CASE ReadText(t)
    BY <1>1, <2>1 DEF ReadText, MyPath
  <2>2. CASE ReadGo(t)
    <3>1. /\ found = Absent => j = [i EXCEPT !.pc = "done", !.outcome = "missing"]
          /\ found # Absent => j = [i EXCEPT !.pc = "read"]
          /\ i.pc = "go"
      BY <1>1, <2>2 DEF ReadGo, MyPath, Outcome, Goto, Doing
    <3>2. [i EXCEPT !.pc = "done", !.outcome = "missing"]
            = [i EXCEPT !.pc = "done", !.outcome = "missing", !.text = Absent]
      <4> HIDE DEF i
      <4> QED
        BY <1>0 DEF CallRecord
    <3> QED
      BY <3>1, <3>2
  <2> QED
    BY <2>1, <2>2
<1> QED
  BY <1>5, <1>6, <1>7, <1>8

(* A call that returns, and a crash, leave idle threads.                   *)
LEMMA ReturnIs ==
  ASSUME FileInv, NEW t \in Thread, Return(t)
  PROVE  FileInv' /\ AsPromised
<1>1. /\ CallOK(job[t]) /\ job[t].pc = "done" /\ UNCHANGED <<instance, files>>
      /\ job' = [job EXCEPT ![t] = Idle] /\ lock \in [Instance -> Thread \cup {None}]
      /\ lock' = [i \in Instance |-> IF lock[i] = t THEN None ELSE lock[i]]
  BY CallFacts DEF Return
<1>2. instance \in [Thread -> Instance]
  BY OwnersAssumption DEF FileInv
<1>3. /\ lock' \in [Instance -> Thread \cup {None}]
      /\ \A u \in Thread \ {t} : lock[instance[u]] = u => lock'[instance[u]] = u
  BY <1>1, <1>2
<1>4. FileInv' /\ \A u \in Thread : job'[u] = IF u = t THEN Idle ELSE job[u]
  BY <1>1, <1>3, IdleIs, CallMoves, ZenonT(30)
<1>5. Todo' = [Todo EXCEPT ![t] = LF!Idle]
  <2>1. Todo = [u \in Thread |-> Seen(job[u])] /\ Todo' = [u \in Thread |-> Seen(job'[u])]
    BY DEF Todo, Seen, SeenText
  <2>2. Seen(Idle) = LF!Idle
    BY DEF Seen, SeenText, Idle, LF!Idle
  <2> QED
    BY <1>4, <2>1, <2>2
<1>6. Todo[t].outcome # "none"
  BY <1>1 DEF Todo, CallOK
<1>7. LF!Return(t)
  BY <1>1, <1>5, <1>6 DEF LF!Return, Todo
<1> QED
  BY <1>4, <1>7 DEF AsPromised, LF!Next

LEMMA CrashIs ==
  ASSUME FileInv, Crash
  PROVE  FileInv' /\ AsPromised
<1>1. /\ job' = [t \in Thread |-> Idle] /\ lock' = [i \in Instance |-> None]
      /\ UNCHANGED <<instance, files>>
  BY DEF Crash
<1>2. FileInv'
  BY <1>1, IdleIs DEF FileInv, OneObject
<1>3. Todo' = [t \in Thread |-> LF!Idle]
  BY <1>1 DEF Todo, Idle, LF!Idle
<1>4. LF!Crash
  BY <1>1, <1>3 DEF LF!Crash, Todo
<1> QED
  BY <1>2, <1>4 DEF AsPromised, LF!Next
(* Who loses the name of a file, and who does not.                         *)
LEMMA UnlinkedMoves ==
  ASSUME NEW p, NEW t \in Thread, NEW j, job' = [Unlinked(p, t) EXCEPT ![t] = j]
  PROVE  /\ job' = [u \in Thread |-> job'[u]] /\ job'[t] = j
         /\ \A u \in Thread : u # t => TouchesNot(u)
<1> DEFINE others == Unlinked(p, t)
<1>1. others = [u \in Thread |-> others[u]]
  BY DEF Unlinked
<1>2. ASSUME NEW u \in Thread
      PROVE  others[u] = job[u] \/ (others[u] = Cut(job[u]) /\ job[u].pc # "idle")
  BY DEF Unlinked, Cut, Doing
<1> HIDE DEF others
<1>3. job' = [others EXCEPT ![t] = j]
  BY DEF others
<1>4. /\ job' = [u \in Thread |-> job'[u]] /\ job'[t] = j
      /\ \A u \in Thread : u # t => job'[u] = others[u]
  BY <1>1, <1>3
<1> QED
  BY <1>2, <1>4 DEF TouchesNot

LEMMA ReplaceIs ==
  ASSUME FileInv, NEW t \in Thread, Replace(t)
  PROVE  FileInv' /\ AsPromised
<1> DEFINE i == job[t]
           j == [i EXCEPT !.outcome = "done", !.pc = "done", !.text = Absent, !.linked = FALSE]
           r == i.request
<1>0. /\ CallOK(i) /\ i \in CallRecord /\ i.pc = "temp" /\ i.outcome = "none" /\ i.begun = 0 /\ r \in LF!FileRequest
      /\ r.op \in {"write", "patch"} /\ r.path \in Path /\ UNCHANGED <<instance, lock>>
      /\ files' = [files EXCEPT ![r.path] = i.text] /\ files \in [Path -> Text \cup {Absent}]
      /\ i.text \in Text \cup {Absent}
  BY CallFacts, RequestParts DEF Replace, MyPath, CallOK, CallRecord
<1>1. job' = [Unlinked(MyPath(t), t) EXCEPT ![t] = j]
  <2>1. Unlinked(MyPath(t), t)[t] = i
    BY DEF Unlinked
  <2> QED
    BY <2>1 DEF Replace
<1>2. /\ j \in CallRecord /\ j.request = r /\ j.pc = "done" /\ j.outcome = "done" /\ j.text = Absent
      /\ j.begun = 0
  <2> HIDE DEF i
  <2> QED
    BY <1>0 DEF CallRecord, PC, r
<1> HIDE DEF j
<1>3. CallOK(j) /\ (\A fs : StillThere(j, fs)) /\ Mutates(job[t])
  BY <1>0, <1>2 DEF CallOK, StillThere, Mutates
<1>4. /\ job' = [u \in Thread |-> job'[u]] /\ job'[t] = j
      /\ \A u \in Thread : u # t => TouchesNot(u)
  BY <1>1, UnlinkedMoves
<1>5. files' \in [Path -> Text \cup {Absent}]
  BY <1>0
<1>6. FileInv' /\ LF!Set(t, "done", Absent)
  BY <1>0, <1>2, <1>3, <1>4, <1>5, MutatorMoves
<1>7. CASE r.op = "write"
  <2>1. i.text = <<r.new>>
    BY <1>0, <1>7 DEF CallOK
  <2>2. LF!Write(t)
    BY <1>0, <1>3, <1>6, <1>7, <2>1, PendingIs, QuietIs DEF LF!Write, LF!Ends
  <2> QED
    BY <1>6, <2>2 DEF AsPromised, LF!Next
<1>8. CASE r.op = "patch"
  <2> DEFINE found == files[r.path]
  <2>1. found # Absent /\ Count(found, r.old) = r.count /\ i.text = Replaced(found, r.old, r.new)
    BY <1>0, <1>8 DEF FileInv, StillThere
  <2>2. LF!Pending(t, "patch")
    BY <1>0, <1>8, PendingIs
  <2>3. LF!Count(found, r.old) = r.count /\ i.text = LF!Replaced(found, r.old, r.new)
    BY <2>1, SameOperators
  <2>4. LF!Patch(t)
    BY <1>0, <1>3, <1>6, <2>1, <2>2, <2>3, QuietIs DEF LF!Patch, LF!Ends
  <2> QED
    BY <1>6, <2>4 DEF AsPromised, LF!Next
<1> QED
  BY <1>0, <1>7, <1>8

(* A step of an append that is not its last.                               *)
LEMMA AppendGoIs ==
  ASSUME FileInv, NEW t \in Thread, AppendGo(t)
  PROVE  FileInv' /\ AsPromised
<1> DEFINE i == job[t]
           j == [i EXCEPT !.pc = "half", !.linked = TRUE]
           r == i.request
<1>0. /\ CallOK(i) /\ i \in CallRecord /\ i.pc = "go" /\ i.outcome = "none" /\ r \in LF!FileRequest
      /\ r.op = "append" /\ r.path \in Path /\ UNCHANGED <<instance, lock>> /\ i.text = Absent /\ i.begun = 0
      /\ files \in [Path -> Text \cup {Absent}] /\ <<>> \in Text /\ Absent \notin Text
  BY CallFacts, RequestParts, AbsentAssumption DEF AppendGo, Doing, CallOK, Text
<1>1. job' = [job EXCEPT ![t] = j]
  BY DEF AppendGo
<1>2. /\ j \in CallRecord /\ j.request = r /\ j.pc = "half" /\ j.outcome = "none" /\ j.text = Absent
      /\ j.linked /\ j.begun = 0
  <2> HIDE DEF i
  <2> QED
    BY <1>0 DEF CallRecord, PC, r
<1> HIDE DEF j
<1>3. /\ files' = IF files[r.path] = Absent THEN [files EXCEPT ![r.path] = <<>>] ELSE files
      /\ files' \in [Path -> Text \cup {Absent}] /\ files'[r.path] # Absent
  BY <1>0 DEF AppendGo, MyPath
<1>4. CallOK(j) /\ StillThere(j, files') /\ Mutates(job[t])
  BY <1>0, <1>2, <1>3 DEF CallOK, StillThere, Mutates
<1>5. /\ job' = [u \in Thread |-> job'[u]] /\ job'[t] = j
      /\ \A u \in Thread : u # t => TouchesNot(u)
  BY <1>1 DEF FileInv, TouchesNot
<1>6. Seen(j) = Seen(job[t])
  BY <1>0, <1>2 DEF Seen, SeenText
<1>7. FileInv' /\ UNCHANGED Todo
  BY <1>0, <1>3, <1>4, <1>5, <1>6, MutatorMoves
<1>8. CASE files[r.path] = Absent
  <2>1. LF!Extend(t)
    BY <1>0, <1>3, <1>4, <1>7, <1>8, PendingIs, QuietIs DEF LF!Extend, Todo
  <2> QED
    BY <1>7, <2>1 DEF AsPromised, LF!Next
<1>9. CASE files[r.path] # Absent
  <2>1. UNCHANGED LF!vars
    BY <1>3, <1>7, <1>9 DEF LF!vars, Todo
  <2> QED
    BY <1>7, <2>1 DEF AsPromised
<1> QED
  BY <1>8, <1>9

LEMMA AppendWritesIs ==
  ASSUME FileInv, NEW t \in Thread, AppendWrites(t)
  PROVE  FileInv' /\ AsPromised
<1> DEFINE i == job[t]
           r == i.request
           found == files[r.path]
<1>0. /\ CallOK(i) /\ i \in CallRecord /\ i.pc = "half" /\ i.outcome = "none" /\ r \in LF!FileRequest
      /\ r.op = "append" /\ r.path \in Path /\ r.new \in Mark /\ UNCHANGED <<instance, lock>>
      /\ i.text = Absent /\ files \in [Path -> Text \cup {Absent}]
  BY CallFacts, RequestParts DEF AppendWrites, Doing, CallOK
<1>1. /\ i.linked /\ found # Absent /\ found \in Text
      /\ i.begun # 0 => i.begun = Len(found) /\ found[Len(found)] = Half
  BY <1>0 DEF FileInv, StillThere
<1>2. LF!Pending(t, "append") /\ Mutates(job[t]) /\ LF!Quiet(t)
  BY <1>0, PendingIs, QuietIs DEF Mutates
<1>3. CASE i.begun # 0
  <2> DEFINE j == [i EXCEPT !.pc = "done", !.outcome = "done", !.linked = FALSE, !.begun = 0]
             then == [found EXCEPT ![Len(found)] = r.new]
  <2>1. job' = [job EXCEPT ![t] = j]
    BY <1>1, <1>3 DEF AppendWrites, AppendEnds
  <2>2. files' = [files EXCEPT ![r.path] = then]
    BY <1>1, <1>3 DEF AppendWrites, MyPath
  <2>3. /\ j \in CallRecord /\ j.request = r /\ j.pc = "done" /\ j.outcome = "done"
        /\ j.text = Absent /\ j.begun = 0
    <3> HIDE DEF i
    <3> QED
      BY <1>0 DEF CallRecord, PC, r
  <2> HIDE DEF j
  <2>4. found # <<>> /\ found[Len(found)] = Half
    <3>1. i.begun \in Nat /\ Len(<<>>) = 0
      BY <1>0 DEF CallRecord
    <3> QED
      BY <1>1, <1>3, <3>1
  <2>5. then \in Text
    <3>1. r.new \in Mark \cup {Half}
      BY <1>0
    <3> DEFINE k == Len(found)
               x == r.new
    <3>2. found \in Seq(Mark \cup {Half}) /\ k \in 1..Len(found) /\ x \in Mark \cup {Half}
      BY <1>1, <2>4, <3>1 DEF Text
    <3> HIDE DEF found, k, x
    <3>3. [found EXCEPT ![k] = x] \in Seq(Mark \cup {Half})
      BY <3>2, ExceptSeq
    <3> QED
      BY <3>3 DEF Text, k, x
  <2>6. CallOK(j) /\ \A fs : StillThere(j, fs)
    BY <1>0, <2>3 DEF CallOK, StillThere
  <2>7. /\ job' = [u \in Thread |-> job'[u]] /\ job'[t] = j
        /\ \A u \in Thread : u # t => TouchesNot(u)
    BY <2>1 DEF FileInv, TouchesNot
  <2>8. files' \in [Path -> Text \cup {Absent}]
    <3> HIDE DEF then
    <3> QED
      BY <1>0, <2>2, <2>5
  <2>9. FileInv' /\ LF!Set(t, "done", Absent)
    BY <1>0, <1>2, <2>3, <2>6, <2>7, <2>8, MutatorMoves
  <2>10. LF!Extend(t)
    BY <1>0, <1>1, <1>2, <1>3, <2>2, <2>4, <2>9 DEF LF!Extend, LF!Ends
  <2> QED
    BY <2>9, <2>10 DEF AsPromised, LF!Next
<1>4. CASE i.begun = 0
  <2> DEFINE j == [i EXCEPT !.begun = Len(found) + 1]
             then == Append(found, Half)
  <2>1. files' = [files EXCEPT ![r.path] = then] /\ job' = [job EXCEPT ![t] = j]
    BY <1>0, <1>1, <1>4 DEF AppendWrites, MyPath
  <2>2. then \in Text /\ then # Absent /\ Len(found) \in Nat /\ Len(then) = Len(found) + 1
        /\ then[Len(then)] = Half
    <3> HIDE DEF found
    <3> QED
      BY <1>1, AbsentAssumption DEF Text
  <2> HIDE DEF then
  <2>3. files' \in [Path -> Text \cup {Absent}] /\ files'[r.path] = then
    BY <1>0, <2>1, <2>2
  <2>4. /\ j \in CallRecord /\ j.request = r /\ j.pc = "half" /\ j.outcome = "none"
        /\ j.text = Absent /\ j.linked /\ j.begun = Len(then) /\ j.begun # 0
    <3> HIDE DEF i, found
    <3> QED
      BY <1>0, <1>1, <2>2 DEF CallRecord, r
  <2>5. job'[t] = j
    BY <2>1 DEF FileInv
  <2> HIDE DEF j
  <2>6. CallOK(j) /\ StillThere(j, files')
    BY <1>0, <2>2, <2>3, <2>4 DEF CallOK, StillThere
  <2>7. job' = [u \in Thread |-> job'[u]] /\ \A u \in Thread : u # t => TouchesNot(u)
    BY <2>1 DEF FileInv, TouchesNot
  <2>8. FileInv'
    BY <1>0, <1>2, <2>3, <2>5, <2>6, <2>7, MutatorMoves
  <2>9. Todo' = [Todo EXCEPT ![t] = [request |-> @.request, outcome |-> "none", text |-> Absent,
                                     begun |-> TRUE]]
    <3> DEFINE half == [request |-> r, outcome |-> "none", text |-> Absent, begun |-> TRUE]
    <3>1. Todo = [u \in Thread |-> Seen(job[u])] /\ Todo' = [u \in Thread |-> Seen(job'[u])]
      BY DEF Todo, Seen, SeenText
    <3>2. Seen(j) = half
      <4>1. (j.begun # 0) = TRUE
        BY <2>4
      <4> QED
        BY <2>4, <4>1 DEF Seen, SeenText
    <3>3. Todo[t].request = r
      BY DEF Todo
    <3>4. \A u \in Thread : job'[u] = IF u = t THEN j ELSE job[u]
      BY <2>1 DEF FileInv
    <3> HIDE DEF half, i, r
    <3>5. Todo' = [Todo EXCEPT ![t] = half]
      BY <3>1, <3>2, <3>4
    <3> QED
      BY <3>3, <3>5 DEF half
  <2>10. LF!Extend(t)
    <3>1. ~Todo[t].begun
      BY <1>4 DEF Todo
    <3> QED
      BY <1>0, <1>1, <1>2, <2>1, <2>9, <3>1 DEF LF!Extend, Todo, then
  <2> QED
    BY <2>8, <2>10 DEF AsPromised, LF!Next
<1> QED
  BY <1>3, <1>4

LEMMA DeleteIs ==
  ASSUME FileInv, NEW t \in Thread, DeleteGo(t)
  PROVE  FileInv' /\ AsPromised
<1> DEFINE i == job[t]
           r == i.request
<1>0. /\ CallOK(i) /\ i \in CallRecord /\ i.pc = "go" /\ i.outcome = "none" /\ r \in LF!FileRequest
      /\ r.op = "delete" /\ r.path \in Path /\ UNCHANGED <<instance, lock>> /\ i.text = Absent /\ i.begun = 0
      /\ files \in [Path -> Text \cup {Absent}] /\ Absent \in Text \cup {Absent}
  BY CallFacts, RequestParts DEF DeleteGo, Doing, CallOK
<1>1. LF!Pending(t, "delete") /\ Mutates(job[t])
  BY <1>0, PendingIs DEF Mutates
<1>2. ASSUME NEW o \in {"done", "missing"}
      PROVE  LET j == [i EXCEPT !.pc = "done", !.outcome = o]
             IN  /\ j \in CallRecord /\ j.request = i.request /\ j.pc = "done" /\ j.outcome = o
                 /\ j.text = Absent /\ j.begun = 0
  <2> HIDE DEF i
  <2> QED
    BY <1>0 DEF CallRecord, PC
<1>3. CASE files[r.path] = Absent
  <2> DEFINE o == IF r.flag THEN "done" ELSE "missing"
             j == [i EXCEPT !.pc = "done", !.outcome = o]
  <2>1. job' = [job EXCEPT ![t] = j] /\ UNCHANGED files /\ o \in {"done", "missing"}
    BY <1>3 DEF DeleteGo, MyPath, Outcome
  <2>2. /\ j \in CallRecord /\ j.request = i.request /\ j.pc = "done" /\ j.outcome = o
        /\ j.text = Absent /\ j.begun = 0
    <3> HIDE DEF o, i
    <3> QED
      BY <1>2, <2>1
  <2>3. FileInv' /\ LF!Set(t, o, Absent)
    <3> HIDE DEF o, j
    <3> QED
      BY <1>0, <2>1, <2>2, CallEnds
  <2>4. LF!Delete(t)
    BY <1>0, <1>1, <1>3, <2>1, <2>3 DEF LF!Delete, LF!Ends, LF!Set
  <2> QED
    BY <2>3, <2>4 DEF AsPromised, LF!Next
<1>4. CASE files[r.path] # Absent
  <2> DEFINE j == [i EXCEPT !.pc = "done", !.outcome = "done"]
  <2>1. files' = [files EXCEPT ![r.path] = Absent] /\ files' \in [Path -> Text \cup {Absent}]
    BY <1>0, <1>4 DEF DeleteGo, MyPath
  <2>2. job' = [Unlinked(MyPath(t), t) EXCEPT ![t] = j]
    <3>1. Unlinked(MyPath(t), t)[t] = i
      BY DEF Unlinked
    <3> QED
      BY <1>4, <3>1 DEF DeleteGo, MyPath
  <2>3. /\ j \in CallRecord /\ j.request = i.request /\ j.pc = "done" /\ j.outcome = "done"
        /\ j.text = Absent /\ j.begun = 0
    BY <1>2
  <2> HIDE DEF j
  <2>4. CallOK(j) /\ StillThere(j, files')
    BY <1>0, <2>3 DEF CallOK, StillThere
  <2>5. /\ job' = [u \in Thread |-> job'[u]] /\ job'[t] = j
        /\ \A u \in Thread : u # t => TouchesNot(u)
    BY <2>2, UnlinkedMoves
  <2>6. FileInv' /\ LF!Set(t, "done", Absent)
    <3>1. FileInv' /\ LF!Set(t, j.outcome, j.text)
      <4>1. /\ Mutates(job[t]) /\ j.request = job[t].request /\ j.pc \notin {"temp", "half"}
            /\ UNCHANGED <<instance, lock>> /\ files' \in [Path -> Text \cup {Absent}]
        BY <1>0, <1>1, <2>1, <2>3
      <4> HIDE DEF i, r
      <4> QED
        <5>1. PICK k : k = j
          OBVIOUS
        <5>2. /\ CallOK(k) /\ StillThere(k, files') /\ job'[t] = k /\ k.request = job[t].request
              /\ k.pc \notin {"temp", "half"}
          BY <2>4, <2>5, <4>1, <5>1
        <5>3. FileInv' /\ LF!Set(t, k.outcome, k.text)
          BY <2>5, <4>1, <5>2, MutatorMoves
        <5> QED
          BY <5>1, <5>3 DEF LF!Set
    <3> QED
      BY <2>3, <3>1 DEF LF!Set
  <2>7. LF!Delete(t)
    BY <1>0, <1>1, <1>4, <2>1, <2>6, QuietIs DEF LF!Delete, LF!Ends
  <2> QED
    BY <2>6, <2>7 DEF AsPromised, LF!Next
<1> QED
  BY <1>3, <1>4

(* A removal of the tree takes files, and temporary files, one by one.     *)
LEMMA RemoveIs ==
  ASSUME FileInv, NEW t \in Thread, RemoveOne(t) \/ RemoveTemp(t)
  PROVE  FileInv' /\ AsPromised
<1>0. /\ CallOK(job[t]) /\ job[t].pc = "go" /\ job[t].request.op = "rmtree" /\ job[t].outcome = "none"
      /\ UNCHANGED <<instance, lock>> /\ files \in [Path -> Text \cup {Absent}]
  BY CallFacts DEF RemoveOne, RemoveTemp, Doing, CallOK
<1>1. LF!Pending(t, "rmtree") /\ Mutates(job[t])
  BY <1>0, PendingIs DEF Mutates
<1>2. ASSUME job' = [u \in Thread |-> job'[u]], job'[t] = job[t],
             \A u \in Thread : u # t => TouchesNot(u), files' \in [Path -> Text \cup {Absent}]
      PROVE  FileInv' /\ UNCHANGED Todo
  <2> DEFINE j == job[t]
  <2>1. CallOK(j) /\ job'[t] = j /\ StillThere(j, files') /\ Seen(j) = Seen(job[t])
    BY <1>0, <1>2 DEF StillThere
  <2> HIDE DEF j
  <2> QED
    BY <1>0, <1>1, <1>2, <2>1, MutatorMoves
<1>3. CASE RemoveOne(t)
  <2>1. PICK p \in Path : /\ files[p] # Absent /\ files' = [files EXCEPT ![p] = Absent]
                          /\ job' = Unlinked(p, t)
    BY <1>3 DEF RemoveOne
  <2>2. /\ job' = [u \in Thread |-> job'[u]] /\ job'[t] = job[t]
        /\ \A u \in Thread : u # t => TouchesNot(u)
    BY <2>1 DEF Unlinked, Doing, TouchesNot, Cut
  <2>3. files' \in [Path -> Text \cup {Absent}]
    BY <1>0, <2>1
  <2>4. FileInv' /\ UNCHANGED Todo
    BY <1>2, <2>2, <2>3
  <2>5. LF!Remove(t)
    BY <1>1, <2>1, <2>4, QuietIs DEF LF!Remove, Todo
  <2> QED
    BY <2>4, <2>5 DEF AsPromised, LF!Next
<1>4. CASE RemoveTemp(t)
  <2>1. UNCHANGED files /\ \E p \in Path :
          job' = [u \in Thread |->
                    IF job[u].pc = "temp" /\ MyPath(u) = p
                    THEN [job[u] EXCEPT !.linked = FALSE] ELSE job[u]]
    BY <1>4 DEF RemoveTemp
  <2>2. /\ job' = [u \in Thread |-> job'[u]] /\ job'[t] = job[t]
        /\ \A u \in Thread : u # t => TouchesNot(u)
    BY <1>0, <2>1 DEF TouchesNot, Cut
  <2>3. files' \in [Path -> Text \cup {Absent}]
    BY <1>0, <2>1
  <2>4. FileInv' /\ UNCHANGED Todo
    BY <1>2, <2>2, <2>3
  <2>5. UNCHANGED LF!vars
    BY <2>1, <2>4 DEF LF!vars, Todo
  <2> QED
    BY <2>4, <2>5 DEF AsPromised
<1> QED
  BY <1>3, <1>4

LEMMA FileStep ==
  ASSUME FileInv, [Next]_vars
  PROVE  FileInv' /\ AsPromised
<1>1. ASSUME NEW t \in Thread, Call(t) \/ Step(t) PROVE FileInv' /\ AsPromised
  BY <1>1, CallIs, ExclusiveTestIs, AcquireIs, WriteGoIs, PatchGoIs, ReplaceIs, FailureIs, AppendGoIs,
     AppendWritesIs, DeleteIs, RemoveIs, RemovedAllIs, ReadIs, ReturnIs DEF Step
<1>2. CASE UNCHANGED vars
  <2>1. UNCHANGED <<files, job, lock, instance>>
    BY <1>2 DEF vars
  <2>2. FileInv'
    BY <2>1 DEF FileInv, OneObject
  <2>3. UNCHANGED LF!vars
    BY <2>1 DEF LF!vars
  <2> QED
    BY <2>2, <2>3 DEF AsPromised
<1> QED
  BY <1>1, <1>2, CrashIs DEF Next

(* Threads that share a FileWorkspace get what LinearFiles promises: a     *)
(* write, a patch, a deletion and a read take effect at one instant,       *)
(* however the calls interleave, and nothing changes a file between the    *)
(* halves of an append; the half that a failed append or a crash leaves in *)
(* the file stays there.                                                   *)
THEOREM FilesAreLinear == Spec => LosesNoUpdate
<1> DEFINE Inv == OneObject => FileInv
           Promise == OneObject => UNCHANGED LF!vars \/ LF!Next
<1>1. Init => LF!Init
  <2> SUFFICES ASSUME Init PROVE LF!Init
    OBVIOUS
  <2>1. Todo = [t \in Thread |-> LF!Idle]
    BY DEF Init, Todo, Idle, LF!Idle
  <2> QED
    BY <2>1 DEF Init, LF!Init, Todo
<1>2. Init => Inv
  BY IdleIs DEF Init, FileInv
<1>3. ASSUME Inv, [Next]_vars PROVE Inv' /\ [Promise]_LF!vars
  <2>1. UNCHANGED instance
    BY <1>3 DEF Next, Step, vars, Crash, Call, ExclusiveTest, Acquire, WriteGo, PatchGo, Replace,
                WriteFails, AppendGo, AppendWrites, AppendFails, DeleteGo, RemoveOne, RemoveTemp,
                RemovedAll, ReadGo, ReadText, Return
  <2>2. OneObject' <=> OneObject
    BY <2>1 DEF OneObject
  <2> QED
    BY <1>3, <2>2, FileStep DEF AsPromised
<1> QED
  BY <1>1, <1>2, <1>3, PTL DEF Spec, LosesNoUpdate
=============================================================================
