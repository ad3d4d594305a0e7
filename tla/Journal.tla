------------------------------ MODULE Journal ------------------------------
(***************************************************************************)
(* storage/journal.py over a Redis server: every step of a task goes to    *)
(* the stream of the task and then to the stream of all tasks, by two      *)
(* calls that each suspend and may each fail.  With the client's           *)
(* dictionaries the two pushes run without a suspension: those behaviours  *)
(* are among these.                                                        *)
(***************************************************************************)
EXTENDS Integers, Sequences, FiniteSets

CONSTANTS
  JTask,          \* tasks with a journal
  Writer,         \* callers of log_step, one call at a time each
  Reader,         \* callers of get_last_checkpoint
  MaxBulkFetch,   \* _MAX_BULK_FETCH
  MaxSteps        \* bound: entries of one task's stream

All == "journal:all"
ASSUME JournalAssumption ==
  /\ MaxBulkFetch \in Nat \ {0} /\ MaxSteps \in Nat
  /\ All \notin JTask

Entry == [task : JTask, id : Nat \ {0}, checkpoint : BOOLEAN]
NoEntry == [id |-> 0]

VARIABLES
  streams,   \* the server's streams, of entries [task, id, checkpoint]
  logging,   \* the entry a writer has pushed to its task's stream only, or NoEntry
  reading,   \* the task whose stream a reader waits for, or All when it reads none
  cut,       \* entries whose log_step raised between the two pushes
  answer     \* the checkpoint a reader got last, per task; 0 before the first

journalVars == <<streams, logging, reading, cut, answer>>

JournalInit ==
  /\ streams = [s \in JTask \cup {All} |-> <<>>]
  /\ logging = [w \in Writer |-> NoEntry]
  /\ reading = [r \in Reader |-> All]
  /\ cut = {}
  /\ answer = [r \in Reader |-> [t \in JTask |-> 0]]

Push(s, e) == streams' = [streams EXCEPT ![s] = Append(@, e)]

(* Mutant: the global stream first.                                        *)
LogGlobalFirst(w) ==
  /\ logging[w] = NoEntry
  /\ \E t \in JTask, c \in BOOLEAN :
       LET e == [task |-> t, id |-> Len(streams[t]) + 1, checkpoint |-> c] IN
       /\ Len(streams[t]) < MaxSteps
       /\ Push(All, e)
       /\ logging' = [logging EXCEPT ![w] = e]
  /\ UNCHANGED <<reading, cut, answer>>

(* log_step up to the answer of the first push.  When that push raises,    *)
(* nothing has changed.                                                    *)
LogTaskStep(w) ==
  /\ logging[w] = NoEntry
  /\ \E t \in JTask, c \in BOOLEAN :
       LET e == [task |-> t, id |-> Len(streams[t]) + 1, checkpoint |-> c] IN
       /\ Len(streams[t]) < MaxSteps
       /\ Push(t, e)
       /\ logging' = [logging EXCEPT ![w] = e]
  /\ UNCHANGED <<reading, cut, answer>>

(* The second push is answered, and log_step returns.                      *)
LogGlobalStep(w) ==
  /\ logging[w] # NoEntry
  /\ Push(All, logging[w])
  /\ logging' = [logging EXCEPT ![w] = NoEntry]
  /\ UNCHANGED <<reading, cut, answer>>

(* The second push raises: the caller sees a failed log_step whose entry   *)
(* stays in the task's stream.                                             *)
LogCut(w) ==
  /\ logging[w] # NoEntry
  /\ cut' = cut \cup {logging[w]}
  /\ logging' = [logging EXCEPT ![w] = NoEntry]
  /\ UNCHANGED <<streams, reading, answer>>

AskCheckpoint(r) ==
  /\ reading[r] = All
  /\ \E t \in JTask : reading' = [reading EXCEPT ![r] = t]
  /\ UNCHANGED <<streams, logging, cut, answer>>

Fetched(t) ==
  SubSeq(streams[t], 1, IF MaxBulkFetch < Len(streams[t]) THEN MaxBulkFetch ELSE Len(streams[t]))
Checkpoints(s) == {i \in DOMAIN s : s[i].checkpoint}
LastOf(I) == CHOOSE i \in I : \A j \in I : j <= i

(* Mutant: the task's checkpoints are taken from the global stream.        *)
GetLastGlobalCheckpoint(r) ==
  /\ reading[r] # All
  /\ LET t == reading[r]
         found == {i \in Checkpoints(streams[All]) : streams[All][i].task = t} IN
     /\ streams[All] # <<>>
     /\ answer' = IF found = {} THEN answer
                  ELSE [answer EXCEPT ![r][t] = streams[All][LastOf(found)].id]
     /\ reading' = [reading EXCEPT ![r] = All]
  /\ UNCHANGED <<streams, logging, cut>>

(* The server answers with the oldest entries, as many as the bulk limit   *)
(* allows; on an empty stream XREAD BLOCK 0 has no answer until somebody   *)
(* pushes.  No checkpoint among them is answered with None.                *)
GetLastCheckpoint(r) ==
  /\ reading[r] # All
  /\ LET t == reading[r] IN
     /\ streams[t] # <<>>
     /\ LET found == Checkpoints(Fetched(t)) IN
        answer' = IF found = {} THEN answer
                  ELSE [answer EXCEPT ![r][t] = Fetched(t)[LastOf(found)].id]
     /\ reading' = [reading EXCEPT ![r] = All]
  /\ UNCHANGED <<streams, logging, cut>>

JournalNext ==
  \/ \E w \in Writer : LogTaskStep(w) \/ LogGlobalStep(w) \/ LogCut(w)
  \/ \E r \in Reader : AskCheckpoint(r) \/ GetLastCheckpoint(r)

JournalSpec == JournalInit /\ [][JournalNext]_journalVars

Entries(s) == {s[i] : i \in DOMAIN s}
Pending == {logging[w] : w \in Writer} \ {NoEntry}

JournalTypeOK ==
  /\ streams \in [JTask \cup {All} -> Seq(Entry)]
  /\ logging \in [Writer -> Entry \cup {NoEntry}]
  /\ reading \in [Reader -> JTask \cup {All}]
  /\ cut \in SUBSET Entry
  /\ answer \in [Reader -> [JTask -> Nat]]

(* What the module promises of its two streams, with writers interleaved   *)
(* and pushes failing: the global stream holds no step that its task's     *)
(* stream lacks, and the steps it lacks are those of a log_step that is    *)
(* between its pushes or that raised there.                                *)
EveryStepIsGlobal ==
  /\ \A e \in Entries(streams[All]) : e \in Entries(streams[e.task])
  /\ \A t \in JTask : Entries(streams[t]) \ Entries(streams[All]) = {e \in Pending \cup cut : e.task = t}

(* A task resumed from its checkpoint twice never starts further back the  *)
(* second time: the checkpoints one reader gets of a task only advance,    *)
(* also when concurrent steps reach the two streams in different orders    *)
(* and when the bulk limit hides the newest.                               *)
CheckpointsNeverGoBack ==
  [][\A r \in Reader, t \in JTask : answer'[r][t] >= answer[r][t]]_journalVars
=============================================================================
