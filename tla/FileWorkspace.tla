--------------------------- MODULE FileWorkspace ---------------------------
(***************************************************************************)
(* FileWorkspace: the file operations of one task, called by threads.  The *)
(* mutating ones hold the lock of their FileWorkspace object; readers hold *)
(* none, and neither does the exclusive test of a write.  Two objects made *)
(* for the same task (as every endpoint does) share files and no lock.     *)
(*                                                                         *)
(* A step is one call to the file system.  Paths are files: directories    *)
(* are made as needed and have no state here.  A text is a sequence of     *)
(* pieces; Half is a piece half of which reached the file.                 *)
(***************************************************************************)
EXTENDS Integers, Sequences, FiniteSets

CONSTANTS
    Thread,     \* threads that use the workspace of the task
    Instance,   \* FileWorkspace objects made for it
    Owners,     \* ways the threads may have come by their objects
    Path,       \* files
    Mark,       \* pieces of text
    MaxLen,     \* bound: pieces in a text; an append to a longer one fails
    MaxCrashes, \* bound: crashes of the process
    Half,       \* the written half of a piece
    Absent,     \* no such file
    None        \* nobody

ASSUME AbsentAssumption == Absent \notin Seq(Mark \cup {Half})
ASSUME HalfAssumption == Half \notin Mark
ASSUME NoneAssumption == None \notin Thread
ASSUME OwnersAssumption == Owners \subseteq [Thread -> Instance]
ASSUME BoundAssumption == MaxLen \in Nat /\ MaxCrashes \in Nat

VARIABLES
    instance,   \* the object each thread calls
    files,      \* Path -> text, as the directory shows it
    lock,       \* _lock of each object: the thread that holds it
    job,        \* the call each thread is in
    leftovers,  \* files whose temporary copies nobody will rename or remove
    crashes     \* crashes so far

vars == <<instance, files, lock, job, leftovers, crashes>>

Text == Seq(Mark \cup {Half})

LF == INSTANCE LinearFiles WITH
        todo <- [t \in Thread |-> [request |-> job[t].request,
                                   outcome |-> job[t].outcome,
                                   begun |-> job[t].begun # 0,
                                   text |-> IF job[t].pc = "temp" THEN Absent ELSE job[t].text]]

PC == {"idle", "test", "wait", "go", "temp", "half", "read", "done"}

Idle == [request |-> [op |-> "none"], pc |-> "idle", outcome |-> "none",
         text |-> Absent,       \* what was read, or is to be written
         linked |-> FALSE,      \* the open or temporary file still has its name
         begun |-> 0]           \* where an append wrote the half of its piece

TypeOK ==
    /\ instance \in Owners
    /\ files \in [Path -> Text \cup {Absent}]
    /\ lock \in [Instance -> Thread \cup {None}]
    /\ \A t \in Thread :
          /\ job[t].request \in LF!FileRequest \cup {[op |-> "none"]}
          /\ job[t].pc \in PC
          /\ job[t].text \in Text \cup {Absent}
          /\ job[t].linked \in BOOLEAN
          /\ job[t].begun \in 0..MaxLen
    /\ leftovers \subseteq Path
    /\ crashes \in 0..MaxCrashes

Init ==
    /\ instance \in Owners
    /\ files = [p \in Path |-> Absent]
    /\ lock = [i \in Instance |-> None]
    /\ job = [t \in Thread |-> Idle]
    /\ leftovers = {}
    /\ crashes = 0

-----------------------------------------------------------------------------
Count(text, m) == Cardinality({i \in DOMAIN text : text[i] = m})
Replaced(text, old, new) == [i \in DOMAIN text |-> IF text[i] = old THEN new ELSE text[i]]

Doing(t, op, pc) == job[t].request.op = op /\ job[t].pc = pc
MyPath(t) == job[t].request.path

Goto(t, pc) == job' = [job EXCEPT ![t].pc = pc]
Outcome(t, outcome) == job' = [job EXCEPT ![t].pc = "done", ![t].outcome = outcome]

(* The name p now means another file, or none: a descriptor opened by an   *)
(* append of another thread leads nowhere.                                 *)
Unlinked(p, t) ==
    [u \in Thread |->
        IF u # t /\ Doing(u, "append", "half") /\ MyPath(u) = p
        THEN [job[u] EXCEPT !.linked = FALSE] ELSE job[u]]

-----------------------------------------------------------------------------
(* The request comes in; write tests "exclusive" and read looks for its    *)
(* file before, or without, taking the lock.                               *)
Call(t) ==
    /\ job[t] = Idle
    /\ \E r \in LF!FileRequest :
          job' = [job EXCEPT ![t].request = r,
                             ![t].pc = CASE r.op = "write" /\ r.flag -> "test"
                                         [] r.op = "read" -> "go"
                                         [] OTHER -> "wait"]
    /\ UNCHANGED <<instance, files, lock, leftovers, crashes>>

ExclusiveTest(t) ==
    /\ Doing(t, "write", "test")
    /\ IF files[MyPath(t)] # Absent THEN Outcome(t, "exists") ELSE Goto(t, "wait")
    /\ UNCHANGED <<instance, files, lock, leftovers, crashes>>

AcquireUnlessPatch(t) ==  \* mutant: a patch takes no lock
    /\ job[t].pc = "wait"
    /\ job[t].request.op # "patch" => lock[instance[t]] = None
    /\ lock' = IF job[t].request.op = "patch" THEN lock ELSE [lock EXCEPT ![instance[t]] = t]
    /\ Goto(t, "go")
    /\ UNCHANGED <<instance, files, leftovers, crashes>>

Acquire(t) ==
    /\ job[t].pc = "wait"
    /\ lock[instance[t]] = None
    /\ lock' = [lock EXCEPT ![instance[t]] = t]
    /\ Goto(t, "go")
    /\ UNCHANGED <<instance, files, leftovers, crashes>>

MakeTemp(t, text) ==
    job' = [job EXCEPT ![t].pc = "temp", ![t].text = text, ![t].linked = TRUE]

WriteGo(t) ==
    /\ Doing(t, "write", "go")
    /\ MakeTemp(t, <<job[t].request.new>>)
    /\ UNCHANGED <<instance, files, lock, leftovers, crashes>>

(* The text is read and counted, and the patched one goes to a temporary   *)
(* file.                                                                   *)
PatchGo(t) ==
    /\ Doing(t, "patch", "go")
    /\ LET r == job[t].request
           now == files[r.path]
       IN  CASE now = Absent -> Outcome(t, "missing")
             [] now # Absent /\ Count(now, r.old) # r.count -> Outcome(t, "conflict")
             [] OTHER -> MakeTemp(t, Replaced(now, r.old, r.new))
    /\ UNCHANGED <<instance, files, lock, leftovers, crashes>>

(* os.replace, when a removal of the tree left the temporary file alone.   *)
Replace(t) ==
    /\ job[t].pc = "temp"
    /\ job[t].linked
    /\ files' = [files EXCEPT ![MyPath(t)] = job[t].text]
    /\ job' = [Unlinked(MyPath(t), t) EXCEPT
                  ![t] = [@ EXCEPT !.outcome = "done", !.pc = "done", !.text = Absent,
                                   !.linked = FALSE]]
    /\ UNCHANGED <<instance, lock, leftovers, crashes>>

(* The write, the sync or the rename raises: the temporary file goes.      *)
WriteFails(t) ==
    /\ job[t].pc = "temp"
    /\ job' = [job EXCEPT ![t] = [@ EXCEPT !.outcome = "failed", !.pc = "done", !.text = Absent,
                                           !.linked = FALSE]]
    /\ UNCHANGED <<instance, files, lock, leftovers, crashes>>

(* The file is opened, and made if need be; its text is written at its end *)
(* and reaches it in parts.                                                *)
AppendGo(t) ==
    /\ Doing(t, "append", "go")
    /\ IF files[MyPath(t)] = Absent
       THEN files' = [files EXCEPT ![MyPath(t)] = <<>>]
       ELSE UNCHANGED files
    /\ job' = [job EXCEPT ![t].pc = "half", ![t].linked = TRUE]
    /\ UNCHANGED <<instance, lock, leftovers, crashes>>

(* The rest of the piece follows its half.  It makes the piece whole when  *)
(* nobody wrote between the two, as an append by another object may; the   *)
(* half that a failed or stopped append left behind stays.                 *)
AppendEnds(t, outcome) ==
    job' = [job EXCEPT ![t] = [@ EXCEPT !.pc = "done", !.outcome = outcome,
                                        !.linked = FALSE, !.begun = 0]]

AppendWrites(t) ==
    /\ Doing(t, "append", "half")
    /\ LET p == MyPath(t)
           end == Len(files[p])
       IN  \/ ~job[t].linked /\ AppendEnds(t, "done") /\ UNCHANGED files
           \/ /\ job[t].linked
              /\ job[t].begun = 0
              /\ end < MaxLen
              /\ files' = [files EXCEPT ![p] = Append(@, Half)]
              /\ job' = [job EXCEPT ![t].begun = end + 1]
           \/ /\ job[t].linked
              /\ job[t].begun # 0
              /\ IF job[t].begun = end
                 THEN files' = [files EXCEPT ![p][end] = job[t].request.new]
                 ELSE end < MaxLen /\ files' = [files EXCEPT ![p] = Append(@, Half)]
              /\ AppendEnds(t, "done")
    /\ UNCHANGED <<instance, lock, leftovers, crashes>>

AppendFails(t) ==
    /\ Doing(t, "append", "half")
    /\ AppendEnds(t, "failed")
    /\ UNCHANGED <<instance, files, lock, leftovers, crashes>>

DeleteGo(t) ==
    /\ Doing(t, "delete", "go")
    /\ IF files[MyPath(t)] = Absent
       THEN /\ Outcome(t, IF job[t].request.flag THEN "done" ELSE "missing")
            /\ UNCHANGED files
       ELSE /\ files' = [files EXCEPT ![MyPath(t)] = Absent]
            /\ job' = [Unlinked(MyPath(t), t) EXCEPT
                          ![t] = [@ EXCEPT !.pc = "done", !.outcome = "done"]]
    /\ UNCHANGED <<instance, lock, leftovers, crashes>>

(* rmtree removes what it finds, temporary files included, in some order.  *)
RemoveOne(t) ==
    /\ Doing(t, "rmtree", "go")
    /\ \E p \in Path :
          /\ files[p] # Absent
          /\ files' = [files EXCEPT ![p] = Absent]
          /\ job' = Unlinked(p, t)
    /\ UNCHANGED <<instance, lock, leftovers, crashes>>

RemoveTemp(t) ==
    /\ Doing(t, "rmtree", "go")
    /\ \E p \in Path :
          /\ \/ p \in leftovers
             \/ \E u \in Thread : job[u].pc = "temp" /\ job[u].linked /\ MyPath(u) = p
          /\ leftovers' = leftovers \ {p}
          /\ job' = [u \in Thread |->
                        IF job[u].pc = "temp" /\ MyPath(u) = p
                        THEN [job[u] EXCEPT !.linked = FALSE] ELSE job[u]]
    /\ UNCHANGED <<instance, files, lock, crashes>>

RemovedAll(t) ==
    /\ Doing(t, "rmtree", "go")
    /\ \A p \in Path : files[p] = Absent
    /\ leftovers = {}
    /\ \A u \in Thread : job[u].pc = "temp" => ~job[u].linked
    /\ Outcome(t, "done")
    /\ UNCHANGED <<instance, files, lock, leftovers, crashes>>

(* read: the file is looked for, then opened and read at once.             *)
ReadGo(t) ==
    /\ Doing(t, "read", "go")
    /\ IF files[MyPath(t)] = Absent THEN Outcome(t, "missing") ELSE Goto(t, "read")
    /\ UNCHANGED <<instance, files, lock, leftovers, crashes>>

ReadText(t) ==
    /\ Doing(t, "read", "read")
    /\ LET now == files[MyPath(t)] IN
          job' = [job EXCEPT ![t].pc = "done",
                             ![t].outcome = IF now = Absent THEN "missing" ELSE "done",
                             ![t].text = now]
    /\ UNCHANGED <<instance, files, lock, leftovers, crashes>>

Return(t) ==
    /\ job[t].pc = "done"
    /\ lock' = [i \in Instance |-> IF lock[i] = t THEN None ELSE lock[i]]
    /\ job' = [job EXCEPT ![t] = Idle]
    /\ UNCHANGED <<instance, files, leftovers, crashes>>

(* The process stops; the threads of the next one start with free locks,   *)
(* and the temporary files of the writes it was in are left.               *)
Crash ==
    /\ crashes < MaxCrashes
    /\ crashes' = crashes + 1
    /\ leftovers' = leftovers \cup
          {MyPath(t) : t \in {u \in Thread : job[u].pc = "temp" /\ job[u].linked}}
    /\ lock' = [i \in Instance |-> None]
    /\ job' = [t \in Thread |-> Idle]
    /\ UNCHANGED <<instance, files>>

Step(t) ==
    \/ ExclusiveTest(t) \/ Acquire(t) \/ WriteGo(t) \/ PatchGo(t) \/ Replace(t)
    \/ WriteFails(t) \/ AppendGo(t) \/ AppendWrites(t) \/ AppendFails(t) \/ DeleteGo(t)
    \/ RemoveOne(t) \/ RemoveTemp(t) \/ RemovedAll(t) \/ ReadGo(t) \/ ReadText(t) \/ Return(t)

Next == Crash \/ \E t \in Thread : Call(t) \/ Step(t)

Spec == Init /\ [][Next]_vars

-----------------------------------------------------------------------------
OneObject == \A t, u \in Thread : instance[t] = instance[u]

(* Threads that share one object get what LinearFiles promises: no patch   *)
(* is applied to a text another thread has replaced since it was counted,  *)
(* and no outcome tells of files that never were.                          *)
LosesNoUpdate == LF!Init /\ [][OneObject => UNCHANGED LF!vars \/ LF!Next]_LF!vars

=============================================================================
