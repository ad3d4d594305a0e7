---------------------------- MODULE LinearFiles ----------------------------
(***************************************************************************)
(* What the file operations of one task's workspace promise to the agents  *)
(* that call them: a write, a patch, a deletion or a read takes effect at  *)
(* one instant between its call and its return, and its outcome is what    *)
(* the files were at that instant.  Only an append and the removal of the  *)
(* tree take several instants; while an append is half way nothing else    *)
(* changes a file, and one that fails there leaves its half in the file.   *)
(***************************************************************************)
EXTENDS Integers, Sequences, FiniteSets

CONSTANTS
    Thread,     \* the callers
    Path,       \* files of the workspace
    Mark,       \* pieces of text: what is written, looked for and replaced
    Half,       \* the written half of a piece
    Absent      \* no such file

VARIABLES
    files,      \* the text of each path
    todo        \* the request each thread waits for, its outcome and what it read

Text == Seq(Mark \cup {Half})

FileRequest ==
    [op : {"write"}, path : Path, new : Mark, flag : BOOLEAN]
    \cup [op : {"append"}, path : Path, new : Mark]
    \cup [op : {"patch"}, path : Path, old : Mark, new : Mark, count : 0..1]
    \cup [op : {"delete"}, path : Path, flag : BOOLEAN]
    \cup [op : {"rmtree"}]
    \cup [op : {"read"}, path : Path]

Idle == [request |-> [op |-> "none"], outcome |-> "none", text |-> Absent,
         begun |-> FALSE]       \* an append has written the half of its piece

Init ==
    /\ files \in [Path -> {Absent}]
    /\ todo = [t \in Thread |-> Idle]

-----------------------------------------------------------------------------
Count(text, m) == Cardinality({i \in DOMAIN text : text[i] = m})
Replaced(text, old, new) == [i \in DOMAIN text |-> IF text[i] = old THEN new ELSE text[i]]

Pending(t, op) == todo[t].request.op = op /\ todo[t].outcome = "none"

Set(t, outcome, text) ==
    todo' = [todo EXCEPT ![t] = [request |-> @.request, outcome |-> outcome, text |-> text,
                                 begun |-> FALSE]]

Ends(t, outcome) == Set(t, outcome, Absent)

Quiet(t) == \A u \in Thread \ {t} : ~todo[u].begun

Call(t) ==
    /\ todo[t] = Idle
    /\ \E r \in FileRequest : todo' = [todo EXCEPT ![t].request = r]
    /\ UNCHANGED files

(* Being exclusive is no promise: the test is made before the write.       *)
Write(t) ==
    /\ Pending(t, "write")
    /\ LET r == todo[t].request IN
          \/ /\ Quiet(t)
             /\ files' = [files EXCEPT ![r.path] = <<r.new>>]
             /\ Ends(t, "done")
          \/ /\ r.flag
             /\ files[r.path] # Absent
             /\ Ends(t, "exists")
             /\ UNCHANGED files

Patch(t) ==
    /\ Pending(t, "patch")
    /\ LET r == todo[t].request
           now == files[r.path]
       IN  \/ /\ now = Absent
              /\ Ends(t, "missing")
              /\ UNCHANGED files
           \/ /\ now # Absent
              /\ Count(now, r.old) # r.count
              /\ Ends(t, "conflict")
              /\ UNCHANGED files
           \/ /\ now # Absent
              /\ Count(now, r.old) = r.count
              /\ Quiet(t)
              /\ files' = [files EXCEPT ![r.path] = Replaced(now, r.old, r.new)]
              /\ Ends(t, "done")

Delete(t) ==
    /\ Pending(t, "delete")
    /\ LET r == todo[t].request IN
          IF files[r.path] = Absent
          THEN Ends(t, IF r.flag THEN "done" ELSE "missing") /\ UNCHANGED files
          ELSE /\ Quiet(t)
               /\ files' = [files EXCEPT ![r.path] = Absent]
               /\ Ends(t, "done")

Read(t) ==
    /\ Pending(t, "read")
    /\ LET now == files[todo[t].request.path] IN
          IF now = Absent THEN Ends(t, "missing") ELSE Set(t, "done", now)
    /\ UNCHANGED files

(* An append creates the file, adds the half of its piece at the end, and  *)
(* makes that half whole.                                                  *)
Extend(t) ==
    /\ Pending(t, "append")
    /\ Quiet(t)
    /\ LET r == todo[t].request
           now == files[r.path]
       IN  \/ /\ now = Absent
              /\ files' = [files EXCEPT ![r.path] = <<>>]
              /\ UNCHANGED todo
           \/ /\ now # Absent
              /\ ~todo[t].begun
              /\ files' = [files EXCEPT ![r.path] = Append(now, Half)]
              /\ todo' = [todo EXCEPT ![t] = [request |-> @.request, outcome |-> "none",
                                              text |-> Absent, begun |-> TRUE]]
           \/ /\ now \notin {Absent, <<>>}
              /\ todo[t].begun
              /\ now[Len(now)] = Half
              /\ files' = [files EXCEPT ![r.path] = [now EXCEPT ![Len(now)] = r.new]]
              /\ Ends(t, "done")

(* Files go one by one, and all of them are gone when the removal ends.    *)
Remove(t) ==
    /\ Pending(t, "rmtree")
    /\ \/ /\ Quiet(t)
          /\ \E p \in Path : files[p] # Absent /\ files' = [files EXCEPT ![p] = Absent]
          /\ UNCHANGED todo
       \/ /\ \A p \in Path : files[p] = Absent
          /\ Ends(t, "done")
          /\ UNCHANGED files

(* Any operation may fail, and the process may stop.                       *)
Fail(t) ==
    /\ todo[t] # Idle
    /\ todo[t].outcome = "none"
    /\ Ends(t, "failed")
    /\ UNCHANGED files

Return(t) ==
    /\ todo[t].outcome # "none"
    /\ todo' = [todo EXCEPT ![t] = Idle]
    /\ UNCHANGED files

Crash ==
    /\ todo' = [t \in Thread |-> Idle]
    /\ UNCHANGED files

Next ==
    \/ \E t \in Thread :
          \/ Call(t) \/ Write(t) \/ Patch(t) \/ Delete(t) \/ Read(t)
          \/ Extend(t) \/ Remove(t) \/ Fail(t) \/ Return(t)
    \/ Crash

vars == <<files, todo>>
Spec == Init /\ [][Next]_vars
=============================================================================
