---------------------------- MODULE RuntimeLoop ----------------------------
(***************************************************************************)
(* RuntimeLoop.run over a task's workspace, as POST /tasks/{id}/run-loop   *)
(* starts it: the tests run in the sandbox, their state is committed, a    *)
(* fix is asked for, again.  Other actors may use the version control of   *)
(* the same workspace and edit its files meanwhile.                        *)
(*                                                                         *)
(* The tests write into the workspace as they like.  Their processes stay  *)
(* in the group the sandbox started them in, which is killed when they     *)
(* time out; a run that ends by itself may leave some behind, and these    *)
(* write like anybody else (Edits).                                        *)
(***************************************************************************)
EXTENDS GitWorkspace

CONSTANTS
    Loop,           \* actors that run the loop
    Caller,         \* actors that call operations of GitWorkspace
    Ops,            \* those the callers call
    fix_callback,   \* whether the loop was given one
    MAX_ITERATIONS, \* RuntimeLoop.MAX_ITERATIONS
    MaxMoves,       \* bound: edits, and operations the callers call
    Requested       \* max_iterations of the requests

ASSUME ActorsAssumption == Actor = Loop \cup Caller /\ Loop \cap Caller = {}
ASSUME LoopAssumption ==
    /\ Ops \subseteq Operations
    /\ fix_callback \in BOOLEAN
    /\ Requested \subseteq Int /\ MAX_ITERATIONS \in Int

VARIABLES
    loop,   \* each run of the loop
    alive,  \* the loops whose test run has processes that the loop waits for
    moves   \* edits and moves so far

vars == <<gitVars, loop, alive, moves>>

Start0 == [pc |-> "idle", left |-> 0, verdict |-> "none", committed |-> FALSE,
           tested |-> NoFiles,  \* the workspace when the tests were over
           touched |-> FALSE]   \* somebody else changed it since

PC == {"idle", "init", "test", "testing", "draining", "commit", "committing", "fix", "passed", "failed", "error"}

(* The parts keep their domains.                                           *)
TypeOK ==
    /\ repo.index \in Tree /\ repo.work \in Tree
    /\ repo.branch \in [Branch -> 0..Len(repo.commits)]
    /\ \A a \in Actor : call[a].state \in {"idle", "next", "running", "returned"}
    /\ \A l \in Loop : loop[l].pc \in PC /\ loop[l].tested \in Tree
    /\ alive \subseteq Loop

Init ==
    /\ GitInit
    /\ loop = [l \in Loop |-> Start0]
    /\ alive = {}
    /\ moves = 0

-----------------------------------------------------------------------------
AfterTest == {"commit", "committing", "fix", "passed", "failed"}

(* Changes by others than l, between its tests and its commit.             *)
Touched(except) ==
    loop' = [l \in Loop |->
                IF l \in except \/ loop[l].pc \notin AfterTest
                THEN loop[l] ELSE [loop[l] EXCEPT !.touched = TRUE]]

Move == moves < MaxMoves /\ moves' = moves + 1

Goto(l, pc) == loop' = [loop EXCEPT ![l].pc = pc]

(* max_iterations or MAX_ITERATIONS; with a negative number no test run is *)
(* ever bound, and the summary raises.                                     *)
Run(l) ==
    /\ loop[l].pc = "idle"
    /\ \E n \in Requested :
          loop' = [loop EXCEPT ![l].left = IF n = 0 THEN MAX_ITERATIONS ELSE n,
                               ![l].pc = "init"]
    /\ Call(l, "init", Main)
    /\ UNCHANGED <<repo, zombies, announced, alive, moves>>

Initialised(l) ==
    /\ loop[l].pc = "init"
    /\ Returned(l)
    /\ Goto(l, IF call[l].exit = "ok" /\ loop[l].left > 0 THEN "test" ELSE "error")
    /\ call' = [call EXCEPT ![l] = Idle]
    /\ UNCHANGED <<repo, zombies, announced, alive, moves>>

(* The framework is detected, the bytecode removed and the process started *)
(* in a group of its own; without the command there is a result at once.   *)
SpawnTest(l) ==
    /\ loop[l].pc = "test"
    /\ \/ alive' = alive \cup {l} /\ Goto(l, "testing")
       \/ /\ UNCHANGED alive
          /\ loop' = [loop EXCEPT ![l].pc = "commit", ![l].verdict = "red",
                                  ![l].tested = repo.work, ![l].touched = FALSE]
       \/ UNCHANGED alive /\ Goto(l, "error")
    /\ UNCHANGED <<gitVars, moves>>

Edited(r) == {[r EXCEPT !.work[f] = v] : f \in File, v \in Value}

TestWrites(l) ==
    /\ l \in alive
    /\ Move
    /\ repo' \in Edited(repo)
    /\ Touched({l})
    /\ UNCHANGED <<call, zombies, announced, alive>>

(* The leader of the group is gone and the pipes are closed: the group is  *)
(* not killed, and what the leader left behind goes on by itself (Edits).  *)
(* Green is an exit code 0 with no failed test and no error among the      *)
(* lines pytest printed; a framework that is not known runs an echo.       *)
TestEnds(l) ==
    /\ loop[l].pc = "testing"
    /\ alive' = alive \ {l}
    /\ \E v \in {"green", "red"} :
          loop' = [loop EXCEPT ![l].pc = "commit", ![l].verdict = v,
                               ![l].tested = repo.work, ![l].touched = FALSE]
    /\ UNCHANGED <<gitVars, moves>>

TestTimesOutLeader(l) ==  \* mutant: children of the test process survive the timeout
    /\ loop[l].pc = "testing"
    /\ \/ UNCHANGED alive
       \/ alive' = alive \ {l}
    /\ Goto(l, "draining")
    /\ UNCHANGED <<gitVars, moves>>

(* killpg, then what is left in the pipes is read.                         *)
TestTimesOut(l) ==
    /\ loop[l].pc = "testing"
    /\ alive' = alive \ {l}
    /\ Goto(l, "draining")
    /\ UNCHANGED <<gitVars, moves>>

Drained(l) ==
    /\ loop[l].pc = "draining"
    /\ loop' = [loop EXCEPT ![l].pc = "commit", ![l].verdict = "timed out",
                            ![l].tested = repo.work, ![l].touched = FALSE]
    /\ UNCHANGED <<gitVars, alive, moves>>

CommitCycle(l) ==
    /\ loop[l].pc = "commit"
    /\ Call(l, "commit", Main)
    /\ Goto(l, "committing")
    /\ UNCHANGED <<repo, zombies, announced, alive, moves>>

CycleUncounted(l) ==  \* mutant: the cycle is not counted
    /\ loop[l].pc = "committing"
    /\ Returned(l)
    /\ LET passed == loop[l].verdict \in {"green", "timed out"} IN
          loop' = [loop EXCEPT ![l].committed = call[l].exit = "ok",
                               ![l].pc = CASE passed -> "passed"
                                           [] ~passed /\ ~fix_callback -> "failed"
                                           [] OTHER -> "fix"]
    /\ call' = [call EXCEPT ![l] = Idle]
    /\ UNCHANGED <<repo, zombies, announced, alive, moves>>

(* Any exception of the commit only clears the record's flag, and a        *)
(* timeout counts as passed.                                               *)
CycleCommitted(l) ==
    /\ loop[l].pc = "committing"
    /\ Returned(l)
    /\ LET passed == loop[l].verdict \in {"green", "timed out"} IN
          loop' = [loop EXCEPT ![l].committed = call[l].exit = "ok",
                               ![l].left = @ - 1,
                               ![l].pc = CASE passed -> "passed"
                                           [] ~passed /\ ~fix_callback -> "failed"
                                           [] OTHER -> "fix"]
    /\ call' = [call EXCEPT ![l] = Idle]
    /\ UNCHANGED <<repo, zombies, announced, alive, moves>>

(* The callback edits files, and returns, aborts or raises.                *)
FixEdits(l) ==
    /\ loop[l].pc = "fix"
    /\ Move
    /\ repo' \in Edited(repo)
    /\ Touched({})
    /\ UNCHANGED <<call, zombies, announced, alive>>

FixReturns(l) ==
    /\ loop[l].pc = "fix"
    /\ \/ \E pc \in {"error", "failed"} : Goto(l, pc)
       \/ /\ loop[l].left > 0
          /\ loop' = [loop EXCEPT ![l] = [Start0 EXCEPT !.pc = "test", !.left = loop[l].left]]
    /\ UNCHANGED <<gitVars, alive, moves>>

(* The request is answered; another may start a run.                       *)
Answered(l) ==
    /\ loop[l].pc \in {"passed", "failed", "error"}
    /\ loop' = [loop EXCEPT ![l] = Start0]
    /\ UNCHANGED <<gitVars, alive, moves>>

-----------------------------------------------------------------------------
(* A caller moves an operation, and takes its outcome.                     *)
Ref(op) == CASE op \in {"rollback", "reset_soft"} -> 1..Len(repo.commits)
             [] op \in {"branch", "checkout", "merge"} -> Branch
             [] OTHER -> {Main}

Calls(c) ==
    /\ call[c] = Idle
    /\ Move
    /\ \E op \in Ops :
          \E ref \in Ref(op) : Call(c, op, ref)
    /\ UNCHANGED <<repo, zombies, announced, loop, alive>>

Takes(c) ==
    /\ Returned(c)
    /\ call' = [call EXCEPT ![c] = Idle]
    /\ UNCHANGED <<repo, zombies, announced, loop, alive, moves>>

(* Somebody writes a file at any time: an agent of the task, or a process  *)
(* that a test run left behind.                                            *)
Edits ==
    /\ Move
    /\ repo' \in Edited(repo)
    /\ Touched({})
    /\ UNCHANGED <<call, zombies, announced, alive>>

(* Git's steps; those that change the files, the index or the branches     *)
(* count for the other loops.                                              *)
Gits(a) ==
    /\ GitStep(a)
    /\ IF repo' # repo THEN Touched({a}) ELSE UNCHANGED loop
    /\ UNCHANGED <<alive, moves>>

Zombie ==
    /\ ZombieEnds
    /\ Touched({})
    /\ UNCHANGED <<alive, moves>>

LoopStep(l) ==
    \/ Initialised(l) \/ SpawnTest(l) \/ TestEnds(l) \/ TestTimesOut(l) \/ Drained(l)
    \/ CommitCycle(l) \/ CycleCommitted(l) \/ FixReturns(l) \/ Gits(l)

Next ==
    \/ \E l \in Loop : LoopStep(l) \/ Run(l) \/ TestWrites(l) \/ FixEdits(l) \/ Answered(l)
    \/ \E c \in Caller : Calls(c) \/ Takes(c) \/ Gits(c)
    \/ Edits
    \/ Zombie

(* The loop and its git processes get on, its tests end or time out and    *)
(* its callback returns; nothing is asked of the others.                   *)
Spec == Init /\ [][Next]_vars /\ \A l \in Loop : WF_vars(LoopStep(l))

-----------------------------------------------------------------------------
(* A cycle recorded as committed leaves, at the head of the branch, the    *)
(* very files its tests ran on, unless somebody else changed the           *)
(* workspace, or switched branches, since the tests were over: the         *)
(* processes of tests that timed out are not somebody else.                *)
TestedIsRecorded ==
    \A l \in Loop :
       loop[l].pc \in {"passed", "failed", "fix"} /\ loop[l].committed /\ ~loop[l].touched
       => HeadTree(repo) = loop[l].tested

(* Conflict markers reach a commit only after the merge or unstash that    *)
(* made them has raised: nobody's add -A takes them up unannounced.        *)
MarkersAnnounced ==
    (\E c \in DOMAIN repo.commits : \E f \in File : repo.commits[c].tree[f] = Markers)
    => announced

(* A run of the loop is answered, however git, the tests, the callback and *)
(* the other users of the workspace behave.                                *)
LoopEnds ==
    \A l \in Loop : loop[l].pc = "init" ~> (loop[l].pc \in {"passed", "failed", "error"})
=============================================================================
