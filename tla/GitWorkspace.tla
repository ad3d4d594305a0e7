---------------------------- MODULE GitWorkspace ----------------------------
(***************************************************************************)
(* GitWorkspace: version control of one task's workspace.  An operation    *)
(* is a coroutine that runs git processes one after the other.  While one  *)
(* runs anything may happen: other operations, edits, its timeout.  A git  *)
(* process that times out is abandoned, not killed: it ends later, and     *)
(* until then holds the lock of the index, unless it is a soft reset,      *)
(* which moves the branch only.                                            *)
(*                                                                         *)
(* Each actor has an object of its own, as every endpoint and loop of the  *)
(* service does, so the lock of the object keeps nobody out; what keeps    *)
(* two git processes apart is git's own lock, and it makes the second one  *)
(* fail.                                                                   *)
(***************************************************************************)
EXTENDS Git, SequencesExt

CONSTANTS
    Found,      \* repositories the service may find
    Actor       \* coroutines that use version control of the task

(* A repository that is found holds no conflict markers.                   *)
ASSUME FoundAssumption == \A r \in Found : RepoOK(r, Value \cup {Absent})

VARIABLES
    repo,       \* the repository and the files
    call,       \* the operation each actor is in
    zombies,    \* the abandoned git processes, in the order of their timeouts
    announced   \* whether any merge or unstash has raised

gitVars == <<repo, call, zombies, announced>>

Operations == {"init", "commit", "branch", "checkout", "merge", "abort_merge", "rollback",
               "reset_soft", "restore", "unstage", "stash", "unstash"}

Program(op) ==
    CASE op = "init" -> <<"probe", "init", "add", "root">>
      [] op = "commit" -> <<"add", "status", "commit">>
      [] OTHER -> <<op>>

Idle == [op |-> "none", ref |-> Main, step |-> 1, state |-> "idle", exit |-> "ok"]

(* A branch or, for the resets, the number of a commit.                    *)
Call(a, op, ref) ==
    call' = [call EXCEPT ![a] = [op |-> op, ref |-> ref, step |-> 1,
                                 state |-> IF op = "init" \/ repo.initialized
                                           THEN "next" ELSE "returned",
                                 exit |-> IF op = "init" \/ repo.initialized
                                          THEN "ok" ELSE "error"]]

Command(c) == Program(c.op)[c.step]
ReadOnly == {"probe", "status"}
LeavesIndex == ReadOnly \cup {"reset_soft"}

IndexLocked ==
    \/ \E i \in DOMAIN zombies : zombies[i].command \notin LeavesIndex
    \/ \E a \in Actor : call[a].state = "running" /\ Command(call[a]) \notin LeavesIndex

GitInit ==
    /\ repo \in Found
    /\ call = [a \in Actor |-> Idle]
    /\ zombies = <<>>
    /\ announced = FALSE

(* What a command makes of the repository, and how it ends.                *)
Effect(command, ref, r) ==
    CASE command = "probe" -> [repo |-> r, exit |-> IF r.initialized THEN "initialized" ELSE "ok"]
      [] command = "init" -> Init0(r)
      [] command = "add" -> Add(r)
      [] command = "root" -> Commit(r, TRUE)
      [] command = "status" -> [repo |-> r, exit |-> IF Dirty(r) THEN "ok" ELSE "clean"]
      [] command = "commit" -> Commit(r, FALSE)
      [] command = "branch" -> CheckoutNew(r, ref, Main)
      [] command = "checkout" -> Checkout(r, ref)
      [] command = "rollback" -> ResetHard(r, ref)
      [] command = "reset_soft" -> ResetSoft(r, ref)
      [] command = "restore" -> Restore(r)
      [] command = "unstage" -> Unstage(r)
      [] command = "stash" -> Stash(r)
      [] command = "unstash" -> Unstash(r)
      [] command = "merge" -> Merge(r, r.branch[ref])
      [] command = "abort_merge" -> AbortMerge(r)

To(a, state, exit) == call' = [call EXCEPT ![a].state = state, ![a].exit = exit]

GoesOn(a) ==
    /\ IF call[a].step = Len(Program(call[a].op))
       THEN To(a, "returned", "ok")
       ELSE call' = [call EXCEPT ![a].step = @ + 1, ![a].state = "next"]
    /\ UNCHANGED announced

Raises(a, exit) ==
    /\ To(a, "returned", exit)
    /\ announced' = (announced \/ call[a].op \in {"merge", "unstash"})

Unchecked(c) == c.op = "merge" \/ (c.op = "init" /\ Command(c) \in {"add", "root"})

OutcomeQuiet(a, exit) ==  \* mutant: merge does not look for a conflict in the output
    CASE exit = "ok" \/ Unchecked(call[a]) -> GoesOn(a)
      [] exit = "initialized" -> To(a, "returned", "ok") /\ UNCHANGED announced
      [] OTHER -> Raises(a, "error")

(* A merge that git refused is taken for one that was made: only the word  *)
(* conflict in its output raises.                                          *)
Outcome(a, exit) ==
    CASE exit = "ok" \/ (exit = "error" /\ Unchecked(call[a])) -> GoesOn(a)
      [] exit = "initialized" -> To(a, "returned", "ok") /\ UNCHANGED announced
      [] OTHER -> Raises(a, exit)

-----------------------------------------------------------------------------
(* A command that cannot lock the index ends at once.                      *)
Start(a) ==
    /\ call[a].state = "next"
    /\ IF IndexLocked /\ Command(call[a]) \notin LeavesIndex
       THEN Outcome(a, "error")
       ELSE To(a, "running", "ok") /\ UNCHANGED announced
    /\ UNCHANGED <<repo, zombies>>

Finish(a) ==
    /\ call[a].state = "running"
    /\ LET e == Effect(Command(call[a]), call[a].ref, repo) IN
          /\ repo' = e.repo
          /\ Outcome(a, e.exit)
    /\ UNCHANGED zombies

(* communicate() is given up after the timeout, whatever check says.       *)
TimeOut(a) ==
    /\ call[a].state = "running"
    /\ zombies' = IF Command(call[a]) \in ReadOnly THEN zombies
                  ELSE Append(zombies, [command |-> Command(call[a]), ref |-> call[a].ref])
    /\ Raises(a, "error")
    /\ UNCHANGED repo

ZombieEnds ==
    /\ \E i \in DOMAIN zombies :
          /\ repo' = Effect(zombies[i].command, zombies[i].ref, repo).repo
          /\ zombies' = RemoveAt(zombies, i)
    /\ UNCHANGED <<call, announced>>

GitStep(a) == Start(a) \/ Finish(a) \/ TimeOut(a)

Returned(a) == call[a].state = "returned"
=============================================================================
