--------------------------- MODULE MCRuntimeLoop ---------------------------
(* Model values for TLC: a loop and a caller on one workspace, which is new *)
(* or has two branches that changed the same file.                          *)
EXTENDS RuntimeLoop

CONSTANTS l1, c1, f, v1, v2, task

MCLoop == {l1}
MCCaller == {c1}
MCActor == {l1, c1}
MCFile == {f}
MCRequested == {-1, 0}
MCBranch == {Main, task}

Text(v) == [x \in MCFile |-> v]
Diverged ==
    [NoRepo EXCEPT
        !.initialized = TRUE,
        !.commits = << [tree |-> Text(Absent), past |-> {1}],
                       [tree |-> Text(v1), past |-> {1, 2}],
                       [tree |-> Text(v2), past |-> {1, 3}] >>,
        !.branch = [b \in MCBranch |-> IF b = Main THEN 3 ELSE 2],
        !.index = Text(v2), !.work = Text(v2)]

MCFound == {NoRepo, Diverged}
=============================================================================
