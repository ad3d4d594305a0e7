-------------------------------- MODULE Git --------------------------------
(***************************************************************************)
(* The git commands GitWorkspace runs, each as what it makes of a          *)
(* repository.  External to the code; only branches are checked out.       *)
(* A commit knows its past, itself and all its ancestors, so that merging  *)
(* needs no search.                                                        *)
(***************************************************************************)
EXTENDS Integers, Sequences, FiniteSets

CONSTANTS
    File,       \* paths under version control
    Value,      \* contents of a file
    Markers,    \* a content with conflict markers
    Absent,     \* no such file
    Branch,     \* branch names
    Main        \* the default one

ASSUME GitAssumption == Main \in Branch /\ Markers \notin Value \cup {Absent}

Tree == [File -> Value \cup {Absent, Markers}]
NoFiles == [f \in File |-> Absent]

(* Before git init.                                                        *)
NoRepo == [initialized |-> FALSE, commits |-> <<>>, branch |-> [b \in Branch |-> 0],
           head |-> Main, index |-> NoFiles, work |-> NoFiles,
           merging |-> 0,           \* MERGE_HEAD
           unmerged |-> FALSE,      \* the index has conflict entries
           stash |-> <<>>]

(* A repository whose trees hold contents of S, and whose branches and     *)
(* MERGE_HEAD are commits of it.                                           *)
Repos(S) ==
    [initialized : BOOLEAN, commits : Seq([tree : [File -> S], past : SUBSET Nat]),
     branch : [Branch -> Nat], head : Branch, index : [File -> S], work : [File -> S],
     merging : Nat, unmerged : BOOLEAN, stash : Seq([tree : [File -> S], base : [File -> S]])]

RepoOK(r, S) ==
    /\ r \in Repos(S)
    /\ \A b \in Branch : r.branch[b] <= Len(r.commits)
    /\ r.merging <= Len(r.commits)

Tip(r) == r.branch[r.head]
TreeOf(r, c) == IF c = 0 THEN NoFiles ELSE r.commits[c].tree
Past(r, c) == IF c = 0 THEN {} ELSE r.commits[c].past
HeadTree(r) == TreeOf(r, Tip(r))

Dirty(r) == r.unmerged \/ r.index # HeadTree(r) \/ r.work # r.index

Ok(r) == [repo |-> r, exit |-> "ok"]
Refused(r) == [repo |-> r, exit |-> "error"]
Conflict(r) == [repo |-> r, exit |-> "conflict"]

Init0(r) == Ok([r EXCEPT !.initialized = TRUE])

Add(r) == Ok([r EXCEPT !.index = r.work, !.unmerged = FALSE])

Committed(r, tree, other) ==
    LET n == Len(r.commits) + 1 IN
    [r EXCEPT !.commits = Append(@, [tree |-> tree,
                                     past |-> {n} \cup Past(r, Tip(r)) \cup Past(r, other)]),
              !.branch[r.head] = n, !.index = tree, !.merging = 0]

Commit(r, allowEmpty) ==
    IF r.unmerged \/ (~allowEmpty /\ r.index = HeadTree(r) /\ r.merging = 0)
    THEN Refused(r)
    ELSE Ok(Committed(r, r.index, r.merging))

(* The files that differ between the commits must not be changed.          *)
Switched(r, c) ==
    LET new == TreeOf(r, c)
        old == HeadTree(r)
    IN  [r EXCEPT !.index = [f \in File |-> IF new[f] = old[f] THEN @[f] ELSE new[f]],
                  !.work = [f \in File |-> IF new[f] = old[f] THEN @[f] ELSE new[f]],
                  !.merging = 0]

CanSwitch(r, c) ==
    /\ c # 0
    /\ ~r.unmerged
    /\ \A f \in File : TreeOf(r, c)[f] = HeadTree(r)[f]
                       \/ {r.index[f], r.work[f]} = {HeadTree(r)[f]}

Checkout(r, b) ==
    IF CanSwitch(r, r.branch[b])
    THEN Ok([Switched(r, r.branch[b]) EXCEPT !.head = b])
    ELSE Refused(r)

CheckoutNew(r, b, from) ==
    IF r.branch[b] = 0 /\ CanSwitch(r, r.branch[from])
    THEN Ok([Switched(r, r.branch[from]) EXCEPT !.branch[b] = r.branch[from], !.head = b])
    ELSE Refused(r)

(* Files that were never added stay.                                       *)
Untracked(r, f) == r.index[f] = Absent /\ HeadTree(r)[f] = Absent

ResetHard(r, c) ==
    Ok([r EXCEPT !.branch[r.head] = c, !.index = TreeOf(r, c), !.merging = 0, !.unmerged = FALSE,
                 !.work = [f \in File |->
                              IF Untracked(r, f) /\ TreeOf(r, c)[f] = Absent
                              THEN @[f] ELSE TreeOf(r, c)[f]]])

ResetSoft(r, c) ==
    IF r.unmerged \/ r.merging # 0 THEN Refused(r) ELSE Ok([r EXCEPT !.branch[r.head] = c])

Restore(r) ==
    IF r.unmerged
    THEN Refused(r)
    ELSE Ok([r EXCEPT !.work = [f \in File |-> IF r.index[f] = Absent THEN @[f] ELSE r.index[f]]])

Unstage(r) == Ok([r EXCEPT !.index = HeadTree(r), !.unmerged = FALSE])

Stash(r) ==
    LET tracked == [f \in File |-> IF r.index[f] = Absent THEN Absent ELSE r.work[f]]
    IN  IF r.unmerged
        THEN Refused(r)
        ELSE IF tracked = HeadTree(r) /\ r.index = HeadTree(r)
        THEN Ok(r)
        ELSE [ResetHard(r, Tip(r)) EXCEPT
                 !.repo.stash = <<[tree |-> tracked, base |-> HeadTree(r)]>> \o @]

(* A three-way merge of a file.                                            *)
Merged(base, ours, theirs) ==
    CASE ours = theirs \/ base = theirs -> ours
      [] ours # theirs /\ base = ours -> theirs
      [] OTHER -> Markers

Unstash(r) ==
    IF r.stash = <<>> \/ r.unmerged
    THEN Refused(r)
    ELSE LET s == r.stash[1]
             result == [f \in File |-> Merged(s.base[f], HeadTree(r)[f], s.tree[f])]
         IN  IF \E f \in File : s.base[f] # s.tree[f] /\ r.work[f] # HeadTree(r)[f]
             THEN Refused(r)
             ELSE IF \E f \in File : result[f] = Markers /\ HeadTree(r)[f] # Markers
             THEN Refused([r EXCEPT !.work = result, !.unmerged = TRUE])
             ELSE Ok([r EXCEPT !.stash = SubSeq(r.stash, 2, Len(r.stash)),
                               !.work = [f \in File |-> IF s.base[f] = s.tree[f]
                                                        THEN @[f] ELSE result[f]]])

MergeBase(r, c) ==
    LET common == Past(r, c) \cap Past(r, Tip(r)) IN
    IF common = {} THEN 0 ELSE CHOOSE b \in common : \A d \in common : d <= b

(* A merge into a dirty index, over a changed file or before the last      *)
(* conflict is resolved is refused; stdout then says nothing.              *)
Merge(r, c) ==
    LET base == TreeOf(r, MergeBase(r, c))
        ours == HeadTree(r)
        result == [f \in File |-> Merged(base[f], ours[f], TreeOf(r, c)[f])]
        clashes == {f \in File : result[f] = Markers /\ ours[f] # Markers
                                                     /\ TreeOf(r, c)[f] # Markers}
    IN  CASE c = 0 \/ Tip(r) = 0 \/ r.merging # 0 \/ r.unmerged -> Refused(r)
          [] c # 0 /\ c \in Past(r, Tip(r)) -> Ok(r)
          [] OTHER ->
             IF r.index # ours \/ \E f \in File : result[f] # ours[f] /\ r.work[f] # ours[f]
             THEN Refused(r)
             ELSE LET worked == [f \in File |-> IF result[f] # ours[f] THEN result[f] ELSE r.work[f]]
                  IN  IF clashes # {}
                      THEN Conflict([r EXCEPT !.work = worked, !.merging = c, !.unmerged = TRUE])
                      ELSE Ok([Committed(r, result, c) EXCEPT !.work = worked])

AbortMerge(r) ==
    IF r.merging = 0
    THEN Refused(r)
    ELSE Ok([r EXCEPT !.index = HeadTree(r), !.work = HeadTree(r), !.merging = 0, !.unmerged = FALSE])
=============================================================================
