-------------------------- MODULE RuntimeLoopProofs --------------------------
(***************************************************************************)
(* What a run of the loop keeps in a workspace others use as well, for     *)
(* every set of loops, callers, files and branches: first what each git    *)
(* command makes of a repository, then the operations of GitWorkspace,     *)
(* then the loop.                                                          *)
(***************************************************************************)
EXTENDS RuntimeLoop, SequenceTheorems, TLAPS

-----------------------------------------------------------------------------
(* What the git commands make of a repository.                             *)

Exit == {"ok", "error", "conflict", "clean", "initialized"}
Commands == {"probe", "init", "add", "root", "status", "commit", "branch", "checkout", "merge",
             "abort_merge", "rollback", "reset_soft", "restore", "unstage", "stash", "unstash"}

(* A reset goes to a commit, the others to a branch.                       *)
RefOK(command, ref, n) ==
    /\ command \in {"rollback", "reset_soft"} => ref \in 1..n
    /\ command \in {"branch", "checkout", "merge"} => ref \in Branch

Trees(S) == [File -> S]
Tips(r) == 0..Len(r.commits)
Heads(r) == [Branch -> Tips(r)]
CommitOf(S) == [tree : Trees(S), past : SUBSET Nat]

(* The trees of a repository's commits, and the fields one by one.         *)
LEMMA RepoFields ==
  ASSUME NEW S, Absent \in S, NEW r, RepoOK(r, S)
  PROVE  /\ r \in Repos(S) /\ r.commits \in Seq(CommitOf(S)) /\ Len(r.commits) \in Nat
         /\ r.branch \in Heads(r) /\ r.head \in Branch
         /\ r.index \in Trees(S) /\ r.work \in Trees(S)
         /\ r.merging \in Tips(r) /\ r.unmerged \in BOOLEAN
         /\ Tip(r) \in Tips(r)
         /\ \A c \in Tips(r) : TreeOf(r, c) \in Trees(S) /\ Past(r, c) \in SUBSET Nat
         /\ HeadTree(r) \in Trees(S)
<1>1. /\ r \in Repos(S) /\ r.commits \in Seq(CommitOf(S)) /\ r.head \in Branch
      /\ r.index \in Trees(S) /\ r.work \in Trees(S) /\ r.unmerged \in BOOLEAN
      /\ r.branch \in [Branch -> Nat] /\ r.merging \in Nat
  BY DEF RepoOK, Repos, CommitOf, Trees
<1>2. Len(r.commits) \in Nat
  BY <1>1
<1>3. r.branch \in Heads(r)
  BY <1>1, <1>2 DEF RepoOK, Heads, Tips
<1>4. r.merging \in Tips(r)
  BY <1>1, <1>2 DEF RepoOK, Tips
<1>5. Tip(r) \in Tips(r)
  BY <1>1, <1>3 DEF Tip, Tips, Heads
<1>6. ASSUME NEW c \in Tips(r)
      PROVE  TreeOf(r, c) \in Trees(S) /\ Past(r, c) \in SUBSET Nat
  <2>1. CASE c = 0
    BY <2>1 DEF TreeOf, Past, NoFiles, Trees
  <2>2. CASE c # 0
    <3>1. r.commits[c] \in CommitOf(S)
      <4>1. c \in 1..Len(r.commits)
        BY <1>2, <2>2 DEF Tips
      <4> QED
        BY <1>1, <4>1
    <3> QED
      BY <2>2, <3>1 DEF TreeOf, Past, CommitOf
  <2> QED
    BY <2>1, <2>2
<1> QED
  BY <1>1, <1>2, <1>3, <1>4, <1>5, <1>6 DEF HeadTree

(* More contents.                                                          *)
LEMMA RepoWidens ==
  ASSUME NEW S, NEW T, S \subseteq T, NEW r, RepoOK(r, S)
  PROVE  RepoOK(r, T)
<1>1. Trees(S) \subseteq Trees(T)
  BY DEF Trees
<1>2. [tree : Trees(S), past : SUBSET Nat] \subseteq [tree : Trees(T), past : SUBSET Nat]
  BY <1>1
<1>3. [tree : Trees(S), base : Trees(S)] \subseteq [tree : Trees(T), base : Trees(T)]
  BY <1>1
<1>4. /\ r \in Repos(S) /\ r.commits \in Seq([tree : Trees(S), past : SUBSET Nat])
      /\ r.stash \in Seq([tree : Trees(S), base : Trees(S)])
  BY DEF RepoOK, Repos, Trees
<1>5. /\ r.commits \in Seq([tree : Trees(T), past : SUBSET Nat])
      /\ r.stash \in Seq([tree : Trees(T), base : Trees(T)])
  <2> DEFINE A == [tree : Trees(S), past : SUBSET Nat]
             B == [tree : Trees(T), past : SUBSET Nat]
             C == [tree : Trees(S), base : Trees(S)]
             D == [tree : Trees(T), base : Trees(T)]
  <2>1. A \subseteq B /\ C \subseteq D /\ r.commits \in Seq(A) /\ r.stash \in Seq(C)
    BY <1>2, <1>3, <1>4
  <2> HIDE DEF A, B, C, D
  <2>2. r.commits \in Seq(B) /\ r.stash \in Seq(D)
    BY ONLY <2>1, SeqMonotonic
  <2> QED
    BY <2>2 DEF B, D
<1>6. r \in Repos(T)
  BY <1>1, <1>4, <1>5 DEF Repos, Trees
<1> QED
  BY <1>6 DEF RepoOK

(* A repository whose trees, MERGE_HEAD and conflict flag are set anew.    *)
WithTrees(r, index, work, merging, unmerged, head, branch) ==
    [r EXCEPT !.index = index, !.work = work, !.merging = merging, !.unmerged = unmerged,
              !.head = head, !.branch = branch]

LEMMA TreesSet ==
  ASSUME NEW S, Absent \in S, NEW r, RepoOK(r, S),
         NEW index \in Trees(S), NEW work \in Trees(S), NEW merging \in Tips(r),
         NEW unmerged \in BOOLEAN, NEW head \in Branch, NEW branch \in Heads(r)
  PROVE  /\ RepoOK(WithTrees(r, index, work, merging, unmerged, head, branch), S)
         /\ WithTrees(r, index, work, merging, unmerged, head, branch).commits = r.commits
<1> DEFINE q == WithTrees(r, index, work, merging, unmerged, head, branch)
<1>1. r \in Repos(S) /\ Len(r.commits) \in Nat
  BY RepoFields
<1>2. branch \in [Branch -> Nat] /\ merging \in Nat
  BY <1>1 DEF Heads, Tips
<1>3. q \in Repos(S) /\ q.commits = r.commits /\ q.branch = branch /\ q.merging = merging
  BY <1>1, <1>2 DEF Repos, WithTrees, Trees
<1> QED
  BY <1>1, <1>3 DEF RepoOK, Heads, Tips

(* With one commit more.                                                   *)
CommittedWith(r, tree, other, work) == [Committed(r, tree, other) EXCEPT !.work = work]

LEMMA CommittedOK ==
  ASSUME NEW S, Absent \in S, NEW r, RepoOK(r, S), NEW tree \in Trees(S),
         NEW other \in Tips(r), NEW work \in Trees(S)
  PROVE  LET q == CommittedWith(r, tree, other, work) IN
         /\ RepoOK(q, S) /\ Len(q.commits) = Len(r.commits) + 1
         /\ HeadTree(q) = tree /\ q.index = tree /\ q.work = work
<1> DEFINE q == CommittedWith(r, tree, other, work)
           n == Len(r.commits) + 1
           new == [tree |-> tree, past |-> {n} \cup Past(r, Tip(r)) \cup Past(r, other)]
           commits == Append(r.commits, new)
           branch == [r.branch EXCEPT ![r.head] = n]
<1>1. /\ r \in Repos(S) /\ r.commits \in Seq(CommitOf(S)) /\ Len(r.commits) \in Nat
      /\ r.branch \in Heads(r) /\ r.head \in Branch
      /\ Past(r, Tip(r)) \in SUBSET Nat /\ Past(r, other) \in SUBSET Nat
  BY RepoFields
<1>2. new \in CommitOf(S) /\ n \in Nat \ {0} /\ new.tree = tree
  BY <1>1 DEF CommitOf
<1> HIDE DEF new
<1>3. /\ commits \in Seq(CommitOf(S)) /\ Len(commits) = n /\ commits[n] = new
  BY <1>1, <1>2
<1>4. branch \in [Branch -> Nat] /\ branch[r.head] = n /\ \A b \in Branch : branch[b] <= n
  BY <1>1, <1>2 DEF Heads, Tips
<1> HIDE DEF commits, branch, n
<1>5. q = [r EXCEPT !.commits = commits, !.branch = branch, !.index = tree, !.merging = 0,
                    !.work = work]
  BY <1>1 DEF CommittedWith, Committed, commits, branch, new, n, Repos
<1> HIDE DEF q
<1>6. /\ q \in Repos(S) /\ q.commits = commits /\ q.branch = branch /\ q.merging = 0
      /\ q.index = tree /\ q.work = work /\ q.head = r.head
  <2>1. commits \in Seq([tree : Trees(S), past : SUBSET Nat])
    BY <1>3 DEF CommitOf
  <2> QED
    BY <1>1, <1>4, <1>5, <2>1 DEF Repos, Trees
<1>7. RepoOK(q, S)
  BY <1>2, <1>3, <1>4, <1>6 DEF RepoOK
<1>8. HeadTree(q) = tree
  BY <1>2, <1>3, <1>4, <1>6 DEF HeadTree, TreeOf, Tip
<1> QED
  BY <1>3, <1>6, <1>7, <1>8, <1>1 DEF n, q

(* With another stash.                                                     *)
WithStash(r, stash, work) == [r EXCEPT !.stash = stash, !.work = work]

LEMMA StashSet ==
  ASSUME NEW S, Absent \in S, NEW r, RepoOK(r, S),
         NEW stash \in Seq([tree : Trees(S), base : Trees(S)]), NEW work \in Trees(S)
  PROVE  /\ RepoOK(WithStash(r, stash, work), S)
         /\ WithStash(r, stash, work).commits = r.commits
<1> DEFINE q == WithStash(r, stash, work)
<1>1. r \in Repos(S)
  BY RepoFields
<1>2. q \in Repos(S) /\ q.commits = r.commits /\ q.branch = r.branch /\ q.merging = r.merging
  BY <1>1 DEF Repos, WithStash, Trees
<1> HIDE DEF q
<1>3. RepoOK(q, S)
  BY <1>2 DEF RepoOK
<1> QED
  BY <1>2, <1>3 DEF q

-----------------------------------------------------------------------------
LEMMA CommitOK ==
  ASSUME NEW S, Absent \in S, NEW r, RepoOK(r, S), NEW allowEmpty \in BOOLEAN, NEW e,
         e = Commit(r, allowEmpty)
  PROVE  /\ RepoOK(e.repo, S) /\ Len(e.repo.commits) >= Len(r.commits) /\ e.exit \in {"ok", "error"}
         /\ e.exit = "ok" => HeadTree(e.repo) = r.index /\ e.repo.work = r.work
<1>1. /\ r \in Repos(S) /\ r.index \in Trees(S) /\ r.work \in Trees(S)
      /\ r.merging \in Tips(r) /\ Len(r.commits) \in Nat
  BY RepoFields
<1>2. CASE e = Refused(r)
  BY <1>1, <1>2 DEF Refused
<1>3. CASE e = Ok(Committed(r, r.index, r.merging))
  <2> DEFINE q == Committed(r, r.index, r.merging)
  <2>1. q = CommittedWith(r, r.index, r.merging, r.work)
    BY <1>1 DEF CommittedWith, Committed, Repos
  <2>2. RepoOK(q, S) /\ Len(q.commits) = Len(r.commits) + 1 /\ HeadTree(q) = r.index
        /\ q.work = r.work
    BY <1>1, <2>1, CommittedOK
  <2> QED
    BY <1>1, <1>3, <2>2 DEF Ok
<1> QED
  BY <1>2, <1>3 DEF Commit

(* Files of a commit over those at hand.                                   *)
SwitchedTo(r, c, b, branch) == [Switched(r, c) EXCEPT !.branch = branch, !.head = b]

LEMMA SwitchedOK ==
  ASSUME NEW S, Absent \in S, NEW r, RepoOK(r, S), NEW c \in Tips(r), NEW b \in Branch,
         NEW branch \in Heads(r)
  PROVE  RepoOK(SwitchedTo(r, c, b, branch), S) /\ SwitchedTo(r, c, b, branch).commits = r.commits
<1> DEFINE new == TreeOf(r, c)
           old == HeadTree(r)
           index == [f \in File |-> IF new[f] = old[f] THEN r.index[f] ELSE new[f]]
           work == [f \in File |-> IF new[f] = old[f] THEN r.work[f] ELSE new[f]]
<1>1. /\ r \in Repos(S) /\ new \in Trees(S) /\ r.unmerged \in BOOLEAN
      /\ r.index \in Trees(S) /\ r.work \in Trees(S) /\ Len(r.commits) \in Nat
  BY RepoFields
<1>2. index \in Trees(S) /\ work \in Trees(S)
  <2> HIDE DEF new, old
  <2> QED
    BY <1>1 DEF Trees
<1>3. SwitchedTo(r, c, b, branch) = WithTrees(r, index, work, 0, r.unmerged, b, branch)
  BY <1>1 DEF SwitchedTo, WithTrees, Switched, Repos, Trees
<1>4. 0 \in Tips(r)
  BY <1>1 DEF Tips
<1> HIDE DEF index, work
<1> QED
  BY <1>1, <1>2, <1>3, <1>4, TreesSet

LEMMA CheckoutOK ==
  ASSUME NEW S, Absent \in S, NEW r, RepoOK(r, S), NEW b \in Branch, NEW e,
         e = Checkout(r, b) \/ e = CheckoutNew(r, b, Main)
  PROVE  RepoOK(e.repo, S) /\ Len(e.repo.commits) >= Len(r.commits) /\ e.exit \in {"ok", "error"}
<1>1. /\ r \in Repos(S) /\ r.branch \in Heads(r) /\ Len(r.commits) \in Nat
      /\ Main \in Branch
  BY RepoFields, GitAssumption
<1>2. CASE e = Refused(r)
  BY <1>1, <1>2 DEF Refused
<1>3. ASSUME NEW c \in Tips(r), NEW branch \in Heads(r), e = Ok(SwitchedTo(r, c, b, branch))
      PROVE  RepoOK(e.repo, S) /\ e.repo.commits = r.commits /\ e.exit = "ok"
  <2>1. RepoOK(SwitchedTo(r, c, b, branch), S) /\ SwitchedTo(r, c, b, branch).commits = r.commits
    BY SwitchedOK
  <2> QED
    BY <1>3, <2>1 DEF Ok
<1>4. CASE e = Ok([Switched(r, r.branch[b]) EXCEPT !.head = b])
  <2>1. [Switched(r, r.branch[b]) EXCEPT !.head = b] = SwitchedTo(r, r.branch[b], b, r.branch)
    <3>1. PICK i, w : Switched(r, r.branch[b]) = [r EXCEPT !.index = i, !.work = w, !.merging = 0]
      BY DEF Switched
    <3> QED
      BY <1>1, <3>1 DEF SwitchedTo, Repos
  <2>2. r.branch[b] \in Tips(r)
    BY <1>1 DEF Heads
  <2> QED
    BY <1>1, <1>3, <1>4, <2>1, <2>2
<1>5. CASE e = Ok([Switched(r, r.branch[Main]) EXCEPT !.branch[b] = r.branch[Main], !.head = b])
  <2> DEFINE branch == [r.branch EXCEPT ![b] = r.branch[Main]]
  <2>1. [Switched(r, r.branch[Main]) EXCEPT !.branch[b] = r.branch[Main], !.head = b]
        = SwitchedTo(r, r.branch[Main], b, branch)
    BY <1>1 DEF SwitchedTo, Switched, Repos
  <2> HIDE DEF branch
  <2>2. branch \in Heads(r) /\ r.branch[Main] \in Tips(r)
    BY <1>1 DEF branch, Heads
  <2> QED
    BY <1>1, <1>3, <1>5, <2>1, <2>2
<1> QED
  BY <1>2, <1>4, <1>5 DEF Checkout, CheckoutNew

LEMMA ResetHardOK ==
  ASSUME NEW S, Absent \in S, NEW r, RepoOK(r, S), NEW c \in Tips(r), NEW e,
         e = ResetHard(r, c)
  PROVE  /\ RepoOK(e.repo, S) /\ e.repo.commits = r.commits /\ e.exit = "ok"
         /\ e = Ok(e.repo) /\ e.repo.work \in Trees(S)
<1> DEFINE work == [f \in File |-> IF Untracked(r, f) /\ TreeOf(r, c)[f] = Absent
                                   THEN r.work[f] ELSE TreeOf(r, c)[f]]
           branch == [r.branch EXCEPT ![r.head] = c]
           q == WithTrees(r, TreeOf(r, c), work, 0, FALSE, r.head, branch)
<1>1. /\ r \in Repos(S) /\ TreeOf(r, c) \in Trees(S) /\ r.work \in Trees(S)
      /\ r.head \in Branch /\ r.branch \in Heads(r) /\ Len(r.commits) \in Nat
  BY RepoFields
<1>2. work \in Trees(S) /\ branch \in Heads(r)
  BY <1>1 DEF Trees, Heads
<1>3. RepoOK(q, S) /\ q.commits = r.commits
  <2> HIDE DEF work, branch
  <2>1. 0 \in Tips(r) /\ FALSE \in BOOLEAN
    BY <1>1 DEF Tips
  <2>2. RepoOK(r, S) /\ Absent \in S
    OBVIOUS
  <2>3. \A f \in BOOLEAN :
           LET t == WithTrees(r, TreeOf(r, c), work, 0, f, r.head, branch) IN
           RepoOK(t, S) /\ t.commits = r.commits
    BY ONLY <1>1, <1>2, <2>1, <2>2, TreesSet
  <2> QED
    BY <2>3
<1>4. e = Ok(q)
  BY <1>1 DEF ResetHard, Repos, WithTrees
<1> HIDE DEF q
<1> QED
  BY <1>3, <1>4, RepoFields DEF Ok

LEMMA StashOK ==
  ASSUME NEW S, Absent \in S, NEW r, RepoOK(r, S), NEW e, e = Stash(r)
  PROVE  RepoOK(e.repo, S) /\ Len(e.repo.commits) >= Len(r.commits) /\ e.exit \in {"ok", "error"}
<1> DEFINE tracked == [f \in File |-> IF r.index[f] = Absent THEN Absent ELSE r.work[f]]
           item == [tree |-> tracked, base |-> HeadTree(r)]
           reset == ResetHard(r, Tip(r))
           stash == <<item>> \o reset.repo.stash
<1>1. /\ r \in Repos(S) /\ r.work \in Trees(S) /\ HeadTree(r) \in Trees(S)
      /\ Tip(r) \in Tips(r) /\ Len(r.commits) \in Nat
  BY RepoFields
<1>2. CASE e = Refused(r) \/ e = Ok(r)
  BY <1>1, <1>2 DEF Refused, Ok
<1>3. CASE e = [reset EXCEPT !.repo.stash = <<item>> \o @]
  <2>1. RepoOK(reset.repo, S) /\ reset.repo.commits = r.commits /\ reset = Ok(reset.repo)
        /\ reset.repo.work \in Trees(S)
    BY <1>1, ResetHardOK
  <2> HIDE DEF reset
  <2>2. reset.repo \in Repos(S)
    BY <2>1 DEF RepoOK
  <2>3. item \in [tree : Trees(S), base : Trees(S)]
    BY <1>1 DEF Trees
  <2> HIDE DEF item
  <2>4. stash \in Seq([tree : Trees(S), base : Trees(S)])
    <3>1. reset.repo.stash \in Seq([tree : Trees(S), base : Trees(S)])
      BY <2>2 DEF Repos, Trees
    <3>2. <<item>> \in Seq([tree : Trees(S), base : Trees(S)])
      BY <2>3
    <3> QED
      BY <3>1, <3>2, ConcatProperties
  <2> HIDE DEF stash
  <2>5. e.repo = WithStash(reset.repo, stash, reset.repo.work) /\ e.exit = "ok"
    <3> DEFINE q == reset.repo
    <3>1. reset = [repo |-> q, exit |-> "ok"]
      BY <2>1 DEF Ok
    <3>2. e = [repo |-> [q EXCEPT !.stash = stash], exit |-> "ok"]
      BY <1>3, <3>1 DEF stash
    <3>3. [q EXCEPT !.stash = stash] = WithStash(q, stash, q.work)
      BY <2>2 DEF Repos, WithStash
    <3> QED
      BY <3>2, <3>3
  <2> QED
    BY <1>1, <2>1, <2>4, <2>5, StashSet, SMTT(30)
<1> QED
  BY <1>2, <1>3 DEF Stash

LEMMA FirstAndRest ==
  ASSUME NEW T, NEW s \in Seq(T), s # <<>>
  PROVE  s[1] \in T /\ SubSeq(s, 2, Len(s)) \in Seq(T)
<1>1. Len(s) \in Nat /\ Len(s) >= 1
  OBVIOUS
<1>2. \A i \in 2..Len(s) : s[i] \in T
  BY <1>1
<1> QED
  BY <1>1, <1>2, SubSeqProperties

(* An unstash leaves no markers unless it is refused.                      *)
LEMMA UnstashOK ==
  ASSUME NEW S, Absent \in S, NEW r, RepoOK(r, S), NEW e, e = Unstash(r)
  PROVE  /\ e.exit \in {"ok", "error"}
         /\ \/ RepoOK(e.repo, S) /\ Len(e.repo.commits) >= Len(r.commits)
            \/ Markers \notin S /\ e.exit = "error"
<1> DEFINE s == r.stash[1]
           old == HeadTree(r)
           result == [f \in File |-> Merged(s.base[f], old[f], s.tree[f])]
           kept == [f \in File |-> IF s.base[f] = s.tree[f] THEN r.work[f] ELSE result[f]]
           rest == SubSeq(r.stash, 2, Len(r.stash))
<1>1. /\ r \in Repos(S) /\ r.work \in Trees(S) /\ old \in Trees(S)
      /\ Len(r.commits) \in Nat /\ r.index \in Trees(S) /\ r.merging \in Tips(r)
      /\ r.head \in Branch /\ r.branch \in Heads(r)
      /\ r.stash \in Seq([tree : Trees(S), base : Trees(S)])
  <2>1. r \in Repos(S)
    BY RepoFields
  <2>2. r.stash \in Seq([tree : Trees(S), base : Trees(S)])
    BY <2>1 DEF Repos, Trees
  <2> QED
    BY <2>2, RepoFields
<1>2. CASE e = Refused(r)
  BY <1>1, <1>2 DEF Refused
<1>3. CASE r.stash # <<>>
  <2>1. s \in [tree : Trees(S), base : Trees(S)]
    BY <1>1, <1>3, FirstAndRest
  <2>2. rest \in Seq([tree : Trees(S), base : Trees(S)])
    BY <1>1, <1>3, FirstAndRest
  <2> HIDE DEF s, old, rest
  <2>3. \A f \in File : result[f] \in S \cup {Markers}
    BY <1>1, <2>1 DEF Merged, Trees
  <2>4. CASE e = Refused([r EXCEPT !.work = result, !.unmerged = TRUE])
    <3>1. CASE Markers \in S
      <4> DEFINE q(u) == WithTrees(r, r.index, result, r.merging, u, r.head, r.branch)
                 conflicting == q(TRUE)
      <4>1. result \in Trees(S)
        BY <2>3, <3>1 DEF Trees
      <4> HIDE DEF result
      <4>2. \A u \in BOOLEAN : RepoOK(q(u), S) /\ q(u).commits = r.commits
        BY <1>1, <4>1, TreesSet
      <4>3. e = Refused(conflicting)
        BY <1>1, <2>4 DEF Repos, WithTrees
      <4>4. RepoOK(conflicting, S) /\ conflicting.commits = r.commits
        BY <4>2
      <4> HIDE DEF conflicting
      <4>5. e.repo = conflicting /\ e.exit = "error"
        BY <4>3 DEF Refused
      <4> QED
        BY <1>1, <4>4, <4>5
    <3>2. CASE Markers \notin S
      BY <2>4, <3>2 DEF Refused
    <3> QED
      BY <3>1, <3>2
  <2>5. CASE /\ e = Ok([r EXCEPT !.stash = rest, !.work = kept])
             /\ ~\E f \in File : result[f] = Markers /\ old[f] # Markers
    <3>1. \A f \in File : result[f] \in S
      BY <1>1, <2>3, <2>5 DEF Trees
    <3>2. kept \in Trees(S)
      <4> HIDE DEF result
      <4> QED
        BY <1>1, <3>1 DEF Trees
    <3> HIDE DEF kept
    <3>3. e = Ok(WithStash(r, rest, kept))
      BY <2>5 DEF WithStash
    <3>4. RepoOK(WithStash(r, rest, kept), S) /\ WithStash(r, rest, kept).commits = r.commits
      BY <2>2, <3>2, StashSet
    <3> QED
      BY <1>1, <3>3, <3>4 DEF Ok
  <2> QED
    BY <1>2, <1>3, <2>4, <2>5 DEF Unstash, s, old, rest
<1> QED
  BY <1>2, <1>3 DEF Unstash

(* A merge leaves no markers unless it says so.                            *)
LEMMA MergeOK ==
  ASSUME NEW S, Absent \in S, NEW r, RepoOK(r, S), NEW c \in Tips(r), NEW e,
         e = Merge(r, c)
  PROVE  /\ e.exit \in {"ok", "error", "conflict"}
         /\ \/ RepoOK(e.repo, S) /\ Len(e.repo.commits) >= Len(r.commits)
            \/ Markers \notin S /\ e.exit = "conflict"
<1> DEFINE base == TreeOf(r, MergeBase(r, c))
           ours == HeadTree(r)
           theirs == TreeOf(r, c)
           result == [f \in File |-> Merged(base[f], ours[f], theirs[f])]
           clashes == {f \in File : result[f] = Markers /\ ours[f] # Markers /\ theirs[f] # Markers}
           worked == [f \in File |-> IF result[f] # ours[f] THEN result[f] ELSE r.work[f]]
<1>1. /\ r \in Repos(S) /\ r.work \in Trees(S) /\ ours \in Trees(S) /\ theirs \in Trees(S)
      /\ Len(r.commits) \in Nat /\ r.index \in Trees(S) /\ c \in Tips(r)
      /\ r.head \in Branch /\ r.branch \in Heads(r)
  BY RepoFields
<1> HIDE DEF base, ours, theirs
<1>2. \A f \in File : result[f] \in {ours[f], theirs[f], Markers}
  BY DEF Merged
<1>3. result \in Trees(S \cup {Markers}) /\ (Markers \in S \/ clashes = {} => result \in Trees(S))
  BY <1>1, <1>2 DEF Trees
<1> HIDE DEF result
<1>4. Markers \in S \/ clashes = {} => worked \in Trees(S)
  BY <1>1, <1>3 DEF Trees
<1> HIDE DEF worked, clashes
<1>5. CASE e = Refused(r) \/ e = Ok(r)
  BY <1>1, <1>5 DEF Refused, Ok
<1>6. CASE e = Conflict([r EXCEPT !.work = worked, !.merging = c, !.unmerged = TRUE])
  <2>1. CASE Markers \in S
    <3> DEFINE q(u) == WithTrees(r, r.index, worked, c, u, r.head, r.branch)
               conflicting == q(TRUE)
    <3>1. \A u \in BOOLEAN : RepoOK(q(u), S) /\ q(u).commits = r.commits
      BY <1>1, <1>4, <2>1, TreesSet
    <3>2. e = Conflict(conflicting)
      BY <1>1, <1>6 DEF Repos, WithTrees
    <3>3. RepoOK(conflicting, S) /\ conflicting.commits = r.commits
      BY <3>1
    <3> HIDE DEF conflicting
    <3>4. e.repo = conflicting /\ e.exit = "conflict"
      BY <3>2 DEF Conflict
    <3> QED
      BY <1>1, <3>3, <3>4
  <2>2. CASE Markers \notin S
    BY <1>6, <2>2 DEF Conflict
  <2> QED
    BY <2>1, <2>2
<1>7. CASE e = Ok([Committed(r, result, c) EXCEPT !.work = worked]) /\ clashes = {}
  <2> DEFINE q == CommittedWith(r, result, c, worked)
  <2>1. RepoOK(q, S) /\ Len(q.commits) = Len(r.commits) + 1
    BY <1>1, <1>3, <1>4, <1>7, CommittedOK
  <2> HIDE DEF q
  <2>2. e = Ok(q)
    BY <1>7 DEF CommittedWith, q
  <2> QED
    BY <1>1, <2>1, <2>2 DEF Ok
<1>8. \/ e = Refused(r) \/ e = Ok(r)
      \/ e = Conflict([r EXCEPT !.work = worked, !.merging = c, !.unmerged = TRUE])
      \/ e = Ok([Committed(r, result, c) EXCEPT !.work = worked]) /\ clashes = {}
  BY DEF Merge, base, ours, theirs, result, worked, clashes
<1> QED
  BY <1>5, <1>6, <1>7, <1>8

(* The commands that set the index, the files or the flags.                *)
LEMMA SetsOK ==
  ASSUME NEW S, Absent \in S, NEW r, RepoOK(r, S), NEW e,
         \/ e = Init0(r) \/ e = Add(r) \/ e = Restore(r) \/ e = Unstage(r) \/ e = AbortMerge(r)
         \/ \E c \in Tips(r) : e = ResetSoft(r, c)
  PROVE  /\ RepoOK(e.repo, S) /\ e.repo.commits = r.commits /\ e.exit \in {"ok", "error"}
<1>1. /\ r \in Repos(S) /\ r.work \in Trees(S) /\ HeadTree(r) \in Trees(S)
      /\ r.index \in Trees(S) /\ r.unmerged \in BOOLEAN /\ r.merging \in Tips(r)
      /\ r.head \in Branch /\ r.branch \in Heads(r) /\ Len(r.commits) \in Nat
  BY RepoFields
<1>2. ASSUME e = Refused(r) PROVE RepoOK(e.repo, S) /\ e.repo.commits = r.commits /\ e.exit = "error"
  BY <1>2 DEF Refused
<1>3. ASSUME NEW index \in Trees(S), NEW work \in Trees(S), NEW merging \in Tips(r),
             NEW unmerged \in BOOLEAN, NEW branch \in Heads(r),
             e = Ok(WithTrees(r, index, work, merging, unmerged, r.head, branch))
      PROVE  RepoOK(e.repo, S) /\ e.repo.commits = r.commits /\ e.exit = "ok"
  BY <1>1, <1>3, TreesSet, SMTT(30) DEF Ok
<1>4. CASE e = Init0(r)
  <2>1. [r EXCEPT !.initialized = TRUE] \in Repos(S)
    BY <1>1 DEF Repos
  <2> QED
    BY <1>1, <1>4, <2>1 DEF Init0, Ok, RepoOK, Repos
<1>5. CASE e = Add(r)
  <2>1. e = Ok(WithTrees(r, r.work, r.work, r.merging, FALSE, r.head, r.branch))
    BY <1>1, <1>5 DEF Add, Repos, WithTrees
  <2> QED
    BY <1>1, <1>3, <2>1
<1>6. CASE e = Restore(r)
  <2> DEFINE work == [f \in File |-> IF r.index[f] = Absent THEN r.work[f] ELSE r.index[f]]
  <2>1. work \in Trees(S)
    BY <1>1 DEF Trees
  <2>2. CASE e = Ok([r EXCEPT !.work = work])
    <3>1. e = Ok(WithTrees(r, r.index, work, r.merging, r.unmerged, r.head, r.branch))
      BY <1>1, <2>2 DEF Repos, WithTrees
    <3> HIDE DEF work
    <3> QED
      BY <1>1, <1>3, <2>1, <3>1
  <2> QED
    BY <1>2, <1>6, <2>2 DEF Restore
<1>7. CASE e = Unstage(r)
  <2>1. e = Ok(WithTrees(r, HeadTree(r), r.work, r.merging, FALSE, r.head, r.branch))
    BY <1>1, <1>7 DEF Unstage, Repos, WithTrees
  <2> QED
    BY <1>1, <1>3, <2>1
<1>8. CASE e = AbortMerge(r)
  <2>1. CASE e = Ok([r EXCEPT !.index = HeadTree(r), !.work = HeadTree(r), !.merging = 0,
                              !.unmerged = FALSE])
    <3>1. e = Ok(WithTrees(r, HeadTree(r), HeadTree(r), 0, FALSE, r.head, r.branch))
      BY <1>1, <2>1 DEF Repos, WithTrees
    <3>2. 0 \in Tips(r)
      BY <1>1 DEF Tips
    <3> QED
      BY <1>1, <1>3, <3>1, <3>2
  <2> QED
    BY <1>2, <1>8, <2>1 DEF AbortMerge
<1>9. ASSUME NEW c \in Tips(r), e = ResetSoft(r, c)
      PROVE  RepoOK(e.repo, S) /\ e.repo.commits = r.commits /\ e.exit \in {"ok", "error"}
  <2> DEFINE branch == [r.branch EXCEPT ![r.head] = c]
  <2>1. branch \in Heads(r)
    BY <1>1 DEF Heads
  <2>2. CASE e = Ok([r EXCEPT !.branch[r.head] = c])
    <3>1. e = Ok(WithTrees(r, r.index, r.work, r.merging, r.unmerged, r.head, branch))
      BY <1>1, <2>2 DEF Repos, WithTrees
    <3> HIDE DEF branch
    <3> QED
      BY <1>1, <1>3, <2>1, <3>1
  <2> QED
    BY <1>2, <1>9, <2>2 DEF ResetSoft
<1> QED
  BY <1>4, <1>5, <1>6, <1>7, <1>8, <1>9

(* A command keeps a repository in order, and puts no markers into one     *)
(* that has none, unless it is a merge or an unstash that says it failed.  *)
LEMMA EffectOK ==
  ASSUME NEW S, Absent \in S, NEW r, RepoOK(r, S), NEW command \in Commands, NEW ref,
         RefOK(command, ref, Len(r.commits)), NEW e, e = Effect(command, ref, r)
  PROVE  /\ e.exit \in Exit
         /\ \/ RepoOK(e.repo, S) /\ Len(e.repo.commits) >= Len(r.commits)
            \/ Markers \notin S /\ command = "merge" /\ e.exit = "conflict"
            \/ Markers \notin S /\ command = "unstash" /\ e.exit = "error"
<1>1. /\ Len(r.commits) \in Nat /\ r.branch \in Heads(r)
      /\ TRUE \in BOOLEAN /\ FALSE \in BOOLEAN
  BY RepoFields
<1>2. CASE command \in {"probe", "status"}
  <2>1. e.repo = r /\ e.exit \in Exit
    BY <1>2 DEF Effect, Exit
  <2> QED
    BY <1>1, <2>1
<1>3. CASE command \in {"init", "add", "restore", "unstage", "abort_merge"}
  <2>1. e = Init0(r) \/ e = Add(r) \/ e = Restore(r) \/ e = Unstage(r) \/ e = AbortMerge(r)
    BY <1>3 DEF Effect
  <2> QED
    BY <1>1, <2>1, SetsOK DEF Exit
<1>4. CASE command = "reset_soft"
  <2>1. e = ResetSoft(r, ref) /\ ref \in Tips(r)
    BY <1>1, <1>4 DEF Effect, RefOK, Tips
  <2> QED
    BY <1>1, <2>1, SetsOK DEF Exit
<1>5. CASE command \in {"root", "commit"}
  <2>1. \E empty \in BOOLEAN : e = Commit(r, empty)
    BY <1>5 DEF Effect
  <2> QED
    BY <1>1, <2>1, CommitOK DEF Exit
<1>6. CASE command \in {"branch", "checkout"}
  <2>1. ref \in Branch /\ (e = Checkout(r, ref) \/ e = CheckoutNew(r, ref, Main))
    BY <1>6 DEF Effect, RefOK
  <2> QED
    BY <1>1, <2>1, CheckoutOK DEF Exit
<1>7. CASE command = "rollback"
  <2>1. e = ResetHard(r, ref) /\ ref \in Tips(r)
    BY <1>1, <1>7 DEF Effect, RefOK, Tips
  <2> QED
    BY <1>1, <2>1, ResetHardOK DEF Exit
<1>8. CASE command = "stash"
  BY <1>8, StashOK DEF Effect, Exit
<1>9. CASE command = "unstash"
  BY <1>9, UnstashOK DEF Effect, Exit
<1>10. CASE command = "merge"
  <2>1. e = Merge(r, r.branch[ref]) /\ r.branch[ref] \in Tips(r)
    BY <1>1, <1>10 DEF Effect, RefOK, Heads
  <2> QED
    BY <1>10, <2>1, MergeOK DEF Exit
<1> QED
  BY <1>2, <1>3, <1>4, <1>5, <1>6, <1>7, <1>8, <1>9, <1>10 DEF Commands

-----------------------------------------------------------------------------
(* What version control keeps of a task's workspace.                       *)

Contents == Value \cup {Absent, Markers}
Clean == Value \cup {Absent}

CallRecords ==
    [op : Operations \cup {"none"}, ref : Branch \cup Nat, step : Nat,
     state : {"idle", "next", "running", "returned"}, exit : Exit]

CallOK(c, n) ==
    /\ c \in CallRecords
    /\ c.step \in 1..Len(Program(c.op))
    /\ c.op = "none" => c.state = "idle"
    /\ RefOK(c.op, c.ref, n)

ZombieOK(z, n) == z.command \in Commands /\ RefOK(z.command, z.ref, n)

CallsOK(calls, n) ==
    calls \in [Actor -> CallRecords] /\ \A a \in Actor : CallOK(calls[a], n)

ZombieRecords == [command : Commands, ref : Branch \cup Nat]

ZombiesOK(zs, n) ==
    zs \in Seq(ZombieRecords) /\ \A i \in DOMAIN zs : ZombieOK(zs[i], n)

(* Before a merge or an unstash has raised there are no markers, and none  *)
(* is left running.                                                        *)
Harmless(z) == z.command \notin {"merge", "unstash"}
Unmarked == RepoOK(repo, Clean) /\ \A i \in DOMAIN zombies : Harmless(zombies[i])

GitOK ==
    /\ RepoOK(repo, Contents)
    /\ CallsOK(call, Len(repo.commits))
    /\ ZombiesOK(zombies, Len(repo.commits))
    /\ announced \in BOOLEAN
    /\ announced \/ Unmarked

LEMMA Programs ==
  /\ Program("init") = <<"probe", "init", "add", "root">>
  /\ Program("commit") = <<"add", "status", "commit">>
  /\ \A op : op \notin {"init", "commit"} => Program(op) = <<op>>
BY DEF Program

LEMMA ProgramLength == \A op : Len(Program(op)) \in {1, 3, 4}
<1> SUFFICES ASSUME NEW op PROVE Len(Program(op)) \in {1, 3, 4}
  OBVIOUS
<1>1. CASE op = "init"
  BY <1>1, Programs
<1>2. CASE op = "commit"
  BY <1>2, Programs
<1>3. CASE op \notin {"init", "commit"}
  BY <1>3, Programs
<1> QED
  BY <1>1, <1>2, <1>3

LEMMA CommandOK ==
  ASSUME NEW n, NEW c, CallOK(c, n), c.state # "idle"
  PROVE  /\ Command(c) \in Commands /\ RefOK(Command(c), c.ref, n)
         /\ Command(c) = "merge" => c.op = "merge"
         /\ Command(c) = "unstash" => c.op = "unstash"
         /\ Command(c) \in {"merge", "unstash"} => ~(c.op = "init")
<1>1. c.op \in Operations /\ c.step \in 1..Len(Program(c.op)) /\ RefOK(c.op, c.ref, n)
  BY DEF CallOK, CallRecords
<1>2. CASE c.op = "init"
  <2>1. c.step \in 1..4 /\ Command(c) = <<"probe", "init", "add", "root">>[c.step]
    BY <1>1, <1>2, Programs DEF Command
  <2>2. Command(c) \in {"probe", "init", "add", "root"}
    BY <2>1
  <2> QED
    BY <2>2, <1>2 DEF RefOK, Commands
<1>3. CASE c.op = "commit"
  <2>1. c.step \in 1..3 /\ Command(c) = <<"add", "status", "commit">>[c.step]
    BY <1>1, <1>3, Programs DEF Command
  <2>2. Command(c) \in {"add", "status", "commit"}
    BY <2>1
  <2> QED
    BY <2>2, <1>3 DEF RefOK, Commands
<1>4. CASE c.op \notin {"init", "commit"}
  <2>1. c.step \in 1..1 /\ Command(c) = <<c.op>>[c.step]
    BY <1>1, <1>4, Programs DEF Command
  <2>2. Command(c) = c.op
    BY <2>1
  <2> QED
    BY <1>1, <1>4, <2>2 DEF Operations, Commands
<1> QED
  BY <1>2, <1>3, <1>4

(* The commits only become more.                                           *)
LEMMA CallLater ==
  ASSUME NEW n \in Nat, NEW m \in Nat, m >= n
  PROVE  /\ \A c : CallOK(c, n) => CallOK(c, m)
         /\ \A z : ZombieOK(z, n) => ZombieOK(z, m)
         /\ \A calls : CallsOK(calls, n) => CallsOK(calls, m)
         /\ \A zs : ZombiesOK(zs, n) => ZombiesOK(zs, m)
<1>1. \A op, ref : RefOK(op, ref, n) => RefOK(op, ref, m)
  BY DEF RefOK
<1>2. \A c : CallOK(c, n) => CallOK(c, m)
  BY <1>1 DEF CallOK
<1> QED
  BY <1>1, <1>2 DEF ZombieOK, ZombiesOK, CallsOK

(* A git process is abandoned, or ends.                                    *)
LEMMA ZombieAdded ==
  ASSUME NEW n, NEW zs, ZombiesOK(zs, n), NEW z \in ZombieRecords, ZombieOK(z, n)
  PROVE  /\ ZombiesOK(Append(zs, z), n)
         /\ \A i \in DOMAIN Append(zs, z) :
               Append(zs, z)[i] = z \/ (i \in DOMAIN zs /\ Append(zs, z)[i] = zs[i])
<1>1. zs \in Seq(ZombieRecords) /\ \A i \in 1..Len(zs) : ZombieOK(zs[i], n)
  BY DEF ZombiesOK
<1> HIDE DEF ZombieRecords
<1>2. /\ Append(zs, z) \in Seq(ZombieRecords) /\ DOMAIN zs = 1..Len(zs)
      /\ DOMAIN Append(zs, z) = 1..(Len(zs) + 1) /\ Append(zs, z)[Len(zs) + 1] = z
      /\ \A i \in 1..Len(zs) : Append(zs, z)[i] = zs[i]
  BY <1>1
<1> QED
  BY <1>1, <1>2 DEF ZombiesOK

(* A sequence without one of its items.                                    *)
LEMMA RemoveAtItems ==
  ASSUME NEW S, NEW s \in Seq(S), NEW k \in DOMAIN s
  PROVE  /\ RemoveAt(s, k) \in Seq(S) /\ Len(RemoveAt(s, k)) = Len(s) - 1
         /\ \A i \in 1..(Len(s) - 1) : RemoveAt(s, k)[i] = IF i < k THEN s[i] ELSE s[i + 1]
<1> DEFINE low == SubSeq(s, 1, k - 1)
           high == SubSeq(s, k + 1, Len(s))
<1>1. Len(s) \in Nat /\ k \in 1..Len(s)
  OBVIOUS
<1>2. low \in Seq(S) /\ Len(low) = k - 1 /\ \A i \in 1..(k - 1) : low[i] = s[i]
  BY <1>1, SubSeqProperties
<1>3. high \in Seq(S) /\ Len(high) = Len(s) - k /\ \A i \in 1..(Len(s) - k) : high[i] = s[k + i]
  BY <1>1, SubSeqProperties
<1>4. RemoveAt(s, k) = low \o high
  BY DEF RemoveAt
<1> HIDE DEF low, high
<1>5. /\ low \o high \in Seq(S) /\ Len(low \o high) = Len(low) + Len(high)
      /\ \A i \in 1..(Len(low) + Len(high)) :
           (low \o high)[i] = IF i <= Len(low) THEN low[i] ELSE high[i - Len(low)]
  BY <1>2, <1>3, ConcatProperties
<1>6. ASSUME NEW i \in 1..(Len(s) - 1)
      PROVE  (low \o high)[i] = IF i < k THEN s[i] ELSE s[i + 1]
  <2>1. CASE i < k
    <3>1. i \in 1..(k - 1) /\ i \in 1..(Len(low) + Len(high)) /\ i <= Len(low)
      BY <1>1, <1>2, <1>3, <2>1
    <3>2. (low \o high)[i] = low[i] /\ low[i] = s[i]
      BY <1>2, <1>5, <3>1
    <3> QED
      BY <2>1, <3>2
  <2>2. CASE ~(i < k)
    <3>1. (low \o high)[i] = high[i - (k - 1)] /\ i - (k - 1) \in 1..(Len(s) - k)
      <4>1. /\ i \in 1..(Len(low) + Len(high)) /\ ~(i <= Len(low))
            /\ i - (k - 1) \in 1..(Len(s) - k)
        BY <1>1, <1>2, <1>3, <2>2, SMTT(30)
      <4> QED
        BY <1>2, <1>5, <4>1
    <3>2. high[i - (k - 1)] = s[k + (i - (k - 1))] /\ k + (i - (k - 1)) = i + 1
      BY <1>1, <1>3, <3>1, SMTT(30)
    <3> QED
      BY <2>2, <3>1, <3>2
  <2> QED
    BY <2>1, <2>2
<1> QED
  BY <1>1, <1>2, <1>3, <1>4, <1>5, <1>6, SMTT(30)

LEMMA ZombieRemoved ==
  ASSUME NEW n, NEW zs, ZombiesOK(zs, n), NEW k \in DOMAIN zs
  PROVE  /\ ZombiesOK(RemoveAt(zs, k), n)
         /\ \A i \in DOMAIN RemoveAt(zs, k) : \E j \in DOMAIN zs : RemoveAt(zs, k)[i] = zs[j]
<1> DEFINE left == RemoveAt(zs, k)
<1>1. zs \in Seq(ZombieRecords) /\ Len(zs) \in Nat /\ DOMAIN zs = 1..Len(zs)
  BY DEF ZombiesOK
<1>2. /\ left \in Seq(ZombieRecords) /\ Len(left) = Len(zs) - 1
      /\ \A i \in 1..(Len(zs) - 1) : left[i] = IF i < k THEN zs[i] ELSE zs[i + 1]
  BY <1>1, RemoveAtItems
<1> HIDE DEF left, ZombieRecords
<1>3. DOMAIN left = 1..(Len(zs) - 1)
  BY <1>2
<1>4. \A i \in DOMAIN left : \E j \in DOMAIN zs : left[i] = zs[j]
  <2> SUFFICES ASSUME NEW i \in 1..(Len(zs) - 1) PROVE \E j \in 1..Len(zs) : left[i] = zs[j]
    BY <1>1, <1>3
  <2>1. i \in 1..Len(zs) /\ i + 1 \in 1..Len(zs)
    BY <1>1
  <2>2. left[i] = zs[i] \/ left[i] = zs[i + 1]
    BY <1>2
  <2> QED
    BY <2>1, <2>2
<1>5. ZombiesOK(left, n)
  BY <1>2, <1>4 DEF ZombiesOK
<1> QED
  BY <1>4, <1>5 DEF left

LEMMA CallMoves ==
  ASSUME NEW n \in Nat, NEW m \in Nat, m >= n, CallsOK(call, n),
         NEW a \in Actor, NEW c, CallOK(c, m), call' = [call EXCEPT ![a] = c]
  PROVE  CallsOK(call', m)
<1>1. CallsOK(call, m)
  BY CallLater
<1>2. c \in CallRecords
  BY DEF CallOK
<1> QED
  BY <1>1, <1>2 DEF CallsOK

LEMMA IdleOK ==
  ASSUME NEW n PROVE CallOK(Idle, n)
<1>1. Idle \in CallRecords /\ Len(Program(Idle.op)) = 1 /\ Idle.step = 1
  BY GitAssumption, Programs DEF Idle, CallRecords, Exit
<1> QED
  BY <1>1 DEF Idle, CallOK, RefOK

(* How an operation goes on once a command has ended.                      *)
LEMMA OutcomeOK ==
  ASSUME NEW n \in Nat, CallsOK(call, n), announced \in BOOLEAN, NEW a \in Actor,
         call[a].state \in {"next", "running"}, NEW exit \in Exit,
         Outcome(a, exit) \/ (exit # "ok" /\ Raises(a, exit))
  PROVE  /\ call' = [call EXCEPT ![a] = call'[a]] /\ CallOK(call'[a], n)
         /\ announced' \in BOOLEAN /\ (announced => announced')
         /\ call'[a].op = call[a].op
         /\ \/ call[a].op = "merge" /\ exit = "conflict"
            \/ call[a].op = "unstash" /\ exit = "error"
            => announced'
         /\ \/ call'[a].state = "returned"
            \/ exit \in {"ok", "error"} /\ call'[a].step = call[a].step + 1
         /\ call[a].op = "commit" =>
               \/ /\ exit = "ok" /\ call'[a].step = call[a].step + 1
                  /\ call[a].step \in 1..2 /\ call'[a].state = "next"
               \/ /\ call'[a].state = "returned" /\ call'[a].step = call[a].step
                  /\ call'[a].exit = "ok" => exit \in {"ok", "initialized"}
                  /\ exit = "ok" => call[a].step = 3 \/ call'[a].exit # "ok"
<1> DEFINE c == call[a]
<1>1. /\ call \in [Actor -> CallRecords] /\ c \in CallRecords /\ CallOK(c, n)
      /\ c.step \in 1..Len(Program(c.op)) /\ c.op \in Operations /\ RefOK(c.op, c.ref, n)
  BY DEF CallsOK, CallOK, CallRecords
<1>2. ASSUME NEW x \in Exit, To(a, "returned", x)
      PROVE  /\ call' = [call EXCEPT ![a] = call'[a]] /\ CallOK(call'[a], n)
             /\ call'[a].op = c.op /\ call'[a].state = "returned" /\ call'[a].exit = x
             /\ call'[a].step = c.step
  <2>1. /\ call' = [call EXCEPT ![a] = [c EXCEPT !.state = "returned", !.exit = x]]
        /\ call'[a] = [c EXCEPT !.state = "returned", !.exit = x]
    BY <1>1, <1>2 DEF To
  <2>2. [c EXCEPT !.state = "returned", !.exit = x] \in CallRecords
    BY <1>1 DEF CallRecords
  <2> QED
    BY <1>1, <2>1, <2>2 DEF CallOK, CallRecords
<1>3. ASSUME GoesOn(a), exit \in {"ok", "error"}
      PROVE  /\ call' = [call EXCEPT ![a] = call'[a]] /\ CallOK(call'[a], n)
             /\ call'[a].op = c.op /\ announced' = announced
             /\ \/ /\ call'[a].state = "returned" /\ call'[a].exit = "ok"
                   /\ call'[a].step = c.step /\ c.step = Len(Program(c.op))
                \/ /\ call'[a].state = "next" /\ call'[a].step = c.step + 1
                   /\ c.step < Len(Program(c.op))
  <2>1. CASE c.step = Len(Program(c.op))
    <3>1. To(a, "returned", "ok") /\ announced' = announced
      BY <1>3, <2>1 DEF GoesOn
    <3> QED
      BY <1>2, <2>1, <3>1 DEF Exit
  <2>2. CASE c.step # Len(Program(c.op))
    <3>1. /\ call' = [call EXCEPT ![a] = [c EXCEPT !.step = c.step + 1, !.state = "next"]]
          /\ call'[a] = [c EXCEPT !.step = c.step + 1, !.state = "next"]
          /\ announced' = announced
      BY <1>1, <1>3, <2>2 DEF GoesOn
    <3>2. Len(Program(c.op)) \in {1, 3, 4}
      BY ProgramLength
    <3>3. [c EXCEPT !.step = c.step + 1, !.state = "next"] \in CallRecords
      <4> DEFINE step == c.step + 1
      <4>1. step \in Nat
        BY <1>1 DEF CallRecords
      <4> HIDE DEF step
      <4>2. [c EXCEPT !.step = step, !.state = "next"] \in CallRecords
        BY <1>1, <4>1 DEF CallRecords
      <4> QED
        BY <4>2 DEF step
    <3> QED
      BY <1>1, <2>2, <3>1, <3>2, <3>3 DEF CallOK, CallRecords
  <2> QED
    BY <2>1, <2>2
<1>4. ASSUME Raises(a, exit)
      PROVE  /\ To(a, "returned", exit)
             /\ announced' \in BOOLEAN /\ (announced => announced')
             /\ c.op \in {"merge", "unstash"} => announced'
  BY <1>4 DEF Raises
<1>5. c.op = "commit" => Len(Program(c.op)) = 3 /\ ~Unchecked(c)
  BY Programs DEF Unchecked
<1>6. CASE exit # "ok" /\ Raises(a, exit)
  BY <1>2, <1>4, <1>6
<1>7. CASE (exit = "ok" \/ (exit = "error" /\ Unchecked(c))) /\ GoesOn(a)
  <2>1. c.op # "unstash" \/ exit # "error"
    BY <1>7 DEF Unchecked
  <2>2. exit \in {"ok", "error"} /\ (c.op = "commit" => exit = "ok" /\ Len(Program(c.op)) = 3)
    BY <1>5, <1>7
  <2>3. c.op = "commit" => c.step \in 1..3
    BY <1>1, <1>5
  <2>4. GoesOn(a)
    BY <1>7
  <2>5. /\ call' = [call EXCEPT ![a] = call'[a]] /\ CallOK(call'[a], n)
        /\ call'[a].op = c.op /\ announced' = announced
    BY <1>3, <2>2, <2>4
  <2>6. CASE /\ call'[a].state = "returned" /\ call'[a].exit = "ok"
             /\ call'[a].step = c.step /\ c.step = Len(Program(c.op))
    BY <2>1, <2>2, <2>3, <2>5, <2>6
  <2>7. CASE /\ call'[a].state = "next" /\ call'[a].step = c.step + 1
             /\ c.step < Len(Program(c.op))
    <3>1. ASSUME c.op = "commit" PROVE c.step \in 1..2
      <4>1. c.step \in 1..3
        BY <2>3, <3>1
      <4>2. c.step < 3
        BY <2>2, <2>7, <3>1
      <4> QED
        BY ONLY <4>1, <4>2
    <3> QED
      BY <2>1, <2>2, <2>5, <2>7, <3>1
  <2> QED
    BY <1>3, <2>2, <2>4, <2>6, <2>7
<1>8. CASE exit = "initialized" /\ To(a, "returned", "ok") /\ UNCHANGED announced
  BY <1>2, <1>8 DEF Exit
<1> QED
  <2>1. Outcome(a, exit) /\ ~(exit = "ok" \/ (exit = "error" /\ Unchecked(c)))
        /\ exit # "initialized" => Raises(a, exit)
    BY DEF Outcome
  <2>2. Outcome(a, exit) /\ (exit = "ok" \/ (exit = "error" /\ Unchecked(c))) => GoesOn(a)
    BY DEF Outcome
  <2>3. Outcome(a, exit) /\ ~(exit = "ok" \/ (exit = "error" /\ Unchecked(c)))
        /\ exit = "initialized" => To(a, "returned", "ok") /\ UNCHANGED announced
    BY DEF Outcome
  <2> QED
    BY <1>6, <1>7, <1>8, <2>1, <2>2, <2>3

(* An operation is called, or its outcome is taken.                        *)
LEMMA CallStarts ==
  ASSUME GitOK, NEW a \in Actor, NEW op \in Operations, NEW ref \in Branch \cup Nat,
         RefOK(op, ref, Len(repo.commits)), Call(a, op, ref),
         UNCHANGED <<repo, zombies, announced>>
  PROVE  /\ GitOK' /\ call' = [call EXCEPT ![a] = call'[a]]
         /\ call'[a].op = op /\ call'[a].step = 1
         /\ call'[a].state = "returned" => call'[a].exit = "error"
<1>1. Len(repo.commits) \in Nat /\ CallsOK(call, Len(repo.commits)) /\ Absent \in Contents
  BY RepoFields DEF GitOK, Contents
<1>2. PICK state \in {"next", "returned"}, exit \in {"ok", "error"} :
         /\ call' = [call EXCEPT ![a] = [op |-> op, ref |-> ref, step |-> 1,
                                         state |-> state, exit |-> exit]]
         /\ state = "returned" => exit = "error"
  <2>1. CASE op = "init" \/ repo.initialized
    BY <2>1 DEF Call
  <2>2. CASE ~(op = "init" \/ repo.initialized)
    BY <2>2 DEF Call
  <2> QED
    BY <2>1, <2>2
<1> DEFINE c == [op |-> op, ref |-> ref, step |-> 1, state |-> state, exit |-> exit]
<1>3. CallOK(c, Len(repo.commits))
  <2>1. c \in CallRecords /\ op # "none"
    BY DEF CallRecords, Exit, Operations
  <2>2. 1 \in 1..Len(Program(op))
    <3>1. PICK n \in {1, 3, 4} : Len(Program(op)) = n
      BY ProgramLength
    <3>2. 1 \in 1..n
      OBVIOUS
    <3> QED
      BY ONLY <3>1, <3>2
  <2> QED
    BY <2>1, <2>2 DEF CallOK
<1>4. call'[a] = c
  BY <1>1, <1>2 DEF CallsOK
<1>5. CallsOK(call', Len(repo.commits))
  <2>1. call' = [call EXCEPT ![a] = c] /\ Len(repo.commits) >= Len(repo.commits)
    BY <1>1, <1>2
  <2> HIDE DEF c
  <2> QED
    BY <1>1, <1>3, <2>1, CallMoves
<1>6. GitOK'
  BY <1>5 DEF GitOK, Unmarked
<1>7. c.op = op /\ c.step = 1 /\ (c.state = "returned" => c.exit = "error")
      /\ call' = [call EXCEPT ![a] = c]
  BY <1>2
<1> HIDE DEF c
<1> QED
  BY <1>4, <1>6, <1>7

LEMMA CallEnds ==
  ASSUME GitOK, NEW a \in Actor, call' = [call EXCEPT ![a] = Idle],
         UNCHANGED <<repo, zombies, announced>>
  PROVE  GitOK' /\ call'[a] = Idle
<1>1. Len(repo.commits) \in Nat /\ CallsOK(call, Len(repo.commits)) /\ Absent \in Contents
  BY RepoFields DEF GitOK, Contents
<1>2. CallsOK(call', Len(repo.commits))
  <2>1. CallOK(Idle, Len(repo.commits)) /\ Len(repo.commits) >= Len(repo.commits)
    BY <1>1, IdleOK
  <2> QED
    BY <1>1, <2>1, CallMoves
<1> QED
  BY <1>1, <1>2 DEF GitOK, Unmarked, CallsOK

(* Somebody edits a file.                                                  *)
LEMMA EditOK ==
  ASSUME GitOK, repo' \in Edited(repo), UNCHANGED <<call, zombies, announced>>
  PROVE  GitOK'
<1>1. ASSUME NEW S, Value \subseteq S, Absent \in S, RepoOK(repo, S)
      PROVE  RepoOK(repo', S) /\ repo'.commits = repo.commits
  <2>1. PICK f \in File, v \in Value : repo' = [repo EXCEPT !.work[f] = v]
    BY DEF Edited
  <2> DEFINE work == [repo.work EXCEPT ![f] = v]
  <2>2. /\ repo \in Repos(S) /\ repo.work \in Trees(S) /\ repo.index \in Trees(S)
        /\ repo.merging \in Tips(repo) /\ repo.unmerged \in BOOLEAN /\ repo.head \in Branch
        /\ repo.branch \in Heads(repo)
    BY <1>1, RepoFields
  <2>3. work \in Trees(S)
    BY <1>1, <2>2 DEF Trees
  <2>4. repo' = WithTrees(repo, repo.index, work, repo.merging, repo.unmerged, repo.head, repo.branch)
    BY <2>1, <2>2 DEF Repos, WithTrees
  <2> HIDE DEF work
  <2> QED
    BY <1>1, <2>2, <2>3, <2>4, TreesSet
<1>2. RepoOK(repo', Contents) /\ repo'.commits = repo.commits
  BY <1>1 DEF GitOK, Contents
<1>3. RepoOK(repo, Clean) => RepoOK(repo', Clean)
  BY <1>1 DEF Clean
<1> QED
  BY <1>2, <1>3 DEF GitOK, Unmarked

(* A git command runs: from a repository in order to one in order.         *)
LEMMA CommandRuns ==
  ASSUME GitOK, NEW command \in Commands, NEW ref, RefOK(command, ref, Len(repo.commits)),
         NEW e, e = Effect(command, ref, repo)
  PROVE  /\ e.exit \in Exit /\ RepoOK(e.repo, Contents)
         /\ Len(e.repo.commits) \in Nat /\ Len(repo.commits) \in Nat
         /\ Len(e.repo.commits) >= Len(repo.commits)
         /\ RepoOK(repo, Clean) =>
               \/ RepoOK(e.repo, Clean)
               \/ command = "merge" /\ e.exit = "conflict"
               \/ command = "unstash" /\ e.exit = "error"
<1>1. Absent \in Contents /\ Markers \in Contents /\ Absent \in Clean /\ Markers \notin Clean
  BY GitAssumption DEF Contents, Clean
<1>2. RepoOK(repo, Contents)
  BY DEF GitOK
<1>3. e.exit \in Exit /\ RepoOK(e.repo, Contents) /\ Len(e.repo.commits) >= Len(repo.commits)
  BY <1>1, <1>2, EffectOK
<1>4. Len(e.repo.commits) \in Nat /\ Len(repo.commits) \in Nat
  BY <1>1, <1>2, <1>3, RepoFields
<1>5. RepoOK(repo, Clean) =>
         \/ RepoOK(e.repo, Clean)
         \/ command = "merge" /\ e.exit = "conflict"
         \/ command = "unstash" /\ e.exit = "error"
  <2> SUFFICES ASSUME RepoOK(repo, Clean)
               PROVE  \/ RepoOK(e.repo, Clean)
                      \/ command = "merge" /\ e.exit = "conflict"
                      \/ command = "unstash" /\ e.exit = "error"
    OBVIOUS
  <2>1. \/ RepoOK(e.repo, Clean) /\ Len(e.repo.commits) >= Len(repo.commits)
        \/ Markers \notin Clean /\ command = "merge" /\ e.exit = "conflict"
        \/ Markers \notin Clean /\ command = "unstash" /\ e.exit = "error"
    BY <1>1, EffectOK
  <2> QED
    BY ONLY <2>1, Zenon
<1> QED
  BY <1>3, <1>4, <1>5

(* While an operation commits.                                             *)
Progress(c, r, tested) ==
    /\ r.work = tested
    /\ c.step >= 2 => r.index = tested
    /\ c.state = "returned" /\ c.exit = "ok" => HeadTree(r) = tested

LEMMA StartOK ==
  ASSUME GitOK, NEW a \in Actor, Start(a)
  PROVE  /\ GitOK' /\ call' = [call EXCEPT ![a] = call'[a]] /\ call'[a].op = call[a].op
         /\ \A t : call[a].op = "commit" /\ Progress(call[a], repo, t)
                 => Progress(call'[a], repo', t)
<1> DEFINE n == Len(repo.commits)
<1>1. n \in Nat /\ n >= n /\ CallsOK(call, n) /\ announced \in BOOLEAN /\ call[a].state = "next"
  BY RepoFields DEF GitOK, Contents, Start
<1>2. UNCHANGED <<repo, zombies>>
  BY DEF Start
<1> HIDE DEF n
<1>3. CASE Outcome(a, "error")
  <2>1. /\ call' = [call EXCEPT ![a] = call'[a]] /\ CallOK(call'[a], n)
        /\ announced' \in BOOLEAN /\ (announced => announced')
        /\ call'[a].op = call[a].op
        /\ call[a].op = "commit" =>
              /\ call'[a].step = call[a].step /\ call'[a].exit # "ok"
    BY <1>1, <1>3, OutcomeOK DEF Exit
  <2>2. CallsOK(call', n)
    BY <1>1, <2>1, CallMoves
  <2>3. GitOK'
    BY <1>2, <2>1, <2>2 DEF GitOK, Unmarked, n
  <2> QED
    BY <1>2, <2>1, <2>3 DEF Progress
<1>4. CASE To(a, "running", "ok") /\ UNCHANGED announced
  <2> DEFINE c == [call[a] EXCEPT !.state = "running", !.exit = "ok"]
  <2>1. call \in [Actor -> CallRecords] /\ call[a] \in CallRecords /\ CallOK(call[a], n)
    BY <1>1 DEF CallsOK
  <2>2. call' = [call EXCEPT ![a] = c] /\ call'[a] = c
    BY <1>4, <2>1 DEF To
  <2>3. c \in CallRecords /\ c.op = call[a].op /\ c.ref = call[a].ref /\ c.step = call[a].step
        /\ c.state = "running"
    BY <2>1 DEF CallRecords, Exit
  <2>4. CallOK(c, n)
    <3> HIDE DEF c
    <3>1. call[a].op # "none"
      BY <1>1, <2>1 DEF CallOK
    <3> QED
      BY <2>1, <2>3, <3>1 DEF CallOK
  <2> HIDE DEF c
  <2>5. CallsOK(call', n)
    BY <1>1, <2>2, <2>4, CallMoves
  <2>6. GitOK'
    BY <1>2, <1>4, <2>5 DEF GitOK, Unmarked, n
  <2> QED
    BY <1>2, <2>2, <2>3, <2>6 DEF Progress
<1> QED
  BY <1>3, <1>4 DEF Start

LEMMA FinishOK ==
  ASSUME GitOK, NEW a \in Actor, Finish(a)
  PROVE  /\ GitOK' /\ call' = [call EXCEPT ![a] = call'[a]] /\ call'[a].op = call[a].op
         /\ \A t : call[a].op = "commit" /\ Progress(call[a], repo, t)
                 => Progress(call'[a], repo', t)
<1> DEFINE n == Len(repo.commits)
           m == Len(repo'.commits)
           command == Command(call[a])
           ref == call[a].ref
           e == Effect(command, ref, repo)
<1>1. CallsOK(call, n) /\ CallOK(call[a], n) /\ announced \in BOOLEAN /\ call[a].state = "running"
  BY DEF GitOK, CallsOK, Finish
<1>2. repo' = e.repo /\ Outcome(a, e.exit) /\ zombies' = zombies
  BY DEF Finish
<1>3. /\ command \in Commands /\ RefOK(command, ref, n)
      /\ command = "merge" => call[a].op = "merge"
      /\ command = "unstash" => call[a].op = "unstash"
  BY <1>1, CommandOK
<1> HIDE DEF command, ref, e
<1>4. /\ e.exit \in Exit /\ RepoOK(e.repo, Contents) /\ m \in Nat /\ n \in Nat /\ m >= n
      /\ RepoOK(repo, Clean) =>
            \/ RepoOK(e.repo, Clean)
            \/ command = "merge" /\ e.exit = "conflict"
            \/ command = "unstash" /\ e.exit = "error"
  BY <1>2, <1>3, CommandRuns DEF e
<1> HIDE DEF n, m
<1>5. /\ call' = [call EXCEPT ![a] = call'[a]] /\ CallOK(call'[a], n)
      /\ announced' \in BOOLEAN /\ (announced => announced')
      /\ call'[a].op = call[a].op
      /\ \/ call[a].op = "merge" /\ e.exit = "conflict"
         \/ call[a].op = "unstash" /\ e.exit = "error"
         => announced'
      /\ call[a].op = "commit" =>
            \/ /\ e.exit = "ok" /\ call'[a].step = call[a].step + 1
               /\ call[a].step \in 1..2 /\ call'[a].state = "next"
            \/ /\ call'[a].state = "returned" /\ call'[a].step = call[a].step
               /\ call'[a].exit = "ok" => e.exit \in {"ok", "initialized"}
               /\ e.exit = "ok" => call[a].step = 3 \/ call'[a].exit # "ok"
  BY <1>1, <1>2, <1>4, OutcomeOK
<1>6. CallsOK(call', m)
  <2>1. CallOK(call'[a], m)
    BY <1>4, <1>5, CallLater
  <2> QED
    BY <1>1, <1>4, <1>5, <2>1, CallMoves
<1>7. announced' \/ Unmarked'
  BY <1>2, <1>3, <1>4, <1>5 DEF GitOK, Unmarked
<1>8. GitOK'
  <2>1. ZombiesOK(zombies', m)
    BY <1>2, <1>4, CallLater DEF GitOK, n
  <2> QED
    BY <1>2, <1>4, <1>5, <1>6, <1>7, <2>1 DEF GitOK, m
<1>9. ASSUME NEW t, call[a].op = "commit", Progress(call[a], repo, t)
      PROVE  Progress(call'[a], repo', t)
  <2>1. /\ call[a].step \in 1..3 /\ command = <<"add", "status", "commit">>[call[a].step]
        /\ RepoOK(repo, Contents) /\ Absent \in Contents /\ repo \in Repos(Contents)
    BY <1>1, <1>9, Programs, SMTT(30) DEF CallOK, command, Command, GitOK, Contents, RepoOK
  <2>2. CASE call[a].step = 1
    <3>1. e = Ok([repo EXCEPT !.index = repo.work, !.unmerged = FALSE])
      BY <2>1, <2>2 DEF e, Effect, Add
    <3>2. e.exit = "ok" /\ repo'.index = repo.work /\ repo'.work = repo.work
      BY <1>2, <2>1, <3>1 DEF Ok, Repos
    <3> QED
      BY <1>5, <1>9, <2>2, <3>2 DEF Progress
  <2>3. CASE call[a].step = 2
    <3>1. e.exit \in {"ok", "clean"} /\ repo' = repo
      BY <1>2, <2>1, <2>3 DEF e, Effect
    <3> QED
      BY <1>5, <1>9, <2>3, <3>1 DEF Progress
  <2>4. CASE call[a].step = 3
    <3>1. e = Commit(repo, FALSE)
      BY <2>1, <2>4 DEF e, Effect
    <3>2. /\ e.exit \in {"ok", "error"}
          /\ e.exit = "ok" => HeadTree(repo') = repo.index /\ repo'.work = repo.work
      BY <1>2, <2>1, <3>1, CommitOK
    <3>3. e.exit = "error" => repo' = repo
      BY <1>2, <3>1 DEF Commit, Refused, Ok
    <3>4. e.exit = "ok" => repo'.index = repo.index
      BY <1>2, <2>1, <3>1 DEF Commit, Refused, Ok, Committed, Repos
    <3> QED
      BY <1>5, <1>9, <2>4, <3>2, <3>3, <3>4 DEF Progress
  <2> QED
    BY <2>1, <2>2, <2>3, <2>4
<1> QED
  BY <1>5, <1>8, <1>9

LEMMA TimeOutOK ==
  ASSUME GitOK, NEW a \in Actor, TimeOut(a)
  PROVE  /\ GitOK' /\ call' = [call EXCEPT ![a] = call'[a]] /\ call'[a].op = call[a].op
         /\ \A t : call[a].op = "commit" /\ Progress(call[a], repo, t)
                 => Progress(call'[a], repo', t)
<1> DEFINE n == Len(repo.commits)
           command == Command(call[a])
           ref == call[a].ref
<1>1. /\ n \in Nat /\ n >= n /\ CallsOK(call, n) /\ CallOK(call[a], n)
      /\ announced \in BOOLEAN /\ call[a].state = "running"
  BY RepoFields DEF GitOK, CallsOK, TimeOut, Contents
<1>2. /\ repo' = repo /\ Raises(a, "error")
      /\ zombies' = zombies \/ zombies' = Append(zombies, [command |-> command, ref |-> ref])
  BY DEF TimeOut
<1>3. /\ command \in Commands /\ RefOK(command, ref, n)
      /\ command = "merge" => call[a].op = "merge"
      /\ command = "unstash" => call[a].op = "unstash"
  BY <1>1, CommandOK
<1> HIDE DEF command, ref, n
<1>4. /\ call' = [call EXCEPT ![a] = call'[a]] /\ CallOK(call'[a], n)
      /\ announced' \in BOOLEAN /\ (announced => announced')
      /\ call'[a].op = call[a].op
      /\ call[a].op = "commit" => /\ call'[a].step = call[a].step /\ call'[a].exit # "ok"
  BY <1>1, <1>2, OutcomeOK DEF Exit
<1>5. CallsOK(call', n)
  BY <1>1, <1>4, CallMoves
<1>6. call[a].op \in {"merge", "unstash"} => announced'
  BY <1>2 DEF Raises
<1>7. /\ ZombiesOK(zombies', n)
      /\ \A i \in DOMAIN zombies' :
            \/ zombies'[i].command = command
            \/ i \in DOMAIN zombies /\ zombies'[i] = zombies[i]
  <2> DEFINE z == [command |-> command, ref |-> ref]
  <2>1. z \in ZombieRecords /\ ZombieOK(z, n) /\ ZombiesOK(zombies, n) /\ z.command = command
    BY <1>1, <1>3 DEF GitOK, ZombieOK, ZombieRecords, CallOK, CallRecords, n, ref
  <2>2. zombies' = zombies \/ zombies' = Append(zombies, z)
    BY <1>2
  <2> HIDE DEF z
  <2>3. CASE zombies' = zombies
    BY <2>1, <2>3
  <2>4. CASE zombies' = Append(zombies, z)
    <3>1. /\ ZombiesOK(Append(zombies, z), n)
          /\ \A i \in DOMAIN Append(zombies, z) :
                \/ Append(zombies, z)[i] = z
                \/ i \in DOMAIN zombies /\ Append(zombies, z)[i] = zombies[i]
      BY ONLY <2>1, ZombieAdded
    <3> QED
      BY <2>1, <2>4, <3>1, Zenon
  <2> QED
    BY <2>2, <2>3, <2>4
<1>8. announced' \/ Unmarked'
  <2>1. command \in {"merge", "unstash"} => announced'
    BY <1>3, <1>6
  <2> QED
    BY <1>2, <1>4, <1>7, <2>1 DEF GitOK, Unmarked, Harmless
<1>9. GitOK'
  BY <1>2, <1>4, <1>5, <1>7, <1>8 DEF GitOK, n
<1> QED
  BY <1>2, <1>4, <1>9 DEF Progress

LEMMA ZombieEndsOK ==
  ASSUME GitOK, ZombieEnds
  PROVE  GitOK'
<1> PICK k \in DOMAIN zombies :
         /\ repo' = Effect(zombies[k].command, zombies[k].ref, repo).repo
         /\ zombies' = RemoveAt(zombies, k)
  BY DEF ZombieEnds
<1> DEFINE n == Len(repo.commits)
           m == Len(repo'.commits)
           zombie == zombies[k]
           e == Effect(zombie.command, zombie.ref, repo)
<1>1. /\ ZombiesOK(zombies, n) /\ ZombieOK(zombie, n) /\ CallsOK(call, n)
      /\ announced \in BOOLEAN /\ repo' = e.repo /\ UNCHANGED <<call, announced>>
  BY DEF GitOK, ZombiesOK, ZombieEnds
<1>2. zombie.command \in Commands /\ RefOK(zombie.command, zombie.ref, n)
  BY <1>1 DEF ZombieOK
<1> HIDE DEF e
<1>3. /\ e.exit \in Exit /\ RepoOK(e.repo, Contents) /\ m \in Nat /\ n \in Nat /\ m >= n
      /\ RepoOK(repo, Clean) =>
            \/ RepoOK(e.repo, Clean)
            \/ zombie.command = "merge" /\ e.exit = "conflict"
            \/ zombie.command = "unstash" /\ e.exit = "error"
  BY <1>1, <1>2, CommandRuns DEF e
<1> HIDE DEF n, m
<1>4. CallsOK(call', m)
  BY <1>1, <1>3, CallLater
<1>5. ZombiesOK(zombies', m)
  <2>1. ZombiesOK(zombies', n)
    BY <1>1, ZombieRemoved
  <2> QED
    BY <1>3, <2>1, CallLater
<1>6. announced' \/ Unmarked'
  <2>1. \A i \in DOMAIN zombies' : \E j \in DOMAIN zombies : zombies'[i] = zombies[j]
    BY <1>1, ZombieRemoved
  <2> QED
    BY <1>1, <1>3, <2>1 DEF GitOK, Unmarked, Harmless
<1> QED
  BY <1>1, <1>3, <1>4, <1>5, <1>6 DEF GitOK, m

LEMMA GitStepOK ==
  ASSUME GitOK, NEW a \in Actor, GitStep(a)
  PROVE  /\ GitOK' /\ call' = [call EXCEPT ![a] = call'[a]] /\ call'[a].op = call[a].op
         /\ call[a].state \in {"next", "running"}
         /\ \A t : call[a].op = "commit" /\ Progress(call[a], repo, t)
                 => Progress(call'[a], repo', t)
BY StartOK, FinishOK, TimeOutOK DEF GitStep, Start, Finish, TimeOut

-----------------------------------------------------------------------------
(* The runs of the loop.                                                   *)

LoopRecords ==
    [pc : PC, left : Int, verdict : {"none", "green", "red", "timed out"}, committed : BOOLEAN,
     tested : Tree, touched : BOOLEAN]

(* While nobody else touches the workspace: what was tested is there until *)
(* the commit, and then at the head of the branch.                         *)
Recording(q, c, r) ==
    q.pc \in AfterTest /\ ~q.touched =>
       /\ q.pc = "commit" => r.work = q.tested
       /\ q.pc = "committing" => Progress(c, r, q.tested)
       /\ q.pc \in {"passed", "failed", "fix"} /\ q.committed => HeadTree(r) = q.tested

(* The loop is in its operation exactly where it waits for one.            *)
Waiting(q, c) ==
    /\ q.pc \notin {"init", "committing"} => c = Idle
    /\ q.pc = "init" => c.op = "init"
    /\ q.pc = "committing" => c.op = "commit"

RunOK(q, c, r) == q \in LoopRecords /\ Waiting(q, c) /\ Recording(q, c, r)

LoopOK ==
    /\ GitOK
    /\ alive \subseteq Loop /\ \A l \in alive : loop[l].pc = "testing"
    /\ loop \in [Loop -> LoopRecords]
    /\ \A l \in Loop : RunOK(loop[l], call[l], repo)

LEMMA LoopParts ==
  ASSUME LoopOK, NEW l \in Loop
  PROVE  /\ GitOK /\ Loop \subseteq Actor /\ Caller \subseteq Actor /\ Loop \cap Caller = {}
         /\ loop \in [Loop -> LoopRecords] /\ loop[l] \in LoopRecords
         /\ Waiting(loop[l], call[l]) /\ Recording(loop[l], call[l], repo)
         /\ call \in [Actor -> CallRecords] /\ repo.work \in Tree /\ NoFiles \in Tree
         /\ l \in alive => loop[l].pc = "testing"
<1>1. GitOK /\ loop \in [Loop -> LoopRecords] /\ RunOK(loop[l], call[l], repo)
      /\ (l \in alive => loop[l].pc = "testing")
  BY DEF LoopOK
<1>2. repo.work \in Trees(Contents)
  BY <1>1, RepoFields DEF GitOK, Contents
<1>3. Tree = Trees(Contents) /\ NoFiles \in Trees(Contents)
  BY DEF Tree, Trees, Contents, NoFiles
<1> QED
  BY <1>1, <1>2, <1>3, ActorsAssumption DEF RunOK, GitOK, CallsOK

(* One run moves, in a workspace that stays as it is.                      *)
LEMMA RunMoves ==
  ASSUME LoopOK, GitOK', NEW l \in Loop, NEW q, loop' = [loop EXCEPT ![l] = q], repo' = repo,
         RunOK(q, call'[l], repo), \A k \in Loop \ {l} : call'[k] = call[k],
         alive' \subseteq alive \cup {l}, l \in alive' => q.pc = "testing"
  PROVE  LoopOK'
<1>1. q \in LoopRecords /\ loop \in [Loop -> LoopRecords]
  BY DEF RunOK, LoopOK
<1>2. loop' \in [Loop -> LoopRecords] /\ loop'[l] = q /\ \A k \in Loop \ {l} : loop'[k] = loop[k]
  BY <1>1
<1>3. \A k \in Loop : RunOK(loop'[k], call'[k], repo')
  BY <1>2 DEF LoopOK
<1>4. alive' \subseteq Loop /\ \A k \in alive' : loop'[k].pc = "testing"
  BY <1>2 DEF LoopOK
<1> QED
  BY <1>2, <1>3, <1>4 DEF LoopOK

(* Others than those of S change the workspace.                            *)
LEMMA OthersTouch ==
  ASSUME LoopOK, GitOK', NEW S, Touched(S),
         \A l \in Loop : IF l \in S THEN RunOK(loop[l], call'[l], repo')
                         ELSE Waiting(loop[l], call'[l]),
         alive' = alive
  PROVE  LoopOK'
<1>1. loop \in [Loop -> LoopRecords] /\ alive \subseteq Loop
  BY DEF LoopOK
<1>2. ASSUME NEW l \in Loop
      PROVE  RunOK(loop'[l], call'[l], repo') /\ loop'[l].pc = loop[l].pc
  <2>1. CASE l \in S
    BY <2>1 DEF Touched
  <2>2. CASE l \notin S /\ loop[l].pc \notin AfterTest
    <3>1. loop'[l] = loop[l] /\ Waiting(loop[l], call'[l])
      BY <2>2 DEF Touched
    <3> QED
      BY <1>1, <2>2, <3>1 DEF RunOK, Recording
  <2>3. CASE l \notin S /\ loop[l].pc \in AfterTest
    <3>1. loop'[l] = [loop[l] EXCEPT !.touched = TRUE] /\ Waiting(loop[l], call'[l])
      BY <2>3 DEF Touched
    <3>2. loop[l] \in LoopRecords
      BY <1>1
    <3>3. loop'[l] \in LoopRecords /\ loop'[l].pc = loop[l].pc /\ loop'[l].touched
      BY <3>1, <3>2 DEF LoopRecords
    <3> QED
      BY <3>1, <3>3 DEF RunOK, Recording, Waiting
  <2> QED
    BY <2>1, <2>2, <2>3
<1>3. loop' \in [Loop -> LoopRecords]
  <2>1. loop' = [l \in Loop |-> loop'[l]]
    BY DEF Touched
  <2> QED
    BY <1>2, <2>1 DEF RunOK
<1> QED
  BY <1>1, <1>2, <1>3 DEF LoopOK

LEMMA EditTouches ==
  ASSUME LoopOK, repo' \in Edited(repo), NEW S, Touched(S),
         \A l \in Loop \cap S : loop[l].pc \notin AfterTest,
         UNCHANGED <<call, zombies, announced, alive>>
  PROVE  LoopOK'
<1>1. GitOK'
  BY EditOK DEF LoopOK
<1>2. \A l \in Loop : IF l \in S THEN RunOK(loop[l], call'[l], repo')
                      ELSE Waiting(loop[l], call'[l])
  BY DEF LoopOK, RunOK, Recording
<1> QED
  BY <1>1, <1>2, OthersTouch

LEMMA GitsTouch ==
  ASSUME LoopOK, NEW a \in Actor, Gits(a)
  PROVE  LoopOK'
<1>1. /\ GitOK' /\ call' = [call EXCEPT ![a] = call'[a]] /\ call'[a].op = call[a].op
      /\ call[a].state \in {"next", "running"}
      /\ \A t : call[a].op = "commit" /\ Progress(call[a], repo, t)
              => Progress(call'[a], repo', t)
  BY GitStepOK DEF LoopOK, Gits
<1>2. \A b \in Actor \ {a} : call'[b] = call[b]
  BY <1>1 DEF LoopOK, GitOK, CallsOK
<1>3. ASSUME a \in Loop PROVE RunOK(loop[a], call'[a], repo')
  <2>1. loop[a] \in LoopRecords /\ Waiting(loop[a], call[a]) /\ Recording(loop[a], call[a], repo)
    BY <1>3, LoopParts
  <2>2. loop[a].pc \in {"init", "committing"} /\ Waiting(loop[a], call'[a])
    BY <1>1, <2>1 DEF Waiting, Idle
  <2>3. Recording(loop[a], call'[a], repo')
    BY <1>1, <2>1, <2>2 DEF Recording, AfterTest, Waiting
  <2> QED
    BY <2>1, <2>2, <2>3 DEF RunOK
<1>4. ASSUME NEW l \in Loop, l # a
      PROVE  call'[l] = call[l] /\ Waiting(loop[l], call'[l]) /\ RunOK(loop[l], call[l], repo)
  BY <1>2, <1>4, LoopParts, ActorsAssumption DEF LoopOK
<1>5. CASE repo' = repo /\ UNCHANGED loop
  <2>1. \A l \in Loop : RunOK(loop'[l], call'[l], repo')
    BY <1>3, <1>4, <1>5
  <2> QED
    BY <1>1, <1>5, <2>1 DEF LoopOK, Gits
<1>6. CASE Touched({a})
  <2>1. \A l \in Loop : IF l \in {a} THEN RunOK(loop[l], call'[l], repo')
                        ELSE Waiting(loop[l], call'[l])
    BY <1>3, <1>4
  <2> QED
    BY <1>1, <1>6, <2>1, OthersTouch DEF Gits
<1> QED
  BY <1>5, <1>6 DEF Gits

LEMMA StartOfRun == Start0 \in LoopRecords /\ Start0.pc = "idle"
BY DEF Start0, LoopRecords, PC, Tree, NoFiles

LEMMA LoopInit == Init => LoopOK
<1> SUFFICES ASSUME Init PROVE LoopOK
  OBVIOUS
<1>1. repo \in Found /\ call = [a \in Actor |-> Idle] /\ zombies = <<>> /\ announced = FALSE
      /\ loop = [l \in Loop |-> Start0] /\ alive = {}
  BY DEF Init, GitInit
<1>2. RepoOK(repo, Clean)
  BY <1>1, FoundAssumption DEF Clean
<1>3. RepoOK(repo, Contents)
  <2>1. ASSUME NEW x \in Trees(Clean) PROVE x \in Trees(Contents)
    BY <2>1 DEF Trees, Clean, Contents
  <2> QED
    BY <1>2, RepoWidens DEF Clean, Contents
<1>4. CallsOK(call, Len(repo.commits))
  BY <1>1, IdleOK DEF CallsOK, CallOK
<1>5. ZombiesOK(zombies, Len(repo.commits)) /\ DOMAIN zombies = {}
  <2>1. zombies \in Seq(ZombieRecords) /\ DOMAIN zombies = {}
    BY <1>1
  <2> QED
    BY <2>1 DEF ZombiesOK
<1>6. GitOK
  BY <1>1, <1>2, <1>3, <1>4, <1>5 DEF GitOK, Unmarked
<1>7. Start0 \in LoopRecords
  BY StartOfRun
<1>8. \A l \in Loop : RunOK(loop[l], call[l], repo)
  BY <1>1, <1>7, ActorsAssumption DEF RunOK, Waiting, Recording, Start0, AfterTest
<1> QED
  BY <1>1, <1>6, <1>7, <1>8 DEF LoopOK

(* The steps of one run that leave version control alone.                  *)
LEMMA RunStep ==
  ASSUME LoopOK, NEW l \in Loop, loop[l].pc \notin {"init", "committing"},
         NEW q \in LoopRecords, q.pc \notin {"init", "committing"},
         loop' = [loop EXCEPT ![l] = q], Recording(q, Idle, repo), UNCHANGED gitVars,
         alive' \subseteq alive \cup {l}, l \in alive' => q.pc = "testing"
  PROVE  LoopOK'
<1>1. Waiting(loop[l], call[l])
  BY LoopParts
<1>2. RunOK(q, call'[l], repo)
  BY <1>1 DEF RunOK, Waiting, gitVars
<1>3. GitOK'
  BY DEF LoopOK, GitOK, Unmarked, gitVars
<1> QED
  BY <1>2, <1>3, RunMoves DEF gitVars

LEMMA TestedOK ==
  ASSUME LoopOK, NEW l \in Loop, loop[l].pc \in {"test", "testing", "draining"},
         NEW v \in {"green", "red", "timed out"},
         loop' = [loop EXCEPT ![l].pc = "commit", ![l].verdict = v,
                              ![l].tested = repo.work, ![l].touched = FALSE],
         UNCHANGED gitVars, alive' = alive \/ alive' = alive \ {l},
         loop[l].pc = "testing" => alive' = alive \ {l}
  PROVE  LoopOK'
<1> DEFINE q == [loop[l] EXCEPT !.pc = "commit", !.verdict = v, !.tested = repo.work,
                                !.touched = FALSE]
<1>1. /\ loop \in [Loop -> LoopRecords] /\ loop[l] \in LoopRecords /\ repo.work \in Tree
      /\ l \in alive => loop[l].pc = "testing"
  BY LoopParts
<1>2. loop' = [loop EXCEPT ![l] = q]
  BY <1>1
<1>3. q \in LoopRecords /\ q.pc = "commit" /\ q.tested = repo.work
  BY <1>1 DEF LoopRecords, PC
<1> HIDE DEF q
<1>4. Recording(q, Idle, repo)
  BY <1>3 DEF Recording
<1> QED
  BY <1>1, <1>2, <1>3, <1>4, RunStep

LEMMA RunOfLoop ==
  ASSUME LoopOK, NEW l \in Loop, SpawnTest(l) \/ TestEnds(l) \/ TestTimesOut(l) \/ Drained(l)
  PROVE  LoopOK'
<1>1. /\ loop \in [Loop -> LoopRecords] /\ loop[l] \in LoopRecords
      /\ l \in alive => loop[l].pc = "testing"
  BY LoopParts
<1>2. ASSUME NEW pc \in {"testing", "draining", "error"}, Goto(l, pc),
             loop[l].pc \in {"test", "testing"}, UNCHANGED gitVars,
             alive' \subseteq alive \cup {l}, l \in alive' => pc = "testing"
      PROVE  LoopOK'
  <2> DEFINE q == [loop[l] EXCEPT !.pc = pc]
  <2>1. loop' = [loop EXCEPT ![l] = q]
    BY <1>1, <1>2 DEF Goto
  <2>2. q \in LoopRecords /\ q.pc = pc
    BY <1>1 DEF LoopRecords, PC
  <2> HIDE DEF q
  <2>3. Recording(q, Idle, repo)
    BY <2>2 DEF Recording, AfterTest
  <2> QED
    BY <1>2, <2>1, <2>2, <2>3, RunStep
<1>3. CASE SpawnTest(l)
  BY <1>1, <1>2, <1>3, TestedOK DEF SpawnTest
<1>4. CASE TestEnds(l)
  BY <1>4, TestedOK DEF TestEnds
<1>5. CASE TestTimesOut(l)
  BY <1>2, <1>5 DEF TestTimesOut
<1>6. CASE Drained(l)
  BY <1>6, TestedOK DEF Drained
<1> QED
  BY <1>3, <1>4, <1>5, <1>6

LEMMA LoopReturns ==
  ASSUME LoopOK, NEW l \in Loop, FixReturns(l) \/ Answered(l)
  PROVE  LoopOK'
<1>1. /\ loop \in [Loop -> LoopRecords] /\ loop[l] \in LoopRecords /\ NoFiles \in Tree
      /\ l \in alive => loop[l].pc = "testing"
      /\ Waiting(loop[l], call[l]) /\ Recording(loop[l], call[l], repo)
  BY LoopParts
<1>2. UNCHANGED gitVars /\ alive' = alive /\ loop[l].pc \in {"fix", "passed", "failed", "error"}
  BY DEF FixReturns, Answered
<1>3. PICK q \in LoopRecords :
         /\ loop' = [loop EXCEPT ![l] = q] /\ q.pc \in {"idle", "test", "error", "failed"}
         /\ q.pc = "failed" => /\ q.touched = loop[l].touched /\ q.committed = loop[l].committed
                              /\ q.tested = loop[l].tested /\ loop[l].pc = "fix"
  <2>1. CASE \E pc \in {"error", "failed"} : loop[l].pc = "fix" /\ Goto(l, pc)
    <3>1. PICK pc \in {"error", "failed"} : loop[l].pc = "fix" /\ Goto(l, pc)
      BY <2>1
    <3> DEFINE q == [loop[l] EXCEPT !.pc = pc]
    <3>2. loop' = [loop EXCEPT ![l] = q]
      BY <1>1, <3>1 DEF Goto
    <3>3. q \in LoopRecords /\ q.pc = pc /\ q.touched = loop[l].touched
          /\ q.committed = loop[l].committed /\ q.tested = loop[l].tested
      BY <1>1 DEF LoopRecords, PC
    <3> HIDE DEF q
    <3> QED
      BY <3>1, <3>2, <3>3
  <2>2. CASE loop' = [loop EXCEPT ![l] = [Start0 EXCEPT !.pc = "test", !.left = loop[l].left]]
    <3> DEFINE q == [Start0 EXCEPT !.pc = "test", !.left = loop[l].left]
    <3>1. q \in LoopRecords /\ q.pc = "test"
      BY <1>1 DEF LoopRecords, PC, Start0
    <3> HIDE DEF q
    <3> QED
      BY <2>2, <3>1 DEF q
  <2>3. CASE loop' = [loop EXCEPT ![l] = Start0]
    BY <2>3, StartOfRun
  <2> QED
    BY <2>1, <2>2, <2>3 DEF FixReturns, Answered
<1>4. Recording(q, Idle, repo)
  BY <1>1, <1>3 DEF Recording, AfterTest
<1> QED
  BY <1>1, <1>2, <1>3, <1>4, RunStep

(* The steps that begin or end an operation.                               *)
LEMMA RunCalls ==
  ASSUME LoopOK, NEW l \in Loop, Run(l) \/ CommitCycle(l)
  PROVE  LoopOK'
<1>1. /\ loop \in [Loop -> LoopRecords] /\ loop[l] \in LoopRecords /\ GitOK
      /\ l \in alive => loop[l].pc = "testing"
      /\ Recording(loop[l], call[l], repo) /\ l \in Actor /\ Loop \subseteq Actor
      /\ call \in [Actor -> CallRecords]
  BY LoopParts
<1>2. UNCHANGED <<repo, zombies, announced, alive>> /\ loop[l].pc \in {"idle", "commit"}
  BY DEF Run, CommitCycle
<1>3. ASSUME NEW op \in {"init", "commit"}, Call(l, op, Main)
      PROVE  /\ GitOK' /\ call' = [call EXCEPT ![l] = call'[l]]
             /\ call'[l].op = op /\ call'[l].step = 1
             /\ call'[l].state = "returned" => call'[l].exit = "error"
  <2>1. op \in Operations /\ Main \in Branch \cup Nat /\ RefOK(op, Main, Len(repo.commits))
    BY GitAssumption DEF Operations, RefOK
  <2> QED
    BY <1>1, <1>2, <1>3, <2>1, CallStarts
<1>4. CASE Run(l)
  <2>1. PICK left \in Int : loop' = [loop EXCEPT ![l].left = left, ![l].pc = "init"]
    BY <1>4, LoopAssumption DEF Run
  <2> DEFINE q == [loop[l] EXCEPT !.left = left, !.pc = "init"]
  <2>2. loop' = [loop EXCEPT ![l] = q]
    BY <1>1, <2>1
  <2>3. q \in LoopRecords /\ q.pc = "init"
    BY <1>1 DEF LoopRecords, PC
  <2> HIDE DEF q
  <2>4. /\ GitOK' /\ call' = [call EXCEPT ![l] = call'[l]] /\ call'[l].op = "init"
    BY <1>3, <1>4 DEF Run
  <2>5. RunOK(q, call'[l], repo)
    BY <2>3, <2>4 DEF RunOK, Waiting, Recording, AfterTest
  <2>6. \A k \in Loop \ {l} : call'[k] = call[k]
    BY <1>1, <2>4
  <2>7. loop[l].pc = "idle"
    BY <1>4 DEF Run
  <2> QED
    BY <1>1, <1>2, <2>2, <2>4, <2>5, <2>6, <2>7, RunMoves
<1>5. CASE CommitCycle(l)
  <2> DEFINE q == [loop[l] EXCEPT !.pc = "committing"]
  <2>1. loop' = [loop EXCEPT ![l] = q] /\ loop[l].pc = "commit"
    BY <1>1, <1>5 DEF CommitCycle, Goto
  <2>2. q \in LoopRecords /\ q.pc = "committing" /\ q.tested = loop[l].tested
        /\ q.touched = loop[l].touched
    BY <1>1 DEF LoopRecords, PC
  <2> HIDE DEF q
  <2>3. /\ GitOK' /\ call' = [call EXCEPT ![l] = call'[l]]
        /\ call'[l].op = "commit" /\ call'[l].step = 1
        /\ call'[l].state = "returned" => call'[l].exit = "error"
    BY <1>3, <1>5 DEF CommitCycle
  <2>4. Recording(q, call'[l], repo)
    BY <1>1, <2>1, <2>2, <2>3 DEF Recording, Progress, AfterTest
  <2>5. RunOK(q, call'[l], repo)
    BY <2>2, <2>3, <2>4 DEF RunOK, Waiting
  <2>6. \A k \in Loop \ {l} : call'[k] = call[k]
    BY <1>1, <2>3
  <2> QED
    BY <1>1, <1>2, <2>1, <2>3, <2>5, <2>6, RunMoves
<1> QED
  BY <1>4, <1>5

LEMMA RunTakes ==
  ASSUME LoopOK, NEW l \in Loop, Initialised(l) \/ CycleCommitted(l)
  PROVE  LoopOK'
<1>1. /\ loop \in [Loop -> LoopRecords] /\ loop[l] \in LoopRecords /\ GitOK
      /\ l \in alive => loop[l].pc = "testing"
      /\ Recording(loop[l], call[l], repo) /\ l \in Actor /\ Loop \subseteq Actor
      /\ call \in [Actor -> CallRecords]
  BY LoopParts
<1>2. /\ UNCHANGED <<repo, zombies, announced, alive>> /\ loop[l].pc \in {"init", "committing"}
      /\ call' = [call EXCEPT ![l] = Idle] /\ call[l].state = "returned"
  BY DEF Initialised, CycleCommitted, Returned
<1>3. GitOK' /\ call'[l] = Idle /\ \A k \in Loop \ {l} : call'[k] = call[k]
  BY <1>1, <1>2, CallEnds
<1>4. PICK q \in LoopRecords :
         /\ loop' = [loop EXCEPT ![l] = q] /\ q.pc \in {"test", "error", "passed", "failed", "fix"}
         /\ q.pc \in {"passed", "failed", "fix"} =>
               /\ q.touched = loop[l].touched /\ q.tested = loop[l].tested
               /\ q.committed => call[l].exit = "ok"
               /\ loop[l].pc = "committing"
  <2>1. CASE Initialised(l)
    <3>1. PICK pc \in {"test", "error"} : loop' = [loop EXCEPT ![l].pc = pc]
      BY <2>1 DEF Initialised, Goto
    <3> DEFINE q == [loop[l] EXCEPT !.pc = pc]
    <3>2. loop' = [loop EXCEPT ![l] = q]
      BY <1>1, <3>1
    <3>3. q \in LoopRecords /\ q.pc = pc
      BY <1>1 DEF LoopRecords, PC
    <3> HIDE DEF q
    <3> QED
      BY <3>2, <3>3
  <2>2. CASE CycleCommitted(l)
    <3> DEFINE committed == call[l].exit = "ok"
               left == loop[l].left - 1
    <3>1. PICK pc \in {"passed", "failed", "fix"} :
             loop' = [loop EXCEPT ![l].committed = committed, ![l].left = @ - 1, ![l].pc = pc]
      <4> DEFINE passed == loop[l].verdict \in {"green", "timed out"}
                 pc == CASE passed -> "passed"
                         [] ~passed /\ ~fix_callback -> "failed"
                         [] OTHER -> "fix"
      <4>1. pc \in {"passed", "failed", "fix"}
        BY Zenon
      <4>2. loop' = [loop EXCEPT ![l].committed = committed, ![l].left = @ - 1, ![l].pc = pc]
        BY <2>2 DEF CycleCommitted
      <4> HIDE DEF pc, committed
      <4> QED
        BY <4>1, <4>2
    <3>2. committed \in BOOLEAN /\ left \in Int
      <4>1. committed \in BOOLEAN
        OBVIOUS
      <4>2. loop[l].left \in Int
        BY <1>1 DEF LoopRecords
      <4> QED
        BY <4>1, <4>2
    <3> DEFINE q == [loop[l] EXCEPT !.committed = committed, !.left = left, !.pc = pc]
    <3>3. loop' = [loop EXCEPT ![l] = q]
      BY <1>1, <3>1
    <3> HIDE DEF committed, left
    <3>4. q \in LoopRecords /\ q.pc = pc /\ q.touched = loop[l].touched
          /\ q.tested = loop[l].tested /\ q.committed = committed
      BY <1>1, <3>2 DEF LoopRecords, PC
    <3> HIDE DEF q
    <3>5. loop[l].pc = "committing"
      BY <2>2 DEF CycleCommitted
    <3> QED
      BY <3>3, <3>4, <3>5 DEF committed
  <2> QED
    BY <2>1, <2>2
<1>5. RunOK(q, Idle, repo)
  BY <1>1, <1>2, <1>4 DEF RunOK, Waiting, Recording, Progress, AfterTest
<1> QED
  BY <1>1, <1>2, <1>3, <1>4, <1>5, RunMoves

(* What callers do, and what changes the files beside git.                 *)
LEMMA CallerSteps ==
  ASSUME LoopOK, NEW c \in Caller, Calls(c) \/ Takes(c)
  PROVE  LoopOK'
<1>1. GitOK /\ c \in Actor /\ c \notin Loop /\ Loop \subseteq Actor
      /\ call \in [Actor -> CallRecords]
  BY ActorsAssumption DEF LoopOK, GitOK, CallsOK
<1>2. ASSUME GitOK', call' = [call EXCEPT ![c] = call'[c]], UNCHANGED <<repo, loop, alive>>
      PROVE  LoopOK'
  <2>1. \A l \in Loop : call'[l] = call[l]
    BY <1>1, <1>2
  <2> QED
    BY <1>2, <2>1 DEF LoopOK
<1>3. CASE Calls(c)
  <2>1. PICK op \in Ops, ref \in Branch \cup Nat :
           RefOK(op, ref, Len(repo.commits)) /\ Call(c, op, ref)
    <3>1. PICK op \in Ops : \E ref \in Ref(op) : Call(c, op, ref)
      BY <1>3 DEF Calls
    <3>2. PICK ref \in Ref(op) : Call(c, op, ref)
      BY <3>1
    <3>3. ref \in Branch \cup Nat /\ RefOK(op, ref, Len(repo.commits))
      BY GitAssumption DEF Ref, RefOK
    <3> QED
      BY <3>1, <3>2, <3>3
  <2>2. UNCHANGED <<repo, zombies, announced, loop, alive>>
    BY <1>3 DEF Calls
  <2>3. GitOK' /\ call' = [call EXCEPT ![c] = call'[c]]
    BY <1>1, <2>1, <2>2, CallStarts, LoopAssumption
  <2> QED
    BY <1>2, <2>2, <2>3
<1>4. CASE Takes(c)
  <2>1. call' = [call EXCEPT ![c] = Idle] /\ UNCHANGED <<repo, zombies, announced, loop, alive>>
    BY <1>4 DEF Takes
  <2>2. GitOK' /\ call'[c] = Idle
    BY <1>1, <2>1, CallEnds
  <2> QED
    BY <1>2, <2>1, <2>2
<1> QED
  BY <1>3, <1>4

LEMMA LoopEdits ==
  ASSUME LoopOK, Edits \/ \E l \in Loop : TestWrites(l) \/ FixEdits(l)
  PROVE  LoopOK'
<1>1. ASSUME NEW l \in Loop, TestWrites(l) PROVE LoopOK'
  <2>1. \A k \in Loop \cap {l} : loop[k].pc \notin AfterTest
    BY <1>1, LoopParts DEF TestWrites, AfterTest
  <2> QED
    BY <1>1, <2>1, EditTouches DEF TestWrites
<1>2. CASE Edits \/ \E l \in Loop : FixEdits(l)
  <2>1. \A k \in Loop \cap {} : loop[k].pc \notin AfterTest
    OBVIOUS
  <2>2. Touched({}) /\ repo' \in Edited(repo) /\ UNCHANGED <<call, zombies, announced, alive>>
    BY <1>2 DEF Edits, FixEdits
  <2> QED
    BY <2>1, <2>2, EditTouches
<1> QED
  BY <1>1, <1>2

LEMMA ZombieTouches ==
  ASSUME LoopOK, Zombie
  PROVE  LoopOK'
<1>1. GitOK' /\ UNCHANGED call
  BY ZombieEndsOK DEF Zombie, ZombieEnds, LoopOK
<1>2. \A l \in Loop : IF l \in {} THEN RunOK(loop[l], call'[l], repo')
                      ELSE Waiting(loop[l], call'[l])
  BY <1>1 DEF LoopOK, RunOK
<1> QED
  BY <1>1, <1>2, OthersTouch DEF Zombie

LEMMA LoopNext == LoopOK /\ [Next]_vars => LoopOK'
<1> SUFFICES ASSUME LoopOK, [Next]_vars PROVE LoopOK'
  OBVIOUS
<1>1. CASE UNCHANGED vars
  BY <1>1 DEF vars, gitVars, LoopOK, GitOK, Unmarked
<1>2. ASSUME NEW l \in Loop, LoopStep(l) PROVE LoopOK'
  BY <1>2, RunTakes, RunOfLoop, RunCalls, LoopReturns, GitsTouch, ActorsAssumption DEF LoopStep
<1>3. ASSUME NEW l \in Loop, Run(l) \/ TestWrites(l) \/ FixEdits(l) \/ Answered(l) PROVE LoopOK'
  BY <1>3, RunCalls, LoopEdits, LoopReturns
<1>4. ASSUME NEW c \in Caller, Calls(c) \/ Takes(c) \/ Gits(c) PROVE LoopOK'
  BY <1>4, CallerSteps, GitsTouch, ActorsAssumption
<1>5. CASE Edits \/ Zombie
  BY <1>5, LoopEdits, ZombieTouches
<1> QED
  BY <1>1, <1>2, <1>3, <1>4, <1>5 DEF Next

LEMMA LoopInvariant == Spec => []LoopOK
<1>1. LoopOK /\ [Next]_vars => LoopOK'
  BY LoopNext
<1> QED
  BY <1>1, LoopInit, PTL DEF Spec

-----------------------------------------------------------------------------
(* A cycle recorded as committed leaves the very files its tests ran on at *)
(* the head of the branch, unless somebody else changed the workspace      *)
(* since.                                                                  *)
THEOREM CommitsWhatWasTested == Spec => []TestedIsRecorded
<1>1. LoopOK => TestedIsRecorded
  BY DEF LoopOK, RunOK, Recording, TestedIsRecorded, AfterTest
<1> QED
  BY <1>1, LoopInvariant, PTL

(* Conflict markers reach a commit only after a merge or an unstash has    *)
(* raised.                                                                 *)
THEOREM NoSilentMarkers == Spec => []MarkersAnnounced
<1>1. ASSUME LoopOK PROVE MarkersAnnounced
  <2> SUFFICES ASSUME NEW c \in DOMAIN repo.commits, NEW f \in File,
                      repo.commits[c].tree[f] = Markers, ~announced
               PROVE  FALSE
    BY DEF MarkersAnnounced
  <2>1. RepoOK(repo, Clean)
    BY <1>1 DEF LoopOK, GitOK, Unmarked
  <2>2. repo.commits \in Seq(CommitOf(Clean))
    BY <2>1, RepoFields DEF Clean
  <2>3. repo.commits[c] \in CommitOf(Clean)
    BY <2>2
  <2>4. repo.commits[c].tree[f] \in Clean
    BY <2>3 DEF CommitOf, Trees
  <2> QED
    BY <2>4, GitAssumption DEF Clean
<1> QED
  BY <1>1, LoopInvariant, PTL

(* The parts of the workspace, the operations and the runs keep their      *)
(* domains.                                                                *)
THEOREM TypesOfTheLoop == Spec => []TypeOK
<1>1. ASSUME LoopOK PROVE TypeOK
  <2>1. Tree = Trees(Contents)
    BY DEF Tree, Trees, Contents
  <2>2. /\ repo.index \in Tree /\ repo.work \in Tree
        /\ repo.branch \in [Branch -> 0..Len(repo.commits)]
    BY <1>1, <2>1, RepoFields DEF LoopOK, GitOK, Contents, Heads, Tips
  <2>3. \A a \in Actor : call[a].state \in {"idle", "next", "running", "returned"}
    BY <1>1 DEF LoopOK, GitOK, CallsOK, CallRecords
  <2>4. \A l \in Loop : loop[l].pc \in PC /\ loop[l].tested \in Tree
    BY <1>1 DEF LoopOK, LoopRecords
  <2> QED
    BY <1>1, <2>2, <2>3, <2>4 DEF LoopOK, TypeOK
<1> QED
  BY <1>1, LoopInvariant, PTL
=============================================================================
