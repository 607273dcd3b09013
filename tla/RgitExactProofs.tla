-------------------------- MODULE RgitExactProofs --------------------------
(***************************************************************************)
(* Proof that an --only commit which reports success is exact: its         *)
(* parent's tree plus its own targets and what its hook staged.            *)
(*                                                                         *)
(* OnlySuccessIsExact speaks of processes that have finished; what makes   *)
(* it true is HeadMoved's test of HEAD^1, made after the commit landed and *)
(* at a moment when HEAD may have moved again.  The argument:              *)
(*   - HEAD only ever moves to the newest commit object, whose parent is   *)
(*     the HEAD it replaced or, for an amend, the parent of that HEAD.  So *)
(*     from the moment p's commit landed, HEAD^1 is either the parent of   *)
(*     p's commit or a commit at least as new as p's (LandedExact);        *)
(*   - the three HEADs p reads, for its private index (base), for its      *)
(*     anchors (planned) and in git (on), are read in that order, so       *)
(*     base <= planned <= on < landed (ReadsInOrder);                      *)
(*   - hence HEAD^1 = base, which is older than p's commit, can only mean  *)
(*     that HEAD^1 is the parent of p's commit: on = base, and planned,    *)
(*     in between, is the same commit;                                     *)
(*   - the private index is known edit by edit in every phase (IndexExact).*)
(*                                                                         *)
(* Then the same of a plain or --stage-only command alone in its checkout: *)
(* in each phase the index it stages into and the shared index are known,  *)
(* which makes the staging atomic and the rollback exact.                  *)
(***************************************************************************)
EXTENDS RgitCommitProofs

-----------------------------------------------------------------------------
(* The inductive invariant. *)

\* HEAD names the newest commit object; parents are older than children.
Newest ==
    /\ head = Len(commits)
    /\ \A c \in 1..Len(commits) : commits[c].parent < c

\* What p has staged once every target is in, and once its hook has run
StagedTree(p) ==
    Put(Put(TreeOf(base[p]), cmd[p].paths, Edits),
        AnchorFiles(cmd[p]), PlannedTree(p) \cup cmd[p].anchors)
HookedTree(p) == Put(StagedTree(p), hooked[p], Edits)

\* The exit status comes last, and no commit of p exists before it lands.
Early == {"start", "lock", "base", "plan", "add", "files", "msg", "git", "hook", "land"}

InOrder(p) ==
    /\ pc[p] \notin {"snap", "seed", "swap"}
    /\ pc[p] # "done" => exit[p] = "none"
    /\ pc[p] \in Early => landed[p] = 0
    /\ pc[p] \in {"check", "sync", "write", "report"} => landed[p] # 0

\* The HEADs p has read are read in order, and before its commit
PlannedAfter(p, qs) == \A q \in qs : base[p] <= planned[p][q]

ReadsInOrder(p) ==
    /\ base[p] \in 0..head /\ \A q \in Paths : planned[p][q] \in 0..head
    /\ pc[p] \in {"lock", "base"} => todo[p] = AnchorFiles(cmd[p])
    /\ pc[p] = "plan" => PlannedAfter(p, AnchorFiles(cmd[p]) \ todo[p])
    /\ pc[p] \in {"add", "files", "msg", "git", "hook", "land"}
          => PlannedAfter(p, AnchorFiles(cmd[p]))
    /\ pc[p] \in {"hook", "land"} =>
          base[p] <= on[p] /\ \A q \in Paths : planned[p][q] <= on[p]

\* The paths p may commit and sync: its targets and what its hook staged
Own(p) == cmd[p].paths \cup AnchorFiles(cmd[p]) \cup hooked[p]

\* The private index, in each phase
IndexExact(p) ==
    /\ pc[p] \in {"plan", "add"} => idx[p] = TreeOf(base[p])
    /\ pc[p] = "files" =>
          /\ todo[p] \subseteq AnchorFiles(cmd[p])
          /\ idx[p] = Put(Put(TreeOf(base[p]), cmd[p].paths, Edits),
                          AnchorFiles(cmd[p]) \ todo[p],
                          PlannedTree(p) \cup cmd[p].anchors)
    /\ pc[p] \in {"msg", "git", "hook"} => idx[p] = StagedTree(p)
    /\ pc[p] \in {"land", "check", "sync", "write"} => idx[p] = HookedTree(p)
    /\ pc[p] = "write" => todo[p] \subseteq Own(p)

\* A commit that has landed, whatever became of its process since
LandedExact(p) ==
    landed[p] # 0 =>
        /\ TreeOf(landed[p]) = HookedTree(p)
        /\ base[p] <= on[p] /\ on[p] < landed[p]
        /\ \A q \in AnchorFiles(cmd[p]) : base[p] <= planned[p][q] /\ planned[p][q] <= on[p]
        /\ ~cmd[p].amend => ParentOf(landed[p]) = on[p]
        /\ \/ ParentOf(head) = ParentOf(landed[p])
           \/ ParentOf(head) >= landed[p]

\* What passing the test of HEAD^1 has established
Checked(p) ==
    /\ pc[p] \in {"sync", "write", "report"} \/ exit[p] \in Succeeded
    /\ ~cmd[p].amend /\ base[p] # 0
    => landed[p] # 0 /\ ParentOf(landed[p]) = base[p]

Exact(p) ==
    /\ InOrder(p) /\ ReadsInOrder(p) /\ IndexExact(p) /\ LandedExact(p) /\ Checked(p)

ExactInv == Newest /\ \A p \in Procs : cmd[p].mode = "only" => Exact(p)

-----------------------------------------------------------------------------
(* Commit objects are only ever added, and HEAD moves to the newest. *)

\* What any step does to the commits and HEAD.
Grows ==
    /\ head \in Nat /\ head' \in Nat /\ head <= head'
    /\ \A c \in 0..head : TreeOf(c)' = TreeOf(c) /\ ParentOf(c)' = ParentOf(c)
    /\ ParentOf(head)' \in {ParentOf(head), head}

\* HEAD's parent is a commit, older than HEAD unless the branch is unborn.
LEMMA HeadParent ==
    ASSUME TypeInv, Newest
    PROVE  /\ head \in Nat /\ ParentOf(head) \in Nat /\ ParentOf(head) <= head
           /\ \A c \in 1..head : ParentOf(c) \in Nat /\ ParentOf(c) < c
<1>1. commits \in Seq(Commit) /\ head = Len(commits) /\ head \in Nat
  BY DEF TypeInv, TypeOK, Newest
<1>2. \A c \in 1..head : commits[c] \in Commit /\ commits[c].parent < c
  BY <1>1 DEF Newest
<1>3. \A c \in 1..head : ParentOf(c) \in Nat /\ ParentOf(c) < c
  BY <1>1, <1>2 DEF ParentOf, Commit
<1>4. ParentOf(head) \in Nat /\ ParentOf(head) <= head
  <2>1. CASE head = 0
    BY <2>1 DEF ParentOf
  <2>2. CASE head # 0
    BY <1>1, <1>3, <2>2
  <2>3. QED
    BY <2>1, <2>2
<1>5. QED
  BY <1>1, <1>3, <1>4

\* A step that moves no branch.
LEMMA SameGrows ==
    ASSUME TypeInv, Newest, UNCHANGED <<commits, head>>
    PROVE  Grows /\ Newest'
<1>1. Newest'
  BY DEF Newest
<1>2. Grows
  BY HeadParent DEF Grows, TreeOf, ParentOf
<1>3. QED
  BY <1>1, <1>2

\* A step that adds one commit and moves HEAD to it.
LEMMA AppendGrows ==
    ASSUME TypeInv, Newest, NEW c \in Commit, commits' = Append(commits, c),
           head' = Len(commits) + 1, c.parent \in {head, ParentOf(head)}
    PROVE  /\ Grows /\ Newest'
           /\ head' = head + 1
           /\ TreeOf(head)' = c.tree /\ ParentOf(head)' = c.parent
<1>1. /\ Len(commits') = Len(commits) + 1 /\ Len(commits) \in Nat
      /\ commits'[Len(commits) + 1] = c
      /\ \A i \in 1..Len(commits) : commits'[i] = commits[i]
  BY AppendCommit DEF TypeInv
<1>2. head = Len(commits) /\ head' = head + 1
  BY DEF Newest
<1>3. head \in Nat /\ ParentOf(head) \in Nat /\ ParentOf(head) <= head
  BY HeadParent
<1>4. TreeOf(head)' = c.tree /\ ParentOf(head)' = c.parent
  BY <1>1, <1>2, <1>3 DEF TreeOf, ParentOf
<1>5. \A i \in 0..head : TreeOf(i)' = TreeOf(i) /\ ParentOf(i)' = ParentOf(i)
  BY <1>1, <1>2, <1>3 DEF TreeOf, ParentOf
<1>6. Grows
  BY <1>2, <1>3, <1>4, <1>5 DEF Grows
<1>7. Newest'
  <2>1. \A i \in 1..Len(commits') : commits'[i].parent < i
    <3>1. \A i \in 1..Len(commits) : commits'[i].parent < i
      BY <1>1 DEF Newest
    <3>2. commits'[Len(commits) + 1].parent < Len(commits) + 1
      BY <1>1, <1>2, <1>3
    <3>3. QED
      BY <1>1, <3>1, <3>2
  <2>2. QED
    BY <1>1, <1>2, <2>1 DEF Newest
<1>8. QED
  BY <1>2, <1>4, <1>6, <1>7

\* The trees p has staged, and its commit, stay what they were as long as p
\* itself does not change them: others only add newer commits.
LEMMA TreesKept ==
    ASSUME TypeInv, Newest, Grows, NEW p \in Procs, ReadsInOrder(p),
           cmd'[p] = cmd[p], base'[p] = base[p], planned'[p] = planned[p]
    PROVE  /\ TreeOf(base[p])' = TreeOf(base[p])
           /\ PlannedTree(p)' = PlannedTree(p)
           /\ StagedTree(p)' = StagedTree(p)
           /\ hooked'[p] = hooked[p] => HookedTree(p)' = HookedTree(p)
<1>1. base[p] \in 0..head /\ \A q \in Paths : planned[p][q] \in 0..head
  BY DEF ReadsInOrder
<1>2. /\ TreeOf(base[p])' = TreeOf(base[p])
      /\ PlannedTree(p)' = PlannedTree(p)
  <2>1. TreeOf(base[p])' = TreeOf(base[p])
    BY <1>1 DEF Grows
  <2>2. \A q \in Paths : TreeOf(planned[p][q])' = TreeOf(planned[p][q])
    BY <1>1 DEF Grows
  <2>3. \A e \in Edits : PathOf[e] \in Paths
    BY PathAssumption
  <2>4. PlannedTree(p)' = PlannedTree(p)
    BY <2>2, <2>3 DEF PlannedTree, AnchorFiles
  <2>5. QED
    BY <2>1, <2>4
<1>3. StagedTree(p)' = StagedTree(p)
  BY <1>2 DEF StagedTree, Put, AnchorFiles
<1>4. QED
  BY <1>2, <1>3 DEF HookedTree, Put

\* What is known of a landed commit survives every later commit.
LEMMA LandedKept ==
    ASSUME TypeInv, Newest, Grows, NEW p \in Procs, ReadsInOrder(p), LandedExact(p),
           cmd'[p] = cmd[p], base'[p] = base[p], planned'[p] = planned[p],
           hooked'[p] = hooked[p], on'[p] = on[p], landed'[p] = landed[p]
    PROVE  LandedExact(p)'
<1> SUFFICES ASSUME landed[p] # 0 PROVE LandedExact(p)'
    BY DEF LandedExact
<1>1. landed[p] \in 1..head
  BY DEF TypeInv, TypeOK, Newest
<1>2. /\ TreeOf(landed[p])' = TreeOf(landed[p])
      /\ ParentOf(landed[p])' = ParentOf(landed[p])
  BY <1>1 DEF Grows
<1>3. HookedTree(p)' = HookedTree(p)
  BY TreesKept
<1>4. \/ ParentOf(head)' = ParentOf(landed[p])
      \/ ParentOf(head)' >= landed[p]
  BY <1>1, HeadParent DEF Grows, LandedExact
<1>5. QED
  BY <1>2, <1>3, <1>4 DEF LandedExact

\* Steps of others leave Exact(r) true.
LEMMA OthersExact ==
    ASSUME TypeInv, Newest, Grows, NEW r \in Procs, Exact(r),
           cmd'[r] = cmd[r], pc'[r] = pc[r], idx'[r] = idx[r], base'[r] = base[r],
           planned'[r] = planned[r], todo'[r] = todo[r], on'[r] = on[r],
           hooked'[r] = hooked[r], landed'[r] = landed[r], exit'[r] = exit[r]
    PROVE  Exact(r)'
<1>1. InOrder(r)'
  BY DEF Exact, InOrder
<1>2. ReadsInOrder(r)'
  BY DEF Exact, ReadsInOrder, PlannedAfter, AnchorFiles, Grows
<1>3. LandedExact(r)'
  BY LandedKept DEF Exact
<1>4. IndexExact(r)'
  <2>1. /\ TreeOf(base[r])' = TreeOf(base[r])
        /\ PlannedTree(r)' = PlannedTree(r)
        /\ StagedTree(r)' = StagedTree(r)
        /\ HookedTree(r)' = HookedTree(r)
    BY TreesKept DEF Exact
  <2>2. QED
    BY <2>1 DEF Exact, IndexExact, AnchorFiles, Put, Own
<1>5. Checked(r)'
  <2>1. landed[r] # 0 => ParentOf(landed[r])' = ParentOf(landed[r])
    BY DEF TypeInv, TypeOK, Newest, Grows
  <2>2. QED
    BY <2>1 DEF Exact, Checked
<1>6. QED
  BY <1>1, <1>2, <1>3, <1>4, <1>5 DEF Exact

-----------------------------------------------------------------------------
(* One step of a process. *)

\* Only GitLands adds a commit or moves HEAD.
LEMMA StepGrows ==
    ASSUME TypeInv, Newest, NEW p \in Procs, Step(p)
    PROVE  Grows /\ Newest'
<1>1. CASE GitLands(p)
  <2> DEFINE c == [tree |-> GitIndex(p), parent |-> NewParent(p)]
  <2>1. head = on[p] /\ commits' = Append(commits, c) /\ head' = Len(commits) + 1
    BY <1>1 DEF GitLands, CanLand
  <2>2. c.parent \in {head, ParentOf(head)}
    BY <2>1 DEF NewParent
  <2>3. GitIndex(p) \in SUBSET Edits
    BY <1>1 DEF GitLands, GitIndex, TypeInv, TypeOK, IndexFileExists
  <2>4. c \in Commit
    BY <2>2, <2>3, HeadParent DEF Commit
  <2> HIDE DEF c
  <2>5. QED
    BY <2>1, <2>2, <2>4, AppendGrows
<1>2. CASE UNCHANGED <<commits, head>>
  BY <1>2, SameGrows
<1>3. QED
  BY <1>1, <1>2 DEF Step, Advance, Start, LockCommits, NewOnlyIndex, PlanFile,
     PlanTargets, SnapshotIndex, NewTempStaging, StageAdd, StageFile, Swap, StepFails,
     SeedFails, CommitOptions, GitStart, Hook, GitFails, Rollback, CheckParent, SyncRead,
     SyncWrite, Report, repoVars

\* The local state of process r.
Untouched(r) ==
    /\ cmd'[r] = cmd[r] /\ base'[r] = base[r] /\ planned'[r] = planned[r]
    /\ todo'[r] = todo[r] /\ on'[r] = on[r] /\ hooked'[r] = hooked[r]
    /\ landed'[r] = landed[r] /\ exit'[r] = exit[r]

\* A process writes no one else's local state.
LEMMA StepUntouched ==
    ASSUME TypeInv, NEW p \in Procs, Step(p), NEW r \in Procs \ {p}
    PROVE  Untouched(r)
<1>0. /\ base = [q \in Procs |-> base[q]] /\ planned = [q \in Procs |-> planned[q]]
      /\ todo = [q \in Procs |-> todo[q]] /\ on = [q \in Procs |-> on[q]]
      /\ hooked = [q \in Procs |-> hooked[q]] /\ landed = [q \in Procs |-> landed[q]]
      /\ exit = [q \in Procs |-> exit[q]]
  BY DEF TypeInv, TypeOK
<1>1. ASSUME NEW code, NEW file, Return(p, code, file) PROVE exit'[r] = exit[r]
  BY <1>0, <1>1 DEF Return
<1>2. CASE \/ Start(p) \/ LockCommits(p) \/ PlanTargets(p) \/ NewTempStaging(p)
           \/ Swap(p) \/ StepFails(p) \/ SeedFails(p) \/ CommitOptions(p) \/ GitFails(p)
           \/ Rollback(p) \/ CheckParent(p) \/ Report(p)
  <2>1. UNCHANGED procVars /\ todo'[r] = todo[r]
    BY <1>0, <1>2 DEF Start, LockCommits, PlanTargets, NewTempStaging, Swap,
       StepFails, SeedFails, CommitOptions, GitFails, Rollback, CheckParent, Report
  <2>2. exit' = exit \/ \E code, file : Return(p, code, file)
    BY <1>2 DEF Finish, Start, LockCommits, PlanTargets, NewTempStaging, Swap, StepFails,
       SeedFails, CommitOptions, GitFails, Rollback, CheckParent, Report
  <2>3. QED
    BY <1>1, <2>1, <2>2 DEF procVars, Untouched
<1>3. CASE PlanFile(p)
  <2>1. planned'[r] = planned[r] /\ todo'[r] = todo[r]
    BY <1>0, <1>3 DEF PlanFile
  <2>2. UNCHANGED <<cmd, base, on, hooked, landed, exit>>
    BY <1>3 DEF PlanFile
  <2>3. QED
    BY <2>1, <2>2 DEF Untouched
<1>4. CASE NewOnlyIndex(p) \/ SnapshotIndex(p) \/ GitStart(p)
  BY <1>0, <1>4 DEF NewOnlyIndex, SnapshotIndex, GitStart, Untouched
<1>5. CASE StageAdd(p) \/ StageFile(p) \/ SyncRead(p) \/ SyncWrite(p)
  BY <1>0, <1>5 DEF StageAdd, StageFile, SyncRead, SyncWrite, procVars, Untouched
<1>6. CASE Hook(p)
  <2>1. hooked'[r] = hooked[r]
    BY <1>0, <1>6 DEF Hook
  <2>2. QED
    BY <1>6, <2>1 DEF Hook, Untouched
<1>7. CASE GitLands(p)
  BY <1>0, <1>7 DEF GitLands, Untouched
<1>8. QED
  BY <1>2, <1>3, <1>4, <1>5, <1>6, <1>7 DEF Step, Advance

\* A command that returns keeps Exact; only Report may say it succeeded.
LEMMA ReturnExact ==
    ASSUME TypeInv, Newest, NEW p \in Procs, Exact(p), NEW code, NEW file,
           Return(p, code, file), code \in Succeeded => pc[p] = "report",
           UNCHANGED <<commits, head, procVars>>
    PROVE  Exact(p)'
<1>1. /\ pc'[p] = "done" /\ exit'[p] = code
      /\ UNCHANGED <<cmd, base, planned, on, hooked, landed>>
  BY DEF Return, Goto, procVars, TypeInv, TypeOK
<1>2. Grows
  BY SameGrows
<1>3. LandedExact(p)'
  BY <1>1, <1>2, LandedKept DEF Exact
<1>4. InOrder(p)' /\ ReadsInOrder(p)' /\ IndexExact(p)'
  BY <1>1 DEF Exact, InOrder, ReadsInOrder, PlannedAfter, AnchorFiles, IndexExact, Early
<1>5. Checked(p)'
  BY <1>1 DEF Exact, Checked, ParentOf
<1>6. QED
  BY <1>3, <1>4, <1>5 DEF Exact

\* Replacing no entry changes nothing.
LEMMA PutNothing ==
    ASSUME NEW t, NEW src
    PROVE  Put(t, {}, src) = t
BY DEF Put

\* Before its commit lands, p keeps Exact if its index and its reads are right.
LEMMA EarlyExact ==
    ASSUME NEW p \in Procs, Exact(p), pc[p] \in Early,
           landed'[p] = landed[p], exit'[p] = exit[p], cmd'[p] = cmd[p],
           pc'[p] \in Early \cup {"rollback", "dead"},
           ReadsInOrder(p)', IndexExact(p)'
    PROVE  Exact(p)'
<1>1. landed'[p] = 0 /\ exit'[p] = "none"
  BY DEF Exact, InOrder, Early
<1>2. InOrder(p)'
  BY <1>1 DEF Exact, InOrder, Early
<1>3. LandedExact(p)' /\ Checked(p)'
  BY <1>1 DEF LandedExact, Checked, Early, Succeeded
<1>4. QED
  BY <1>2, <1>3 DEF Exact

\* Staging: the private index gains its targets one write at a time.
LEMMA StageExact ==
    ASSUME TypeInv, Newest, NEW p \in Procs, cmd[p].mode = "only", Exact(p),
           \/ NewOnlyIndex(p) \/ StageAdd(p) \/ StageFile(p)
    PROVE  Exact(p)'
<1> DEFINE T == TreeOf(base[p])
           A == AnchorFiles(cmd[p])
           S == PlannedTree(p) \cup cmd[p].anchors
<1>0. /\ pc \in [Procs -> Phases] /\ idx = [r \in Procs |-> idx[r]]
      /\ todo = [r \in Procs |-> todo[r]] /\ base = [r \in Procs |-> base[r]]
      /\ head \in Nat
  BY HeadParent DEF TypeInv, TypeOK
<1>1. CASE NewOnlyIndex(p)
  <2>1. /\ pc[p] = "base" /\ base'[p] = head /\ idx'[p] = TreeOf(head)
        /\ pc'[p] = IF HasTargets(cmd[p]) THEN "plan" ELSE "msg"
        /\ UNCHANGED <<commits, head, cmd, planned, hooked, landed, exit, on>>
    BY <1>0, <1>1 DEF NewOnlyIndex, OnlySeed, Goto, repoVars
  <2>2. ReadsInOrder(p)'
    <3>1. todo'[p] = AnchorFiles(cmd[p])
      BY <1>1, <2>1 DEF NewOnlyIndex, Exact, ReadsInOrder
    <3>2. PlannedAfter(p, AnchorFiles(cmd[p]) \ todo[p])'
      BY <2>1, <3>1 DEF PlannedAfter, AnchorFiles
    <3>3. ~HasTargets(cmd[p]) => AnchorFiles(cmd[p]) = {}
      BY DEF HasTargets, AnchorFiles
    <3>4. QED
      BY <1>0, <2>1, <3>1, <3>2, <3>3 DEF Exact, ReadsInOrder, PlannedAfter
  <2>3. TreeOf(base[p])' = TreeOf(head)
    BY <2>1 DEF TreeOf
  <2>4. ~HasTargets(cmd[p]) => StagedTree(p)' = TreeOf(head)
    <3>1. ~HasTargets(cmd[p]) => cmd'[p].paths = {} /\ AnchorFiles(cmd'[p]) = {}
      BY <2>1 DEF HasTargets, AnchorFiles
    <3>2. QED
      BY <2>3, <3>1, PutNothing DEF StagedTree, Put
  <2>5. IndexExact(p)'
    BY <2>1, <2>3, <2>4 DEF IndexExact
  <2>6. QED
    BY <2>1, <2>2, <2>5, EarlyExact DEF Early
<1>2. CASE StageAdd(p)
  <2>0. Entries(p) = idx[p]
    BY <1>2, EntriesType, SentinelAssumption DEF StageAdd, TypeInv, IndexFileExists, NoIndex
  <2>1. /\ pc[p] = "add" /\ idx'[p] = Put(idx[p], cmd[p].paths, Edits)
        /\ todo'[p] = A
        /\ pc'[p] = IF cmd[p].anchors = {} THEN "msg" ELSE "files"
        /\ UNCHANGED <<commits, head, cmd, base, planned, hooked, landed, exit, on>>
    BY <1>0, <1>2, <2>0 DEF StageAdd, Added, StageIn, Staged, Goto, procVars
  <2>2. ReadsInOrder(p)'
    BY <2>1 DEF Exact, ReadsInOrder, PlannedAfter, AnchorFiles
  <2>3. idx'[p] = Put(T, cmd[p].paths, Edits)
    BY <2>1 DEF Exact, IndexExact
  <2>4. cmd[p].anchors = {} => A = {}
    BY DEF AnchorFiles
  <2>5. /\ StagedTree(p)' = StagedTree(p)
        /\ TreeOf(base[p])' = T /\ PlannedTree(p)' = PlannedTree(p)
    BY <2>1 DEF StagedTree, PlannedTree, Put, TreeOf, AnchorFiles
  <2>6. CASE cmd[p].anchors = {}
    <3>1. idx'[p] = StagedTree(p)
      BY <2>3, <2>4, <2>6, PutNothing DEF StagedTree
    <3>2. IndexExact(p)'
      BY <2>1, <2>5, <2>6, <3>1 DEF IndexExact
    <3>3. QED
      BY <2>1, <2>2, <2>6, <3>2, EarlyExact DEF Early
  <2>7. CASE cmd[p].anchors # {}
    <3>1. idx'[p] = Put(Put(T, cmd[p].paths, Edits), A \ A, S)
      <4>1. A \ A = {}
        OBVIOUS
      <4>2. QED
        BY <2>3, <4>1, PutNothing
    <3>2. IndexExact(p)'
      BY <2>1, <2>5, <2>7, <3>1 DEF IndexExact, Put, AnchorFiles
    <3>3. QED
      BY <2>1, <2>2, <2>7, <3>2, EarlyExact DEF Early
  <2>8. QED
    BY <2>6, <2>7
<1>3. CASE StageFile(p)
  <2>0. Entries(p) = idx[p]
    BY <1>3, EntriesType, SentinelAssumption DEF StageFile, TypeInv, IndexFileExists, NoIndex
  <2>1. PICK q \in todo[p] :
          /\ pc[p] = "files" /\ idx'[p] = Put(idx[p], {q}, S)
          /\ todo'[p] = todo[p] \ {q}
          /\ pc'[p] = IF todo[p] = {q} THEN "msg" ELSE "files"
          /\ UNCHANGED <<commits, head, cmd, base, planned, hooked, landed, exit, on>>
    BY <1>0, <1>3, <2>0 DEF StageFile, StageIn, Staged, Goto, procVars
  <2>2. ReadsInOrder(p)'
    BY <2>1 DEF Exact, ReadsInOrder, PlannedAfter, AnchorFiles
  <2>3. /\ StagedTree(p)' = StagedTree(p)
        /\ TreeOf(base[p])' = T /\ PlannedTree(p)' = PlannedTree(p)
    BY <2>1 DEF StagedTree, PlannedTree, Put, TreeOf, AnchorFiles
  <2>4. /\ idx[p] = Put(Put(T, cmd[p].paths, Edits), A \ todo[p], S)
        /\ todo[p] \subseteq A
    BY <2>1 DEF Exact, IndexExact
  <2>5. idx'[p] = Put(Put(T, cmd[p].paths, Edits), A \ todo'[p], S)
    <3>1. (A \ todo[p]) \cup {q} = A \ todo'[p]
      BY <2>1, <2>4
    <3> DEFINE X == Put(T, cmd[p].paths, Edits)
    <3>2. idx'[p] = Put(Put(X, A \ todo[p], S), {q}, S)
      BY <2>1, <2>4
    <3> HIDE DEF A, S, X
    <3>3. QED
      BY <3>1, <3>2 DEF Put, X
  <2>6. todo[p] = {q} => idx'[p] = StagedTree(p)
    <3>1. todo[p] = {q} => A \ todo'[p] = A
      BY <2>1
    <3>2. QED
      BY <2>5, <3>1 DEF StagedTree
  <2>7. IndexExact(p)'
    <3>1. todo'[p] \subseteq A
      BY <2>1, <2>4
    <3>2. QED
      BY <2>1, <2>3, <2>5, <2>6, <3>1 DEF IndexExact, Put, AnchorFiles
  <2>8. QED
    BY <2>1, <2>2, <2>7, EarlyExact DEF Early
<1>4. QED
  BY <1>1, <1>2, <1>3

\* git's part: HEAD is read, the hook stages, the commit lands or fails.
LEMMA CommitExact ==
    ASSUME TypeInv, Newest, NEW p \in Procs, cmd[p].mode = "only", Exact(p),
           \/ GitStart(p) \/ Hook(p) \/ GitLands(p) \/ GitFails(p)
    PROVE  Exact(p)'
<1>0. /\ pc \in [Procs -> Phases] /\ idx = [r \in Procs |-> idx[r]]
      /\ hooked = [r \in Procs |-> hooked[r]] /\ on = [r \in Procs |-> on[r]]
      /\ landed = [r \in Procs |-> landed[r]]
      /\ head \in Nat
  BY HeadParent DEF TypeInv, TypeOK
<1>1. CASE GitStart(p)
  <2>1. /\ pc[p] = "git" /\ on'[p] = head /\ pc'[p] \in {"hook", "rollback", "dead"}
        /\ UNCHANGED <<commits, head, cmd, idx, base, planned, hooked, landed, exit>>
    BY <1>0, <1>1 DEF GitStart, AfterGit, Goto, repoVars
  <2>2. ReadsInOrder(p)'
    BY <1>0, <2>1 DEF Exact, ReadsInOrder, PlannedAfter, AnchorFiles
  <2>3. IndexExact(p)'
    BY <2>1 DEF Exact, IndexExact, StagedTree, PlannedTree, Put, TreeOf, AnchorFiles
  <2>4. QED
    BY <2>1, <2>2, <2>3, EarlyExact DEF Early
<1>2. CASE Hook(p)
  <2>1. PICK qs \in HookStages :
          /\ hooked'[p] = qs /\ idx'[p] = Put(idx[p], qs, Edits)
    BY <1>0, <1>2 DEF Hook
  <2>2. /\ pc[p] = "hook" /\ pc'[p] \in {"land", "rollback", "dead"}
        /\ UNCHANGED <<commits, head, cmd, base, planned, landed, exit, on>>
    BY <1>0, <1>2 DEF Hook, AfterGit, Goto
  <2>3. ReadsInOrder(p)'
    BY <2>2 DEF Exact, ReadsInOrder, PlannedAfter, AnchorFiles
  <2>4. IndexExact(p)'
    <3>1. idx[p] = StagedTree(p)
      BY <2>2 DEF Exact, IndexExact
    <3>2. StagedTree(p)' = StagedTree(p)
      BY <2>2 DEF StagedTree, PlannedTree, Put, TreeOf, AnchorFiles
    <3>3. HookedTree(p)' = Put(StagedTree(p), qs, Edits)
      BY <2>1, <3>2 DEF HookedTree, Put
    <3>4. QED
      BY <2>1, <2>2, <3>1, <3>3 DEF IndexExact
  <2>5. QED
    BY <2>2, <2>3, <2>4, EarlyExact DEF Early
<1>3. CASE GitLands(p)
  <2> DEFINE c == [tree |-> GitIndex(p), parent |-> NewParent(p)]
  <2>1. /\ head = on[p] /\ commits' = Append(commits, c) /\ head' = Len(commits) + 1
        /\ pc[p] = "land" /\ pc'[p] \in {"check", "rollback", "dead"}
        /\ landed'[p] = Len(commits) + 1
        /\ UNCHANGED <<cmd, idx, base, planned, hooked, on, exit>>
    BY <1>0, <1>3 DEF GitLands, CanLand, AfterGit, Goto
  <2>2. c.tree = idx[p] /\ c.parent = NewParent(p)
    BY DEF GitIndex
  <2>3. c.parent \in {head, ParentOf(head)}
    BY <2>1 DEF NewParent
  <2>4. GitIndex(p) \in SUBSET Edits
    BY <2>1 DEF GitIndex, TypeInv, TypeOK, IndexFileExists
  <2>5. c \in Commit
    BY <2>3, <2>4, HeadParent DEF Commit
  <2> HIDE DEF c
  <2>6. /\ Grows /\ head' = head + 1
        /\ TreeOf(head)' = c.tree /\ ParentOf(head)' = c.parent
    BY <2>1, <2>3, <2>5, AppendGrows
  <2>7. landed'[p] = head'
    BY <2>1
  <2>8. TreeOf(landed[p])' = idx[p] /\ ParentOf(landed[p])' = NewParent(p)
    BY <2>2, <2>6, <2>7 DEF TreeOf, ParentOf
  <2>9. InOrder(p)'
    BY <1>0, <2>1, <2>6, <2>7 DEF Exact, InOrder, Early
  <2>10. ReadsInOrder(p)'
    BY <2>1, <2>6 DEF Exact, ReadsInOrder, PlannedAfter, AnchorFiles, Grows
  <2>15. idx[p] = HookedTree(p) /\ HookedTree(p)' = HookedTree(p)
    BY <2>1, <2>6, TreesKept DEF Exact, IndexExact
  <2>11. IndexExact(p)'
    BY <2>1, <2>15 DEF IndexExact
  <2>12. LandedExact(p)'
    <3>1. AnchorFiles(cmd[p]) \subseteq Paths
      BY PathAssumption DEF AnchorFiles, TypeInv, TypeOK, Command
    <3>2. /\ base[p] <= on[p] /\ on[p] < landed'[p]
          /\ \A q \in AnchorFiles(cmd[p]) :
                base[p] <= planned[p][q] /\ planned[p][q] <= on[p]
      BY <1>0, <2>1, <2>6, <2>7, <3>1 DEF Exact, ReadsInOrder, PlannedAfter
    <3>3. ~cmd[p].amend => NewParent(p) = on[p]
      BY <2>1 DEF NewParent
    <3>4. ParentOf(head)' = ParentOf(landed[p])'
      BY <2>2, <2>6, <2>8
    <3>5. QED
      BY <2>1, <2>8, <2>15, <3>2, <3>3, <3>4 DEF LandedExact, AnchorFiles
  <2>13. Checked(p)'
    BY <2>1 DEF Exact, InOrder, Checked, Succeeded
  <2>14. QED
    BY <2>9, <2>10, <2>11, <2>12, <2>13 DEF Exact
<1>4. CASE GitFails(p)
  <2>1. /\ pc[p] = "land" /\ pc'[p] \in {"rollback", "dead"}
        /\ UNCHANGED <<commits, head, cmd, base, planned, landed, exit, on>>
    BY <1>0, <1>4 DEF GitFails, AfterGit, Goto, repoVars, procVars
  <2>2. ReadsInOrder(p)' /\ IndexExact(p)'
    BY <2>1 DEF Exact, ReadsInOrder, PlannedAfter, AnchorFiles, IndexExact
  <2>3. QED
    BY <2>1, <2>2, EarlyExact DEF Early
<1>5. QED
  BY <1>1, <1>2, <1>3, <1>4

\* The heart of the argument: HEAD^1 = base can only be p's own parent.
LEMMA CheckExact ==
    ASSUME TypeInv, Newest, NEW p \in Procs, cmd[p].mode = "only", Exact(p),
           CheckParent(p)
    PROVE  Exact(p)'
<1>0. pc \in [Procs -> Phases] /\ head \in Nat
  BY HeadParent DEF TypeInv, TypeOK
<1>1. CASE HeadMoved(p)
  BY <1>1, ReturnExact DEF CheckParent, Finish, repoVars, Succeeded
<1>2. CASE ~HeadMoved(p)
  <2>1. /\ pc[p] = "check" /\ pc'[p] = "sync"
        /\ UNCHANGED <<commits, head, cmd, base, planned, on, hooked, landed, exit>>
    BY <1>0, <1>2 DEF CheckParent, Goto, repoVars, procVars
  <2>2. landed[p] \in 1..head
    BY <2>1 DEF Exact, InOrder, Early, TypeInv, TypeOK, Newest
  <2>3. ASSUME ~cmd[p].amend, base[p] # 0
        PROVE  ParentOf(landed[p]) = base[p]
    <3>1. ParentOf(head) = base[p]
      BY <1>2, <2>3 DEF HeadMoved
    <3>2. base[p] <= on[p] /\ on[p] < landed[p] /\ on[p] \in Nat /\ base[p] \in Nat
      BY <2>2 DEF Exact, LandedExact, TypeInv, TypeOK
    <3>3. QED
      BY <2>2, <3>1, <3>2 DEF Exact, LandedExact
  <2>4. Checked(p)'
    BY <2>1, <2>2, <2>3 DEF Checked, ParentOf
  <2>5. LandedExact(p)'
    BY <2>1, SameGrows, LandedKept DEF Exact
  <2>6. InOrder(p)' /\ ReadsInOrder(p)'
    BY <2>1 DEF Exact, InOrder, ReadsInOrder, PlannedAfter, AnchorFiles, Early
  <2>8. IndexExact(p)'
    <3>1. idx[p] = HookedTree(p) /\ HookedTree(p)' = HookedTree(p)
      BY <2>1, SameGrows, TreesKept DEF Exact, IndexExact
    <3>2. idx' = idx
      BY <1>2 DEF CheckParent
    <3>3. QED
      BY <2>1, <3>1, <3>2 DEF IndexExact
  <2>7. QED
    BY <2>4, <2>5, <2>6, <2>8 DEF Exact
<1>3. QED
  BY <1>1, <1>2

\* A tree and the tree it was staged from differ in p's own paths only.
LEMMA SyncOwn ==
    ASSUME NEW p \in Procs, idx[p] = HookedTree(p)
    PROVE  SyncSet(p) \subseteq Own(p)
<1>1. \A q \in Paths \ Own(p) : At(idx[p], q) = At(TreeOf(base[p]), q)
  BY DEF HookedTree, StagedTree, Own, At, Put
<1>2. Differ(idx[p], TreeOf(base[p])) \subseteq Own(p)
  BY <1>1 DEF Differ
<1>3. QED
  BY <1>2 DEF SyncSet

\* After the check p only reads and writes the shared index.
LEMMA SyncExact ==
    ASSUME TypeInv, Newest, NEW p \in Procs, cmd[p].mode = "only", Exact(p),
           SyncRead(p) \/ SyncWrite(p)
    PROVE  Exact(p)'
<1>1. /\ pc[p] \in {"sync", "write"} /\ pc'[p] \in {"write", "report"}
      /\ UNCHANGED <<commits, head, cmd, base, planned, on, hooked, landed, exit>>
  BY DEF SyncRead, SyncWrite, Goto, repoVars, procVars, TypeInv, TypeOK
<1>2. LandedExact(p)'
  BY <1>1, SameGrows, LandedKept DEF Exact
<1>3. InOrder(p)' /\ ReadsInOrder(p)'
  BY <1>1 DEF Exact, InOrder, ReadsInOrder, PlannedAfter, AnchorFiles, Early
<1>4. Checked(p)'
  BY <1>1 DEF Exact, Checked, ParentOf
<1>5. idx'[p] = HookedTree(p) /\ HookedTree(p)' = HookedTree(p)
  BY <1>1, SameGrows, TreesKept DEF Exact, IndexExact, SyncRead, SyncWrite
<1>6. pc'[p] = "write" => todo'[p] \subseteq Own(p)
  <2>1. CASE SyncRead(p)
    <3>1. todo'[p] = SyncSet(p) /\ pc[p] = "sync"
      BY <2>1 DEF SyncRead, TypeInv, TypeOK
    <3>2. SyncSet(p) \subseteq Own(p)
      BY <3>1, SyncOwn DEF Exact, IndexExact
    <3>3. QED
      BY <3>1, <3>2
  <2>2. CASE SyncWrite(p)
    BY <2>2 DEF SyncWrite, Goto, TypeInv, TypeOK
  <2>3. QED
    BY <2>1, <2>2
<1>7. IndexExact(p)'
  BY <1>1, <1>5, <1>6 DEF IndexExact, Own, AnchorFiles
<1>8. QED
  BY <1>2, <1>3, <1>4, <1>7 DEF Exact

\* Before staging, and the exits on the way.
LEMMA PlanExact ==
    ASSUME TypeInv, Newest, NEW p \in Procs, cmd[p].mode = "only", Exact(p),
           \/ Start(p) \/ LockCommits(p) \/ PlanFile(p) \/ PlanTargets(p)
           \/ CommitOptions(p)
    PROVE  Exact(p)'
<1>0. /\ pc \in [Procs -> Phases] /\ planned = [r \in Procs |-> planned[r]]
      /\ todo = [r \in Procs |-> todo[r]] /\ head \in Nat
  BY HeadParent DEF TypeInv, TypeOK
<1>1. CASE Start(p)
  <2>1. CASE ~Valid(cmd[p])
    BY <1>1, <2>1, ReturnExact DEF Start, Finish, repoVars, Succeeded
  <2>2. CASE Valid(cmd[p])
    <3>1. /\ pc[p] = "start" /\ pc'[p] = "lock"
          /\ todo'[p] = AnchorFiles(cmd[p])
          /\ UNCHANGED <<commits, head, cmd, base, planned, landed, exit, on>>
      BY <1>0, <1>1, <2>2 DEF Start, Goto, repoVars, procVars
    <3>2. ~cmd[p].amend => HasTargets(cmd[p])
      BY <2>2 DEF Valid
    <3>3. ReadsInOrder(p)' /\ IndexExact(p)'
      BY <3>1 DEF Exact, ReadsInOrder, PlannedAfter, AnchorFiles, IndexExact
    <3>4. QED
      BY <3>1, <3>2, <3>3, EarlyExact DEF Early
  <2>3. QED
    BY <2>1, <2>2
<1>2. CASE LockCommits(p)
  <2>1. /\ pc[p] = "lock" /\ pc'[p] = "base"
        /\ UNCHANGED <<commits, head, cmd, base, planned, landed, exit, on,
                       todo>>
    BY <1>0, <1>2 DEF LockCommits, Goto, repoVars, procVars
  <2>2. ReadsInOrder(p)' /\ IndexExact(p)'
    BY <2>1 DEF Exact, ReadsInOrder, PlannedAfter, AnchorFiles, IndexExact
  <2>3. QED
    BY <2>1, <2>2, EarlyExact DEF Early
<1>3. CASE PlanTargets(p)
  <2>1. CASE Finish(p, "refused") \/ Finish(p, "nothing")
    BY <1>3, <2>1, ReturnExact DEF PlanTargets, Finish, repoVars, Succeeded
  <2>2. CASE /\ Goto(p, CASE cmd[p].mode = "only"  -> "add"
                          [] cmd[p].mode = "plain" -> "snap"
                          [] cmd[p].mode = "stage" -> "seed")
             /\ todo[p] = {}
             /\ UNCHANGED <<exit, idx, deferred, lock>>
    <3>1. /\ pc[p] = "plan" /\ pc'[p] = "add"
          /\ UNCHANGED <<commits, head, cmd, base, planned, landed, exit, on, idx>>
      BY <1>0, <1>3, <2>2 DEF PlanTargets, Goto, repoVars, procVars
    <3>2. ReadsInOrder(p)'
      <4>1. PlannedAfter(p, AnchorFiles(cmd[p]))
        BY <2>2, <3>1 DEF Exact, ReadsInOrder, PlannedAfter
      <4>2. QED
        BY <3>1, <4>1 DEF Exact, ReadsInOrder, PlannedAfter
    <3>3. IndexExact(p)'
      BY <3>1 DEF Exact, IndexExact, TreeOf
    <3>4. QED
      BY <3>1, <3>2, <3>3, EarlyExact DEF Early
  <2>3. QED
    BY <1>3, <2>1, <2>2 DEF PlanTargets
<1>4. CASE CommitOptions(p)
  <2>1. CASE Finish(p, "nomessage")
    BY <1>4, <2>1, ReturnExact DEF CommitOptions, Finish, repoVars, Succeeded
  <2>2. CASE Goto(p, "git") /\ UNCHANGED <<exit, idx, deferred, lock>>
    <3>1. /\ pc[p] = "msg" /\ pc'[p] = "git"
          /\ UNCHANGED <<commits, head, cmd, base, planned, hooked, landed, exit, on, idx>>
      BY <1>0, <1>4, <2>2 DEF CommitOptions, Goto, repoVars, procVars
    <3>2. ReadsInOrder(p)'
      BY <3>1 DEF Exact, ReadsInOrder, PlannedAfter, AnchorFiles
    <3>3. IndexExact(p)'
      BY <3>1 DEF Exact, IndexExact, StagedTree, PlannedTree, Put, TreeOf, AnchorFiles
    <3>4. QED
      BY <3>1, <3>2, <3>3, EarlyExact DEF Early
  <2>3. QED
    BY <1>4, <2>1, <2>2 DEF CommitOptions
<1>5. CASE PlanFile(p)
  <2>1. PICK q \in todo[p] :
            /\ planned' = [planned EXCEPT ![p][q] = head]
            /\ todo' = [todo EXCEPT ![p] = @ \ {q}]
    BY <1>5 DEF PlanFile
  <2>2. /\ pc[p] = "plan" /\ pc'[p] = "plan"
        /\ UNCHANGED <<commits, head, cmd, base, landed, exit, on, idx>>
    BY <1>5 DEF PlanFile, repoVars
  <2>3. \A r \in Paths : planned'[p][r] = IF r = q THEN head ELSE planned[p][r]
    BY <2>1 DEF TypeInv, TypeOK
  <2>4. todo'[p] = todo[p] \ {q}
    BY <2>1 DEF TypeInv, TypeOK
  <2>5. AnchorFiles(cmd[p]) \subseteq Paths
    BY PathAssumption DEF AnchorFiles, TypeInv, TypeOK, Command
  <2>6. ReadsInOrder(p)'
    <3>1. \A r \in AnchorFiles(cmd[p]) \ todo'[p] : base[p] <= planned'[p][r]
      BY <1>0, <2>2, <2>3, <2>4, <2>5 DEF Exact, ReadsInOrder, PlannedAfter
    <3>2. \A r \in Paths : planned'[p][r] \in 0..head
      BY <1>0, <2>3 DEF Exact, ReadsInOrder
    <3>3. QED
      BY <2>2, <3>1, <3>2 DEF Exact, ReadsInOrder, PlannedAfter
  <2>7. IndexExact(p)'
    BY <2>2 DEF Exact, IndexExact, TreeOf
  <2>8. QED
    BY <2>2, <2>6, <2>7, EarlyExact DEF Early
<1>6. QED
  BY <1>1, <1>2, <1>3, <1>4, <1>5

\* Every step of the process itself.
LEMMA StepExact ==
    ASSUME TypeInv, Newest, NEW p \in Procs, cmd[p].mode = "only", Exact(p), Step(p)
    PROVE  Exact(p)'
<1>1. CASE SnapshotIndex(p) \/ NewTempStaging(p) \/ Swap(p)
  BY <1>1 DEF SnapshotIndex, NewTempStaging, Swap, Exact, InOrder
<1>2. CASE StepFails(p) \/ SeedFails(p)
  BY <1>2, ReturnExact DEF StepFails, SeedFails, Finish, repoVars, Succeeded
<1>3. CASE Rollback(p)
  <2>1. \E code \in {"fatal", "unrestored"} : Finish(p, code)
    BY <1>3 DEF Rollback
  <2>2. UNCHANGED <<commits, head, procVars>>
    BY <1>3 DEF Rollback
  <2>3. QED
    BY <2>1, <2>2, ReturnExact DEF Finish, Succeeded
<1>4. CASE Report(p)
  <2>1. /\ \E code \in {"ok", "push"} : Finish(p, code)
        /\ pc[p] = "report" /\ UNCHANGED <<commits, head, procVars>>
    BY <1>4 DEF Report, repoVars
  <2>2. QED
    BY <2>1, ReturnExact DEF Finish
<1>5. QED
  BY <1>1, <1>2, <1>3, <1>4, PlanExact, StageExact, CommitExact, CheckExact, SyncExact
     DEF Step, Advance

-----------------------------------------------------------------------------
(* The invariant. *)

\* Nothing has been read, staged or committed at the start.
LEMMA InitExact == Init => ExactInv
<1> SUFFICES ASSUME Init PROVE ExactInv
    OBVIOUS
<1>1. Newest
  <2>1. CASE commits = << >>
    BY <2>1 DEF Init, Newest
  <2>2. ASSUME NEW t \in SUBSET Edits, commits = <<[tree |-> t, parent |-> 0]>>
        PROVE  Newest
    BY <2>2 DEF Init, Newest
  <2>3. QED
    BY <2>1, <2>2, InitAssumption DEF Init
<1>2. ASSUME NEW p \in Procs PROVE Exact(p)
  <2>1. head \in Nat
    BY InitType DEF TypeInv, TypeOK
  <2>2. QED
    BY <2>1 DEF Init, Exact, InOrder, ReadsInOrder, IndexExact, LandedExact,
       Checked, Early, Succeeded
<1>3. QED
  BY <1>1, <1>2 DEF ExactInv

\* Every step of the system: p's own, another process's, a crash, git's.
LEMMA NextExact ==
    ASSUME TypeInv, CleanInv, ExactInv, [Next]_vars
    PROVE  ExactInv'
<1>0. Newest
  BY DEF ExactInv
<1>1. ASSUME Grows, Newest', cmd' = cmd,
             NEW P \in SUBSET Procs,
             \A r \in P : cmd[r].mode = "only" => Exact(r)',
             \A r \in Procs \ P : Untouched(r) /\ pc'[r] = pc[r] /\ idx'[r] = idx[r]
      PROVE  ExactInv'
  <2>1. ASSUME NEW r \in Procs \ P, cmd[r].mode = "only"
        PROVE  Exact(r)'
    BY <1>0, <1>1, <2>1, OthersExact DEF ExactInv, Untouched
  <2>2. QED
    BY <1>1, <2>1 DEF ExactInv
<1>2. ASSUME NEW p \in Procs, Step(p) PROVE ExactInv'
  <2>1. Grows /\ Newest' /\ cmd' = cmd
    BY <1>0, <1>2, StepGrows, StepShape DEF CleanInv
  <2>2. cmd[p].mode = "only" => Exact(p)'
    BY <1>0, <1>2, StepExact DEF ExactInv
  <2>3. \A r \in Procs \ {p} : Untouched(r) /\ pc'[r] = pc[r] /\ idx'[r] = idx[r]
    BY <1>2, StepUntouched, StepShape DEF CleanInv
  <2>4. {p} \in SUBSET Procs
    OBVIOUS
  <2>5. QED
    BY <1>1, <2>1, <2>2, <2>3, <2>4
<1>3. ASSUME NEW p \in Procs, Crash(p) PROVE ExactInv'
  <2>1. /\ pc'[p] = pc[p] \/ pc'[p] = "dead"
        /\ \A r \in Procs \ {p} : pc'[r] = pc[r]
        /\ UNCHANGED <<commits, head, cmd, idx, base, planned, todo, on, hooked,
                       landed, exit>>
        /\ pc[p] # "done"
    BY <1>3 DEF Crash, Goto, repoVars, TypeInv, TypeOK
  <2>2. Grows /\ Newest'
    BY <1>0, <2>1, SameGrows
  <2>3. ASSUME cmd[p].mode = "only" PROVE Exact(p)'
    <3>1. Exact(p)
      BY <2>3 DEF ExactInv
    <3>2. CASE pc'[p] = pc[p]
      BY <1>0, <2>1, <2>2, <3>1, <3>2, OthersExact
    <3>3. CASE pc'[p] = "dead"
      <4>1. LandedExact(p)'
        BY <1>0, <2>1, <2>2, <3>1, LandedKept DEF Exact
      <4>2. InOrder(p)' /\ ReadsInOrder(p)' /\ IndexExact(p)'
        BY <2>1, <3>1, <3>3 DEF Exact, InOrder, ReadsInOrder, PlannedAfter, AnchorFiles, IndexExact, Early
      <4>3. Checked(p)'
        BY <2>1, <3>1, <3>3 DEF Exact, InOrder, Checked, Succeeded
      <4>4. QED
        BY <4>1, <4>2, <4>3 DEF Exact
    <3>4. QED
      BY <2>1, <3>2, <3>3
  <2>4. \A r \in Procs \ {p} : Untouched(r) /\ pc'[r] = pc[r] /\ idx'[r] = idx[r]
    BY <2>1 DEF Untouched
  <2>5. {p} \in SUBSET Procs
    OBVIOUS
  <2>6. QED
    BY <1>1, <2>1, <2>2, <2>3, <2>4, <2>5
<1>4. CASE ExternalAdd \/ ExternalCommit \/ UNCHANGED vars
  <2>1. UNCHANGED <<cmd, pc, idx, base, planned, todo, on, hooked, landed, exit>>
    BY <1>4 DEF ExternalAdd, ExternalCommit, vars
  <2>2. Grows /\ Newest'
    <3>1. CASE ExternalCommit
      <4>1. PICK q \in Paths :
                commits' = Append(commits, [tree |-> Put(TreeOf(head), {q}, Edits),
                                            parent |-> head])
        BY <3>1 DEF ExternalCommit
      <4>2. head' = Len(commits) + 1
        BY <3>1 DEF ExternalCommit
      <4>3. TreeOf(head) \in SUBSET Edits /\ head \in Nat
        BY <1>0, TreeType, HeadParent DEF TypeInv, TypeOK
      <4>4. [tree |-> Put(TreeOf(head), {q}, Edits), parent |-> head] \in Commit
        BY <4>3, PutType DEF Commit
      <4>5. QED
        BY <1>0, <4>1, <4>2, <4>4, AppendGrows
    <3>2. CASE UNCHANGED <<commits, head>>
      BY <1>0, <3>2, SameGrows
    <3>3. QED
      BY <1>4, <3>1, <3>2 DEF ExternalAdd, vars
  <2>3. \A r \in Procs \ {} : Untouched(r) /\ pc'[r] = pc[r] /\ idx'[r] = idx[r]
    BY <2>1 DEF Untouched
  <2>4. {} \in SUBSET Procs
    OBVIOUS
  <2>5. QED
    BY <1>1, <2>1, <2>2, <2>3, <2>4
<1>5. QED
  BY <1>2, <1>3, <1>4 DEF Next

\* The inductive invariant behind OnlySuccessIsExact.
THEOREM ExactInvariant == Spec => [](TypeInv /\ CleanInv /\ ExactInv)
<1>1. Init => TypeInv /\ CleanInv /\ ExactInv
  BY InitType, InitClean, InitExact
<1>2. TypeInv /\ CleanInv /\ ExactInv /\ [Next]_vars
        => (TypeInv /\ CleanInv /\ ExactInv)'
  BY NextType, NextClean, NextExact
<1>3. QED
  BY <1>1, <1>2, PTL DEF Spec

\* An --only commit that reports success contains its own targets and hook's
\* files on top of its parent and nothing else, whoever else commits, stages
\* or is killed meanwhile (CHANGELOG.md: "every commit lands with exactly its
\* own paths").
THEOREM SuccessExact == Spec => []OnlySuccessIsExact
<1>1. TypeInv /\ ExactInv => OnlySuccessIsExact
  <2> SUFFICES ASSUME TypeInv, ExactInv, NEW p \in Procs,
                      cmd[p].mode = "only", exit[p] \in Succeeded,
                      ~cmd[p].amend, base[p] # 0
               PROVE  /\ landed[p] # 0
                      /\ ParentOf(landed[p]) = base[p]
                      /\ commits[landed[p]].tree
                           = Effect(p, TreeOf(ParentOf(landed[p])))
      BY DEF OnlySuccessIsExact
  <2>1. Exact(p)
    BY DEF ExactInv
  <2>2. landed[p] # 0 /\ ParentOf(landed[p]) = base[p]
    BY <2>1 DEF Exact, Checked
  <2>3. \A q \in AnchorFiles(cmd[p]) : planned[p][q] = base[p]
    <3>1. /\ base[p] \in Nat /\ on[p] = base[p]
          /\ \A q \in AnchorFiles(cmd[p]) : planned[p][q] \in Nat
      BY <2>1, <2>2, PathAssumption
         DEF Exact, LandedExact, AnchorFiles, TypeInv, TypeOK, Command
    <3>2. \A q \in AnchorFiles(cmd[p]) : base[p] <= planned[p][q] /\ planned[p][q] <= base[p]
      BY <2>1, <2>2, <3>1 DEF Exact, LandedExact
    <3>3. QED
      BY <3>1, <3>2
  <2>4. commits[landed[p]].tree = HookedTree(p)
    BY <2>1, <2>2 DEF Exact, LandedExact, TreeOf
  <2>5. HookedTree(p) = Effect(p, TreeOf(base[p]))
    <3>1. TreeOf(base[p]) \in SUBSET Edits
      BY TreeType DEF ExactInv, Exact, ReadsInOrder, TypeInv, TypeOK, Newest
    <3>2. PlannedTree(p) = {e \in TreeOf(base[p]) : PathOf[e] \in AnchorFiles(cmd[p])}
      BY <2>3, <3>1 DEF PlannedTree
    <3>3. QED
      BY <3>2 DEF HookedTree, StagedTree, Effect, Put
  <2>6. QED
    BY <2>2, <2>4, <2>5
<1>2. QED
  BY <1>1, ExactInvariant, PTL

\* An --only command takes no snapshot, so its rollback restores nothing.
NoSnapshot == \A p \in Procs : cmd[p].mode = "only" => snap[p] = NoIndex

\* An --only process never takes a snapshot, so its rollback restores none.
LEMMA NextNoSnapshot ==
    ASSUME TypeInv, ExactInv, NoSnapshot, [Next]_vars
    PROVE  NoSnapshot'
<1>1. ASSUME NEW p \in Procs, Step(p) PROVE NoSnapshot'
  <2>1. CASE SnapshotIndex(p)
    <3>1. cmd[p].mode # "only"
      BY <2>1 DEF SnapshotIndex, ExactInv, Exact, InOrder
    <3>2. cmd' = cmd /\ \A r \in Procs \ {p} : snap'[r] = snap[r]
      BY <2>1 DEF SnapshotIndex, TypeInv, TypeOK
    <3>3. QED
      BY <3>1, <3>2 DEF NoSnapshot
  <2>2. CASE UNCHANGED <<cmd, snap>>
    BY <2>2 DEF NoSnapshot
  <2>3. QED
    BY <1>1, <2>1, <2>2 DEF Step, Advance, Start, LockCommits, NewOnlyIndex, PlanFile,
       PlanTargets, NewTempStaging, StageAdd, StageFile, Swap, StepFails, SeedFails, CommitOptions,
       GitStart, Hook, GitLands, GitFails, Rollback, CheckParent, SyncRead,
       SyncWrite, Report, procVars
<1>2. CASE UNCHANGED <<cmd, snap>>
  BY <1>2 DEF NoSnapshot
<1>3. QED
  BY <1>1, <1>2 DEF Next, Crash, ExternalAdd, ExternalCommit, vars

\* An --only command's step changes the shared index in its own paths only, and
\* other staged work stays staged (CHANGELOG.md, on concurrent --only commits),
\* for any number of processes.
THEOREM KeepsOthersStaged == Spec => OnlyKeepsOthersStaged
<1>1. ASSUME TypeInv, CleanInv, ExactInv, NoSnapshot, [Next]_vars, NEW p \in Procs,
             cmd[p].mode = "only", pc'[p] # pc[p], NEW q \in Paths,
             At(index', q) # At(index, q)
      PROVE  q \in cmd[p].paths \cup AnchorFiles(cmd[p]) \cup hooked[p]
  <2>1. Step(p)
    <3>1. index' # index
      BY <1>1
    <3>2. ASSUME NEW r \in Procs \ {p} PROVE ~Step(r)
      BY <1>1, <3>2, StepShape DEF CleanInv
    <3>3. \A r \in Procs : ~Crash(r)
      BY <3>1 DEF Crash, repoVars
    <3>4. ~ExternalAdd /\ ~ExternalCommit
      BY <1>1 DEF ExternalAdd, ExternalCommit
    <3>5. QED
      BY <1>1, <3>1, <3>2, <3>3, <3>4 DEF Next, vars
  <2>2. Exact(p)
    BY <1>1 DEF ExactInv
  <2>3. CASE SyncWrite(p)
    <3>1. todo[p] \subseteq Own(p)
      BY <2>2, <2>3 DEF SyncWrite, Exact, IndexExact
    <3>2. q \in todo[p]
      BY <1>1, <2>3 DEF SyncWrite, Put, At
    <3>3. QED
      BY <3>1, <3>2 DEF Own
  <2>4. CASE Rollback(p)
    BY <1>1, <2>4 DEF Rollback, Restored, NoSnapshot
  <2>5. QED
    BY <1>1, <2>1, <2>2, <2>3, <2>4 DEF Step, Advance, Start, LockCommits, NewOnlyIndex,
       PlanFile, PlanTargets, SnapshotIndex, NewTempStaging, StageAdd, StageFile, StageIn, Swap,
       StepFails, SeedFails, CommitOptions, GitStart, Hook, GitLands, GitFails, CheckParent,
       SyncRead, Report, repoVars, Exact, InOrder
<1>2. TypeInv /\ CleanInv /\ ExactInv /\ NoSnapshot /\ [Next]_vars
        => [\A p \in Procs :
              cmd[p].mode = "only" /\ pc'[p] # pc[p]
              => \A q \in Paths : At(index', q) # At(index, q)
                   => q \in cmd[p].paths \cup AnchorFiles(cmd[p]) \cup hooked[p]]_vars
  BY <1>1
<1>3. Init => NoSnapshot
  BY DEF Init, NoSnapshot
<1>4. TypeInv /\ ExactInv /\ NoSnapshot /\ [Next]_vars => NoSnapshot'
  BY NextNoSnapshot
<1>5. QED
  BY <1>2, <1>3, <1>4, ExactInvariant, PTL DEF Spec, OnlyKeepsOthersStaged

-----------------------------------------------------------------------------
(* A plain or --stage-only command alone in its checkout. *)

\* One rgit process, not --only, and no git outside it.  It may be killed.
Solo ==
    /\ \E p \in Procs : Procs = {p}
    /\ \A c \in Commands : c.mode # "only"
    /\ MaxExternal = 0

\* The index found with the path targets staged, with every target staged,
\* and with what the hook staged on top
WithPaths(p) == Put(InitIndex, cmd[p].paths, Edits)
All(p)       == Put(WithPaths(p), AnchorFiles(cmd[p]), PlannedTree(p) \cup cmd[p].anchors)
HookedAll(p) == Put(All(p), hooked[p], Edits)

Shown(p) == {InitIndex, Put(InitIndex, hooked[p], Edits), All(p), HookedAll(p)}

Staging    == {"start", "plan", "snap", "seed", "add", "files", "swap"}
Committing == {"msg", "git", "hook"}
Failed     == {"usage", "nothing", "refused", "fatal"}

\* What p may be doing, by its command
SoloPhase(p) ==
    /\ cmd[p] \in Commands
    /\ pc[p] \in {"plan", "snap", "seed", "add", "files", "swap"} => HasTargets(cmd[p])
    /\ pc[p] = "snap" => cmd[p].mode = "plain"
    /\ pc[p] \in Committing \cup {"land", "rollback", "report"} => cmd[p].mode = "plain"
    /\ pc[p] # "done" => exit[p] = "none"

\* The shared index, in each phase
SoloShared(p) ==
    /\ index \in Shown(p)
    /\ pc[p] \in Staging => index = InitIndex
    /\ pc[p] \in Committing => index = All(p)
    /\ pc[p] = "land" => index = HookedAll(p)
    /\ pc[p] \in Staging \cup Committing => hooked[p] = {}
    /\ pc[p] = "report" => landed[p] # 0
    /\ exit[p] \in Failed /\ HasTargets(cmd[p]) /\ landed[p] = 0 => index = InitIndex

\* The temp index and the snapshot, in each phase
SoloOwn(p) ==
    /\ pc[p] = "add" => Entries(p) = InitIndex
    /\ pc[p] = "files" =>
          /\ todo[p] \subseteq AnchorFiles(cmd[p])
          /\ Entries(p) = Put(WithPaths(p), AnchorFiles(cmd[p]) \ todo[p],
                              PlannedTree(p) \cup cmd[p].anchors)
    /\ pc[p] = "swap" => Entries(p) = All(p)
    /\ pc[p] \in {"add", "files", "swap"} /\ idx[p] = NoIndex => InitIndex = {}
    /\ snap[p] \in {NoIndex, InitIndex}
    /\ cmd[p].mode = "plain" /\ HasTargets(cmd[p])
       /\ pc[p] \notin {"start", "plan", "snap", "done", "dead"} => snap[p] = InitIndex

SoloInv(p) == SoloPhase(p) /\ SoloShared(p) /\ SoloOwn(p)

\* What p has read of HEAD stays readable while nobody rewrites commits.
LEMMA AllKept ==
    ASSUME TypeInv, Newest, Grows, NEW p \in Procs, cmd'[p] = cmd[p], planned'[p] = planned[p]
    PROVE  /\ PlannedTree(p)' = PlannedTree(p) /\ All(p)' = All(p)
           /\ WithPaths(p)' = WithPaths(p)
           /\ hooked'[p] = hooked[p] => Shown(p)' = Shown(p) /\ HookedAll(p)' = HookedAll(p)
<1>1. \A q \in Paths : planned[p][q] \in 0..head
  BY DEF TypeInv, TypeOK, Newest
<1>2. \A q \in Paths : TreeOf(planned[p][q])' = TreeOf(planned[p][q])
  BY <1>1 DEF Grows
<1>3. PlannedTree(p)' = PlannedTree(p)
  BY <1>2, PathAssumption DEF PlannedTree, AnchorFiles
<1>4. WithPaths(p)' = WithPaths(p)
  BY DEF WithPaths, Put
<1>5. All(p)' = All(p)
  BY <1>3, <1>4 DEF All, Put, AnchorFiles
<1>6. QED
  BY <1>3, <1>4, <1>5 DEF Shown, HookedAll, Put

\* A command without targets stages nothing.
LEMMA NoTargets ==
    ASSUME NEW p \in Procs, ~HasTargets(cmd[p])
    PROVE  All(p) = InitIndex
BY InitAssumption DEF HasTargets, All, WithPaths, Put, AnchorFiles

\* The command returns.
LEMMA ReturnSolo ==
    ASSUME TypeInv, Newest, NEW p \in Procs, SoloInv(p), Step(p), NEW code, NEW file,
           Return(p, code, file), UNCHANGED <<commits, head, procVars>>,
           index' \in Shown(p),
           code \in Failed /\ HasTargets(cmd[p]) /\ landed[p] = 0 => index' = InitIndex
    PROVE  SoloInv(p)'
<1>1. /\ pc'[p] = "done" /\ exit'[p] = code
      /\ UNCHANGED <<cmd, planned, snap, hooked, landed>>
  BY DEF Return, Goto, procVars, TypeInv, TypeOK
<1>2. Shown(p)' = Shown(p)
  BY <1>1, StepGrows, AllKept
<1>3. SoloPhase(p)'
  BY <1>1 DEF SoloInv, SoloPhase, Committing
<1>4. SoloShared(p)'
  BY <1>1, <1>2 DEF SoloShared, Staging, Committing, HasTargets
<1>5. SoloOwn(p)'
  BY <1>1 DEF SoloInv, SoloOwn
<1>6. QED
  BY <1>3, <1>4, <1>5 DEF SoloInv

\* The steps before anything is staged.
LEMMA PlanSolo ==
    ASSUME Solo, TypeInv, Newest, NEW p \in Procs, SoloInv(p), Step(p),
           \/ Start(p) \/ PlanFile(p) \/ PlanTargets(p) \/ SnapshotIndex(p)
           \/ NewTempStaging(p)
    PROVE  SoloInv(p)'
<1>0. /\ pc \in [Procs -> Phases] /\ cmd[p].mode \in {"plain", "stage"}
      /\ cmd[p] \in Commands /\ snap = [r \in Procs |-> snap[r]]
      /\ idx = [r \in Procs |-> idx[r]] /\ todo = [r \in Procs |-> todo[r]]
  BY DEF Solo, SoloInv, SoloPhase, TypeInv, TypeOK, Command
<1>1. CASE Start(p)
  <2>0. index = InitIndex /\ hooked[p] = {} /\ index \in Shown(p)
    BY <1>1 DEF Start, SoloInv, SoloShared, Staging
  <2>1. CASE ~Valid(cmd[p])
    BY <1>1, <2>0, <2>1, ReturnSolo DEF Finish, Start, repoVars
  <2>2. CASE Valid(cmd[p])
    <3>1. /\ pc[p] = "start" /\ UNCHANGED <<commits, index, cmd, procVars, exit>>
          /\ pc'[p] = IF HasTargets(cmd[p]) THEN "plan" ELSE "msg"
      BY <1>0, <1>1, <2>2 DEF Start, Goto, repoVars, procVars
    <3>2. ~HasTargets(cmd[p]) => cmd[p].mode = "plain"
      BY <1>0, <2>2 DEF Valid
    <3>3. SoloPhase(p)'
      BY <1>0, <3>1, <3>2 DEF SoloInv, SoloPhase, HasTargets, Committing
    <3>4. ~HasTargets(cmd[p]) => index = All(p) /\ hooked[p] = {}
      BY <2>0, NoTargets
    <3>5. All(p)' = All(p) /\ Shown(p)' = Shown(p)
      BY <3>1, StepGrows, AllKept DEF procVars
    <3>6. SoloShared(p)'
      BY <2>0, <3>1, <3>4, <3>5 DEF SoloInv, SoloShared, Staging, Committing, procVars, HasTargets
    <3>7. SoloOwn(p)'
      BY <3>1 DEF SoloInv, SoloOwn, procVars, HasTargets
    <3>8. QED
      BY <3>3, <3>6, <3>7 DEF SoloInv
  <2>3. QED
    BY <2>1, <2>2
<1>2. CASE PlanFile(p)
  <2>1. /\ pc[p] = "plan" /\ index = InitIndex
        /\ UNCHANGED <<index, pc, cmd, exit, landed, snap, hooked>>
    BY <1>2 DEF PlanFile, SoloInv, SoloShared, Staging, repoVars
  <2>2. SoloPhase(p)'
    BY <2>1 DEF SoloInv, SoloPhase, HasTargets
  <2>3. SoloShared(p)'
    BY <2>1 DEF SoloInv, SoloShared, Shown, Staging, Committing
  <2>4. SoloOwn(p)'
    BY <2>1 DEF SoloInv, SoloOwn
  <2>5. QED
    BY <2>2, <2>3, <2>4 DEF SoloInv
<1>3. CASE PlanTargets(p)
  <2>0. /\ index = InitIndex /\ hooked[p] = {} /\ index \in Shown(p) /\ pc[p] = "plan"
        /\ UNCHANGED <<index, commits, head, procVars>> /\ HasTargets(cmd[p])
    BY <1>3 DEF PlanTargets, SoloInv, SoloShared, SoloPhase, Staging, repoVars
  <2>1. CASE Finish(p, "refused") \/ Finish(p, "nothing")
    BY <2>0, <2>1, ReturnSolo DEF Finish
  <2>2. CASE /\ Goto(p, CASE cmd[p].mode = "only"  -> "add"
                          [] cmd[p].mode = "plain" -> "snap"
                          [] cmd[p].mode = "stage" -> "seed")
             /\ UNCHANGED <<exit, idx, deferred, lock>>
    <3>1. pc'[p] = IF cmd[p].mode = "plain" THEN "snap" ELSE "seed"
      BY <1>0, <2>2 DEF Goto
    <3>2. SoloPhase(p)'
      BY <2>0, <2>2, <3>1 DEF SoloInv, SoloPhase, HasTargets, Committing, procVars
    <3>3. SoloShared(p)'
      BY <2>0, <2>2, <3>1 DEF SoloInv, SoloShared, Shown, Staging, Committing, procVars, HasTargets
    <3>4. SoloOwn(p)'
      BY <2>0, <2>2, <3>1 DEF SoloInv, SoloOwn, procVars
    <3>5. QED
      BY <3>2, <3>3, <3>4 DEF SoloInv
  <2>3. QED
    BY <1>3, <2>1, <2>2 DEF PlanTargets
<1>4. CASE SnapshotIndex(p)
  <2>1. /\ index = InitIndex /\ pc[p] = "snap" /\ pc'[p] = "seed" /\ snap'[p] = InitIndex
        /\ UNCHANGED <<index, cmd, exit, landed, hooked>>
    BY <1>0, <1>4 DEF SnapshotIndex, SoloInv, SoloShared, Staging, Goto, repoVars
  <2>2. SoloPhase(p)'
    BY <2>1 DEF SoloInv, SoloPhase, HasTargets, Committing
  <2>3. SoloShared(p)'
    BY <2>1 DEF SoloInv, SoloShared, Shown, Staging, Committing
  <2>4. SoloOwn(p)'
    BY <2>1 DEF SoloInv, SoloOwn
  <2>5. QED
    BY <2>2, <2>3, <2>4 DEF SoloInv
<1>5. CASE NewTempStaging(p)
  <2>1. /\ index = InitIndex /\ pc[p] = "seed" /\ pc'[p] = "add"
        /\ idx'[p] = InitIndex \/ (InitIndex = {} /\ idx'[p] = NoIndex)
        /\ UNCHANGED <<index, cmd, exit, landed, hooked, snap>>
    BY <1>0, <1>5 DEF NewTempStaging, TempSeeds, SoloInv, SoloShared, Staging, Goto, repoVars, procVars
  <2>2. SoloPhase(p)'
    BY <2>1 DEF SoloInv, SoloPhase, HasTargets, Committing
  <2>3. SoloShared(p)'
    BY <2>1 DEF SoloInv, SoloShared, Shown, Staging, Committing
  <2>4. SoloOwn(p)'
    <3>1. Entries(p)' = InitIndex
      BY <2>1, InitAssumption, SentinelAssumption DEF Entries, NoIndex
    <3>2. idx'[p] = NoIndex => InitIndex = {}
      BY <2>1, InitAssumption, SentinelAssumption DEF NoIndex
    <3>3. QED
      BY <2>1, <3>1, <3>2 DEF SoloInv, SoloOwn
  <2>5. QED
    BY <2>2, <2>3, <2>4 DEF SoloInv
<1>6. QED
  BY <1>1, <1>2, <1>3, <1>4, <1>5

\* What an index file holds once a tree has been written to it.
LEMMA Written ==
    ASSUME NEW p \in Procs, NEW t \in SUBSET Edits, idx'[p] = t
    PROVE  Entries(p)' = t /\ idx'[p] # NoIndex
BY SentinelAssumption DEF Entries, NoIndex

\* The steps that stage into the temp index, and the swap.
LEMMA StageSolo ==
    ASSUME Solo, TypeInv, Newest, NEW p \in Procs, SoloInv(p), Step(p),
           StageAdd(p) \/ StageFile(p) \/ Swap(p)
    PROVE  SoloInv(p)'
<1>0. /\ pc \in [Procs -> Phases] /\ cmd[p].mode \in {"plain", "stage"}
      /\ cmd[p] \in Commands
      /\ idx = [r \in Procs |-> idx[r]] /\ todo = [r \in Procs |-> todo[r]]
      /\ index = InitIndex /\ hooked[p] = {} /\ pc[p] \in {"add", "files", "swap"}
  BY DEF Solo, SoloInv, SoloPhase, SoloShared, Staging, TypeInv, TypeOK, Command,
     StageAdd, StageFile, Swap
<1>1. /\ PlannedTree(p)' = PlannedTree(p) /\ All(p)' = All(p)
      /\ WithPaths(p)' = WithPaths(p) /\ Shown(p)' = Shown(p)
      /\ UNCHANGED <<cmd, exit, landed, hooked, snap>> \/ Swap(p)
      /\ UNCHANGED <<cmd, landed, hooked, snap>>
  BY StepGrows, AllKept DEF StageAdd, StageFile, Swap, procVars
<1>2. ASSUME index' = index, exit' = exit, pc'[p] \in {"files", "swap"}, SoloOwn(p)'
      PROVE  SoloInv(p)'
  <2>1. SoloPhase(p)'
    BY <1>0, <1>1, <1>2 DEF SoloInv, SoloPhase, HasTargets, Committing
  <2>2. SoloShared(p)'
    BY <1>0, <1>1, <1>2 DEF SoloInv, SoloShared, Staging, Committing, HasTargets
  <2>3. QED
    BY <1>2, <2>1, <2>2 DEF SoloInv
<1>3. CASE StageAdd(p)
  <2>0. /\ idx'[p] = Added(p) /\ todo'[p] = AnchorFiles(cmd[p]) /\ index' = index
        /\ pc'[p] = IF cmd[p].anchors = {} THEN "swap" ELSE "files"
        /\ UNCHANGED exit /\ pc[p] = "add"
    BY <1>0, <1>3 DEF StageAdd, StageIn, Staged, Goto
  <2>1. /\ Entries(p)' = WithPaths(p) /\ (idx'[p] = NoIndex => InitIndex = {})
        /\ todo'[p] = AnchorFiles(cmd[p]) /\ index' = index
        /\ pc'[p] = IF cmd[p].anchors = {} THEN "swap" ELSE "files"
        /\ UNCHANGED exit /\ pc[p] = "add"
    <3>1. /\ Entries(p) = InitIndex
          /\ idx[p] = NoIndex => InitIndex = {}
      BY <2>0 DEF SoloInv, SoloOwn
    <3>2. WithPaths(p) \in SUBSET Edits
      BY InitAssumption, PutType DEF WithPaths
    <3>3. CASE idx'[p] = WithPaths(p)
      BY <2>0, <3>2, <3>3, Written
    <3>4. CASE idx'[p] = idx[p] /\ WithPaths(p) = Entries(p)
      BY <2>0, <3>1, <3>4 DEF Entries
    <3>5. QED
      BY <2>0, <3>1, <3>3, <3>4 DEF Added, WithPaths
  <2>2. cmd[p].anchors = {} => WithPaths(p) = All(p)
    BY DEF All, Put, AnchorFiles
  <2>3. Put(WithPaths(p), AnchorFiles(cmd[p]) \ todo'[p], PlannedTree(p) \cup cmd[p].anchors)
          = WithPaths(p)
    BY <2>1 DEF Put
  <2>4. SoloOwn(p)'
    <3>1. pc'[p] = "files" =>
            /\ todo'[p] \subseteq AnchorFiles(cmd'[p])
            /\ Entries(p)' = Put(WithPaths(p), AnchorFiles(cmd[p]) \ todo[p],
                                 PlannedTree(p) \cup cmd[p].anchors)'
      BY <1>1, <2>1, <2>3 DEF Put, AnchorFiles
    <3>2. QED
      BY <1>1, <2>1, <2>2, <3>1 DEF SoloInv, SoloOwn
  <2>5. QED
    BY <1>2, <2>1, <2>4
<1>4. CASE StageFile(p)
  <2>1. PICK q \in todo[p] :
            /\ StageIn(p, Put(Entries(p), {q}, PlannedTree(p) \cup cmd[p].anchors))
            /\ todo' = [todo EXCEPT ![p] = @ \ {q}]
            /\ Goto(p, IF todo[p] = {q} THEN Staged(p) ELSE "files")
    BY <1>4 DEF StageFile
  <2> DEFINE src == PlannedTree(p) \cup cmd[p].anchors
             was == AnchorFiles(cmd[p]) \ todo[p]
             now == AnchorFiles(cmd[p]) \ (todo[p] \ {q})
  <2>2. /\ todo[p] \subseteq AnchorFiles(cmd[p]) /\ Entries(p) = Put(WithPaths(p), was, src)
        /\ todo'[p] = todo[p] \ {q} /\ idx'[p] = Put(Entries(p), {q}, src) /\ index' = index
        /\ pc'[p] = IF todo[p] = {q} THEN "swap" ELSE "files"
        /\ UNCHANGED exit /\ pc[p] = "files"
    BY <1>0, <1>4, <2>1 DEF StageFile, StageIn, Staged, Goto, SoloInv, SoloOwn
  <2>3. idx'[p] = Put(WithPaths(p), now, src)
    <3>1. now = was \cup {q}
      BY <2>1, <2>2
    <3> HIDE DEF now, was, src
    <3>2. Put(Put(WithPaths(p), was, src), {q}, src) = Put(WithPaths(p), was \cup {q}, src)
      BY DEF Put
    <3>3. QED
      BY <2>2, <3>1, <3>2
  <2>a. Entries(p)' = idx'[p] /\ idx'[p] # NoIndex
    <3>1. src \in SUBSET Edits
      BY <1>0, PlannedType, CommandAssumption DEF Command
    <3>2. Put(Entries(p), {q}, src) \in SUBSET Edits
      BY <3>1, EntriesType, PutType DEF TypeInv
    <3>3. QED
      BY <2>2, <3>2, Written
  <2>4. todo[p] = {q} => Entries(p)' = All(p)
    BY <2>3, <2>a DEF All
  <2>5. SoloOwn(p)'
    <3>1. /\ todo'[p] \subseteq AnchorFiles(cmd'[p])
          /\ Entries(p)' = Put(WithPaths(p), AnchorFiles(cmd[p]) \ todo[p],
                               PlannedTree(p) \cup cmd[p].anchors)'
      BY <1>1, <2>2, <2>3, <2>a DEF Put, AnchorFiles
    <3>2. QED
      BY <1>1, <2>2, <2>4, <2>a, <3>1 DEF SoloInv, SoloOwn
  <2>6. QED
    BY <1>2, <2>2, <2>5
<1>5. CASE Swap(p)
  <2>1. index' = All(p) /\ All(p) \in Shown(p) /\ pc[p] = "swap"
    <3>1. /\ pc[p] = "swap" /\ Entries(p) = All(p) /\ index = InitIndex
          /\ idx[p] = NoIndex => InitIndex = {}
      BY <1>0, <1>5 DEF Swap, SoloInv, SoloOwn
    <3>2. index' = All(p)
      BY <1>5, <3>1, EntriesType DEF Swap, Swapped, TypeInv
    <3>3. QED
      BY <3>1, <3>2 DEF Shown
  <2>2. CASE cmd[p].mode = "stage"
    BY <1>5, <2>1, <2>2, ReturnSolo DEF Finish, Swap, Failed
  <2>3. CASE cmd[p].mode = "plain"
    <3>1. pc'[p] = "msg" /\ UNCHANGED exit
      BY <1>0, <1>5, <2>3 DEF Swap, Goto
    <3>2. SoloPhase(p)'
      BY <1>0, <1>1, <2>1, <2>3, <3>1 DEF SoloInv, SoloPhase, HasTargets, Committing
    <3>3. SoloShared(p)'
      BY <1>0, <1>1, <2>1, <3>1 DEF SoloInv, SoloPhase, SoloShared, Staging, Committing, Failed
    <3>4. SoloOwn(p)'
      BY <1>1, <2>1, <3>1 DEF SoloInv, SoloOwn, HasTargets
    <3>5. QED
      BY <3>2, <3>3, <3>4 DEF SoloInv
  <2>4. QED
    BY <1>0, <2>2, <2>3
<1>6. QED
  BY <1>3, <1>4, <1>5

\* git commit, its hook, the rollback and the report.
LEMMA CommitSolo ==
    ASSUME Solo, TypeInv, Newest, NEW p \in Procs, SoloInv(p), Step(p),
           \/ CommitOptions(p) \/ GitStart(p) \/ Hook(p) \/ GitLands(p) \/ GitFails(p)
           \/ Rollback(p) \/ Report(p)
    PROVE  SoloInv(p)'
<1>0. /\ pc \in [Procs -> Phases] /\ cmd[p].mode = "plain" /\ cmd[p] \in Commands
      /\ index \in Shown(p) /\ exit[p] = "none"
      /\ hooked = [r \in Procs |-> hooked[r]] /\ landed = [r \in Procs |-> landed[r]]
  BY DEF SoloInv, SoloPhase, SoloShared, Committing, TypeInv, TypeOK,
     CommitOptions, GitStart, Hook, GitLands, GitFails, Rollback, Report
<1>1. /\ All(p)' = All(p) /\ UNCHANGED <<cmd, snap>>
      /\ hooked'[p] = hooked[p] => Shown(p)' = Shown(p) /\ HookedAll(p)' = HookedAll(p)
  BY StepGrows, AllKept DEF CommitOptions, GitStart, Hook, GitLands, GitFails,
     Rollback, Report, procVars
\* A phase after the swap, with the shared index as SoloShared has it there
<1>2. ASSUME pc'[p] \in Committing \cup {"land", "rollback", "report", "dead"},
             exit' = exit, SoloShared(p)', pc[p] \in Committing \cup {"land"}
      PROVE  SoloInv(p)'
  <2>1. SoloPhase(p)'
    BY <1>0, <1>1, <1>2 DEF SoloPhase, Committing
  <2>2. SoloOwn(p)'
    BY <1>1, <1>2 DEF SoloInv, SoloOwn, Committing, HasTargets
  <2>3. QED
    BY <1>2, <2>1, <2>2 DEF SoloInv
<1>3. CASE CommitOptions(p)
  <2>1. CASE Finish(p, "nomessage")
    BY <1>0, <1>3, <2>1, ReturnSolo DEF Finish, CommitOptions, repoVars, Failed
  <2>2. CASE Goto(p, "git") /\ UNCHANGED <<exit, idx, deferred, lock>>
    <3>1. /\ pc[p] = "msg" /\ pc'[p] = "git" /\ UNCHANGED <<index, hooked, landed, exit>>
      BY <1>0, <1>3, <2>2 DEF CommitOptions, Goto, repoVars, procVars
    <3>2. SoloShared(p)'
      BY <1>0, <1>1, <3>1 DEF SoloInv, SoloShared, Staging, Committing, Failed
    <3>3. QED
      BY <1>2, <3>1, <3>2 DEF Committing
  <2>3. QED
    BY <1>3, <2>1, <2>2 DEF CommitOptions
<1>4. CASE GitStart(p)
  <2>1. /\ pc[p] = "git" /\ pc'[p] \in {"hook", "rollback", "dead"}
        /\ UNCHANGED <<index, hooked, landed, exit>>
    BY <1>0, <1>4 DEF GitStart, AfterGit, Goto, repoVars
  <2>2. SoloShared(p)'
    BY <1>0, <1>1, <2>1 DEF SoloInv, SoloShared, Staging, Committing, Failed
  <2>3. QED
    BY <1>2, <2>1, <2>2 DEF Committing
<1>5. CASE Hook(p)
  <2>1. PICK qs \in HookStages : hooked'[p] = qs /\ index' = Put(index, qs, Edits)
    BY <1>0, <1>5 DEF Hook
  <2>2. /\ pc[p] = "hook" /\ pc'[p] \in {"land", "rollback", "dead"}
        /\ UNCHANGED <<landed, exit>> /\ index = All(p) /\ landed[p] = landed'[p]
    BY <1>0, <1>5 DEF Hook, AfterGit, Goto, SoloInv, SoloShared, Committing
  <2>3. index' = HookedAll(p)'
    BY <1>1, <2>1, <2>2 DEF HookedAll, Put
  <2>4. SoloShared(p)'
    BY <1>0, <2>2, <2>3 DEF SoloShared, Shown, Staging, Committing, Failed
  <2>5. QED
    BY <1>2, <2>2, <2>4 DEF Committing
<1>6. CASE GitLands(p)
  <2>1. /\ pc[p] = "land" /\ pc'[p] \in {"report", "rollback", "dead"}
        /\ UNCHANGED <<index, hooked, exit>> /\ landed'[p] = Len(commits) + 1
    BY <1>0, <1>6 DEF GitLands, AfterGit, Goto
  <2>2. landed'[p] # 0
    BY <2>1 DEF TypeInv, TypeOK
  <2>3. SoloShared(p)'
    BY <1>0, <1>1, <2>1, <2>2 DEF SoloShared, Staging, Committing, Failed
  <2>4. QED
    BY <1>2, <2>1, <2>3
<1>7. CASE GitFails(p)
  <2>1. /\ pc[p] = "land" /\ pc'[p] \in {"rollback", "dead"}
        /\ UNCHANGED <<index, hooked, landed, exit>>
    BY <1>0, <1>7 DEF GitFails, AfterGit, Goto, repoVars, procVars
  <2>2. SoloShared(p)'
    BY <1>0, <1>1, <2>1 DEF SoloShared, Staging, Committing, Failed
  <2>3. QED
    BY <1>2, <2>1, <2>2
<1>8. CASE Rollback(p)
  <2>1. InitIndex # NoIndex
    BY InitAssumption, SentinelAssumption DEF NoIndex
  <2>2. Restored(p) \in Shown(p) /\ (HasTargets(cmd[p]) => Restored(p) = InitIndex)
    BY <1>0, <1>8, <2>1 DEF Rollback, Restored, SoloInv, SoloOwn, Shown
  <2>3. QED
    BY <1>0, <1>8, <2>2, ReturnSolo DEF Finish, Rollback, Failed
<1>9. CASE Report(p)
  BY <1>0, <1>9, ReturnSolo DEF Finish, Report, repoVars, Failed
<1>10. QED
  BY <1>3, <1>4, <1>5, <1>6, <1>7, <1>8, <1>9

\* Every step of the command.
LEMMA StepSolo ==
    ASSUME Solo, TypeInv, Newest, NEW p \in Procs, SoloInv(p), Step(p)
    PROVE  SoloInv(p)'
<1>1. cmd[p].mode # "only" /\ pc[p] \notin {"lock", "base", "check", "sync", "write"}
  BY DEF Solo, SoloInv, SoloPhase, TypeInv, IndexFileExists
<1>2. ~LockCommits(p) /\ ~NewOnlyIndex(p) /\ ~CheckParent(p) /\ ~SyncRead(p) /\ ~SyncWrite(p)
  BY <1>1 DEF LockCommits, NewOnlyIndex, CheckParent, SyncRead, SyncWrite
<1>3. CASE StepFails(p) \/ SeedFails(p)
  <2>1. pc[p] \in Staging \cup {"report"} /\ UNCHANGED <<commits, head, index, procVars>>
    BY <1>1, <1>3 DEF StepFails, SeedFails, Staging, repoVars
  <2>2. index \in Shown(p) /\ (pc[p] = "report" => landed[p] # 0)
        /\ (pc[p] \in Staging => index = InitIndex)
    BY DEF SoloInv, SoloShared
  <2>3. QED
    BY <1>3, <2>1, <2>2, ReturnSolo DEF Finish, StepFails, SeedFails
<1>4. QED
  BY <1>2, <1>3, PlanSolo, StageSolo, CommitSolo DEF Step, Advance

\* A killed command leaves the shared index as it was; a git under way goes on.
LEMMA CrashSolo ==
    ASSUME Solo, TypeInv, NEW p \in Procs, SoloInv(p), Crash(p)
    PROVE  SoloInv(p)'
<1>1. /\ pc'[p] = pc[p] \/ pc'[p] = "dead"
      /\ UNCHANGED <<commits, head, index, cmd, idx, planned, todo, snap, hooked,
                     landed, exit>>
      /\ pc[p] # "done"
  BY DEF Crash, Goto, repoVars, TypeInv, TypeOK
<1>2. /\ All(p)' = All(p) /\ Shown(p)' = Shown(p) /\ HookedAll(p)' = HookedAll(p)
      /\ WithPaths(p)' = WithPaths(p) /\ PlannedTree(p)' = PlannedTree(p)
      /\ Entries(p)' = Entries(p)
  BY <1>1 DEF All, Shown, HookedAll, WithPaths, PlannedTree, Put, AnchorFiles, TreeOf, Entries
<1>3. SoloPhase(p)'
  BY <1>1 DEF SoloInv, SoloPhase, HasTargets, Committing
<1>4. SoloShared(p)'
  BY <1>1, <1>2 DEF SoloInv, SoloShared, Staging, Committing, HasTargets
<1>5. SoloOwn(p)'
  <2>1. Put(WithPaths(p), AnchorFiles(cmd[p]) \ todo[p], PlannedTree(p) \cup cmd[p].anchors)'
          = Put(WithPaths(p), AnchorFiles(cmd[p]) \ todo[p], PlannedTree(p) \cup cmd[p].anchors)
    BY <1>1, <1>2 DEF Put, AnchorFiles
  <2>2. QED
    BY <1>1, <1>2, <2>1 DEF SoloInv, SoloOwn, HasTargets, AnchorFiles
<1>6. QED
  BY <1>3, <1>4, <1>5 DEF SoloInv

\* The state of a command alone in its checkout, in every reachable state.
SoloAll == TypeInv /\ CleanInv /\ ExactInv /\ \A p \in Procs : SoloInv(p)

\* The inductive invariant behind the three theorems below.
THEOREM SoloInvariant == Solo => (Spec => []SoloAll)
<1> SUFFICES ASSUME Solo PROVE Spec => []SoloAll
    OBVIOUS
<1>1. Init => SoloAll
  <2>1. Init => \A p \in Procs : SoloInv(p)
    BY DEF Init, SoloInv, SoloPhase, SoloShared, SoloOwn, Shown, Staging, Committing, Failed
  <2>2. QED
    BY <2>1, InitType, InitClean, InitExact DEF SoloAll
<1>2. SoloAll /\ [Next]_vars => SoloAll'
  <2> SUFFICES ASSUME SoloAll, [Next]_vars, NEW p \in Procs PROVE SoloInv(p)'
      BY NextType, NextClean, NextExact DEF SoloAll
  <2>1. ASSUME NEW r \in Procs PROVE r = p
    BY DEF Solo
  <2>2. TypeInv /\ Newest /\ SoloInv(p)
    BY DEF SoloAll, ExactInv
  <2>3. CASE Step(p)
    BY <2>2, <2>3, StepSolo
  <2>4. CASE Crash(p)
    BY <2>2, <2>4, CrashSolo
  <2>5. ~ExternalAdd /\ ~ExternalCommit
    BY <2>2 DEF ExternalAdd, ExternalCommit, Solo, TypeInv, TypeOK
  <2>6. CASE UNCHANGED vars
    <3>1. /\ All(p)' = All(p) /\ Shown(p)' = Shown(p) /\ HookedAll(p)' = HookedAll(p)
          /\ WithPaths(p)' = WithPaths(p) /\ PlannedTree(p)' = PlannedTree(p)
          /\ Entries(p)' = Entries(p)
      BY <2>6 DEF vars, All, Shown, HookedAll, WithPaths, PlannedTree, Put, AnchorFiles, TreeOf,
         Entries
    <3>2. QED
      BY <2>2, <2>6, <3>1 DEF vars, SoloInv, SoloPhase, SoloShared, SoloOwn, Put, HasTargets,
         Staging, Committing, AnchorFiles
  <2>7. QED
    BY <2>1, <2>3, <2>4, <2>5, <2>6 DEF Next
<1>3. QED
  BY <1>1, <1>2, PTL DEF Spec

\* Apply: a plain or --stage-only command alone in its checkout never shows a
\* part of its targets in the shared index, killed or not.
THEOREM Atomicity == Solo => (Spec => []ApplyIsAtomic)
<1> SUFFICES ASSUME Solo PROVE Spec => []ApplyIsAtomic
    OBVIOUS
<1>1. SoloAll => ApplyIsAtomic
  BY DEF SoloAll, SoloInv, SoloShared, Shown, HookedAll, All, WithPaths, ApplyIsAtomic
<1>2. QED
  BY <1>1, SoloInvariant, PTL

\* Wherever a command alone in its checkout fails before its commit, the index
\* is the one it found (rollbackIndex, and Apply's temp index before it).
THEOREM FailureIsClean == Solo => (Spec => []FailureLeavesIndex)
<1> SUFFICES ASSUME Solo PROVE Spec => []FailureLeavesIndex
    OBVIOUS
<1>1. SoloAll => FailureLeavesIndex
  BY DEF SoloAll, SoloInv, SoloShared, Failed, FailureLeavesIndex
<1>2. QED
  BY <1>1, SoloInvariant, PTL

\* runCommit's comment on the rollback, "restoring it destroys nothing", is
\* right for a command alone in its checkout.
THEOREM RestoreIsSafe == Solo => (Spec => RestoreDestroysNothing)
<1> SUFFICES ASSUME Solo PROVE Spec => RestoreDestroysNothing
    OBVIOUS
<1>1. ASSUME SoloAll, [Next]_vars, NEW p \in Procs, pc[p] = "rollback", pc'[p] = "done",
             NEW e \in index \ index'
      PROVE  \/ e \in PlannedTree(p) \cup cmd[p].anchors
             \/ PathOf[e] \in cmd[p].paths \cup hooked[p]
  <2>1. \A r \in Procs : r = p
    BY <1>1 DEF Solo
  <2>2. Rollback(p)
    <3>1. Step(p)
      BY <1>1, <2>1 DEF Next, Crash, ExternalAdd, ExternalCommit, vars, repoVars
    <3>2. QED
      BY <1>1, <3>1 DEF Step, Advance, Start, LockCommits, NewOnlyIndex, PlanFile,
         PlanTargets, SnapshotIndex, NewTempStaging, StageAdd, StageFile, Swap, StepFails, SeedFails,
         CommitOptions, GitStart, Hook, GitLands, GitFails, CheckParent, SyncRead,
         SyncWrite, Report
  <2>3. index \in Shown(p) /\ snap[p] \in {NoIndex, InitIndex}
    BY <1>1 DEF SoloAll, SoloInv, SoloShared, SoloOwn
  <2>4. index' \in {index, InitIndex}
    BY <2>2, <2>3 DEF Rollback, Restored
  <2>5. e \in index /\ e \notin InitIndex
    BY <1>1, <2>4
  <2>6. QED
    BY <2>3, <2>5 DEF Shown, HookedAll, All, WithPaths, Put
<1>2. SoloAll /\ [Next]_vars =>
        [\A p \in Procs : pc[p] = "rollback" /\ pc'[p] = "done" =>
            \A e \in index \ index' :
                \/ e \in PlannedTree(p) \cup cmd[p].anchors
                \/ PathOf[e] \in cmd[p].paths \cup hooked[p]]_vars
  BY <1>1
<1>3. QED
  BY <1>2, SoloInvariant, PTL DEF Spec, RestoreDestroysNothing
=============================================================================
