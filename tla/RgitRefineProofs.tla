-------------------------- MODULE RgitRefineProofs --------------------------
(***************************************************************************)
(* Proof that --only commits among themselves are atomic: with any number  *)
(* of rgit processes that all commit with --only, the lock, the private    *)
(* index, the hook, git and the sync implement OnlyCommit, in which a      *)
(* commit is a single step.                                                *)
(*                                                                         *)
(* The argument: from NewOnlyIndex to GitLands a process holds the lock    *)
(* (MutualExclusion), nobody else can land a commit without it, so HEAD    *)
(* stays the base the private index was built on (Alone); the private      *)
(* index at that moment is HookedTree (RgitExactProofs), which on that     *)
(* base is what OnlyCommit's Commit puts into HEAD.                        *)
(*                                                                         *)
(* And that the shared index follows: once no commit is under way it       *)
(* agrees with HEAD on every path a commit changed and is as it was found  *)
(* on every other.  Between GitLands and SyncWrite it does not, so the     *)
(* invariant says what it holds then (Follows): the state the other        *)
(* commits left, on the tree p's commit was built on.  Only the holder of  *)
(* the lock can be in between, and what it writes is exactly what is       *)
(* missing.                                                                *)
(***************************************************************************)
EXTENDS RgitExactProofs

\* Every command is an --only commit; git is not run outside rgit and no
\* process is killed.
OnlyRgit ==
    /\ \A c \in Commands : c.mode = "only"
    /\ MaxExternal = 0 /\ MaxCrashes = 0

Building == {"plan", "add", "files", "msg", "git", "hook", "land"}

\* While p builds a commit, HEAD is every HEAD p has read.
Alone(p) ==
    /\ cmd[p] \in Commands /\ alive[p]
    /\ pc[p] \in Building => base[p] = head
    /\ pc[p] = "plan" =>
          \A q \in AnchorFiles(cmd[p]) \ todo[p] : planned[p][q] = head
    /\ pc[p] \in Building \ {"plan"} =>
          \A q \in AnchorFiles(cmd[p]) : planned[p][q] = head
    /\ pc[p] \in {"hook", "land"} => on[p] = head
    /\ pc[p] = "land" => hooked[p] \in HookStages

AloneInv == crashes = 0 /\ external = 0 /\ \A p \in Procs : Alone(p)

Inv == CleanInv /\ ExactInv /\ AloneInv

-----------------------------------------------------------------------------

\* Nobody is building a commit at the start.
LEMMA InitAlone == OnlyRgit /\ Init => AloneInv
BY DEF Init, AloneInv, Alone, Building

\* A process that builds holds the lock, and so does one whose commit lands.
LEMMA OneBuilds ==
    ASSUME OnlyRgit, Inv, NEW p \in Procs, pc[p] = "land",
           NEW r \in Procs, pc[r] \in Building
    PROVE  r = p
<1>1. /\ cmd[p].mode = "only" /\ alive[p] /\ cmd[r].mode = "only" /\ alive[r]
  BY DEF OnlyRgit, Inv, AloneInv, Alone
<1>2. Holds(p) /\ Holds(r)
  BY <1>1 DEF Holds, Building
<1>3. QED
  BY <1>2 DEF Inv, CleanInv, LockInv

\* p's own steps.
LEMMA OwnAlone ==
    ASSUME OnlyRgit, Inv, NEW p \in Procs, Step(p)
    PROVE  Alone(p)'
<1>0. /\ cmd[p].mode = "only" /\ cmd[p] \in Commands /\ alive[p]
      /\ UNCHANGED <<cmd, alive>>
  BY StepShape DEF OnlyRgit, Inv, CleanInv, AloneInv, Alone
<1>1. /\ pc \in [Procs -> Phases] /\ base = [r \in Procs |-> base[r]]
      /\ planned = [r \in Procs |-> planned[r]] /\ on = [r \in Procs |-> on[r]]
      /\ hooked = [r \in Procs |-> hooked[r]]
  BY DEF Inv, CleanInv, TypeInv, TypeOK
<1>2. Alone(p) /\ TypeInv
  BY DEF Inv, AloneInv, CleanInv
<1>3. ASSUME pc'[p] \notin Building PROVE Alone(p)'
  BY <1>0, <1>3 DEF Alone, Building
<1>4. ASSUME NEW code, NEW file, Return(p, code, file) PROVE pc'[p] \notin Building
  BY <1>1, <1>4 DEF Return, Goto, Building
<1>5. CASE Start(p) \/ LockCommits(p) \/ SnapshotIndex(p) \/ NewTempStaging(p)
           \/ Swap(p) \/ StepFails(p) \/ SeedFails(p) \/ GitLands(p) \/ GitFails(p)
           \/ Rollback(p) \/ CheckParent(p) \/ SyncRead(p) \/ SyncWrite(p)
           \/ Report(p)
  <2>1. CASE SnapshotIndex(p) \/ NewTempStaging(p) \/ Swap(p)
    BY <1>0, <2>1 DEF Inv, ExactInv, Exact, InOrder, SnapshotIndex, NewTempStaging, Swap
  <2>2. CASE Start(p) \/ LockCommits(p) \/ SyncRead(p) \/ SyncWrite(p)
    BY <1>0, <1>1, <1>3, <1>4, <2>2 DEF Finish, Start, LockCommits, SyncRead, SyncWrite, Goto, Building
  <2>3. CASE StepFails(p) \/ SeedFails(p) \/ Rollback(p) \/ Report(p)
    BY <1>3, <1>4, <2>3 DEF Finish, StepFails, SeedFails, Rollback, Report
  <2>4. CASE CheckParent(p)
    BY <1>1, <1>3, <1>4, <2>4 DEF Finish, CheckParent, Goto, Building
  <2>5. CASE GitLands(p) \/ GitFails(p)
    BY <1>0, <1>1, <1>3, <2>5 DEF GitLands, GitFails, AfterGit, Goto, Building
  <2>6. QED
    BY <1>5, <2>1, <2>2, <2>3, <2>4, <2>5
<1>6. CASE NewOnlyIndex(p)
  <2>1. /\ base'[p] = head /\ pc[p] = "base" /\ UNCHANGED <<head, todo>>
        /\ pc'[p] = IF HasTargets(cmd[p]) THEN "plan" ELSE "msg"
    BY <1>1, <1>6 DEF NewOnlyIndex, Goto, repoVars
  <2>2. todo'[p] = AnchorFiles(cmd[p])
    BY <1>0, <2>1 DEF Inv, ExactInv, Exact, ReadsInOrder
  <2>3. ~HasTargets(cmd[p]) => AnchorFiles(cmd[p]) = {}
    BY DEF HasTargets, AnchorFiles
  <2>4. QED
    BY <1>0, <2>1, <2>2, <2>3 DEF Alone, Building, AnchorFiles
<1>7. CASE PlanTargets(p)
  <2>1. CASE Finish(p, "refused") \/ Finish(p, "nothing")
    BY <1>3, <1>4, <2>1 DEF Finish
  <2>2. CASE /\ Goto(p, CASE cmd[p].mode = "only"  -> "add"
                          [] cmd[p].mode = "plain" -> "snap"
                          [] cmd[p].mode = "stage" -> "seed")
             /\ todo[p] = {}
    <3>1. /\ pc[p] = "plan" /\ pc'[p] = "add"
          /\ UNCHANGED <<head, base, planned>>
      BY <1>0, <1>1, <1>7, <2>2 DEF PlanTargets, Goto, repoVars, procVars
    <3>2. QED
      BY <1>0, <1>2, <2>2, <3>1 DEF Alone, Building, AnchorFiles
  <2>3. QED
    BY <1>7, <2>1, <2>2 DEF PlanTargets
<1>8. CASE StageAdd(p) \/ StageFile(p)
  <2>1. /\ pc[p] \in {"add", "files"} /\ pc'[p] \in {"files", "msg"}
        /\ UNCHANGED <<head, base, planned>>
    BY <1>0, <1>1, <1>8 DEF StageAdd, StageFile, Staged, Goto, procVars
  <2>2. QED
    BY <1>0, <1>2, <2>1 DEF Alone, Building, AnchorFiles
<1>9. CASE CommitOptions(p)
  <2>1. CASE Finish(p, "nomessage")
    BY <1>3, <1>4, <2>1 DEF Finish
  <2>2. CASE Goto(p, "git") /\ UNCHANGED <<exit, idx, deferred, lock>>
    <3>1. /\ pc[p] = "msg" /\ pc'[p] = "git" /\ UNCHANGED <<head, base, planned>>
      BY <1>1, <1>9, <2>2 DEF CommitOptions, Goto, repoVars, procVars
    <3>2. QED
      BY <1>0, <1>2, <3>1 DEF Alone, Building, AnchorFiles
  <2>3. QED
    BY <1>9, <2>1, <2>2 DEF CommitOptions
<1>10. CASE GitStart(p)
  <2>1. /\ pc[p] = "git" /\ pc'[p] \in {"hook", "rollback"} /\ on'[p] = head
        /\ UNCHANGED <<head, base, planned>>
    BY <1>0, <1>1, <1>10 DEF GitStart, AfterGit, Goto, repoVars
  <2>2. QED
    BY <1>0, <1>2, <2>1 DEF Alone, Building, AnchorFiles
<1>11. CASE Hook(p)
  <2>1. hooked'[p] \in HookStages
    BY <1>1, <1>11 DEF Hook
  <2>2. /\ pc[p] = "hook" /\ pc'[p] \in {"land", "rollback", "dead"}
        /\ UNCHANGED <<head, base, planned, on>>
    BY <1>1, <1>11 DEF Hook, AfterGit, Goto
  <2>3. QED
    BY <1>0, <1>2, <2>1, <2>2 DEF Alone, Building, AnchorFiles
<1>12. CASE PlanFile(p)
  <2>1. PICK q \in todo[p] :
            /\ planned' = [planned EXCEPT ![p][q] = head]
            /\ todo' = [todo EXCEPT ![p] = @ \ {q}]
    BY <1>12 DEF PlanFile
  <2>2. /\ \A r \in Paths : planned'[p][r] = IF r = q THEN head ELSE planned[p][r]
        /\ todo'[p] = todo[p] \ {q}
    BY <1>2, <2>1 DEF TypeInv, TypeOK
  <2>3. pc[p] = "plan" /\ UNCHANGED <<head, base, pc>>
    BY <1>12 DEF PlanFile, repoVars
  <2>4. AnchorFiles(cmd[p]) \subseteq Paths
    BY <1>2, PathAssumption DEF AnchorFiles, TypeInv, TypeOK, Command
  <2>5. \A r \in AnchorFiles(cmd[p]) \ todo'[p] : planned'[p][r] = head'
    BY <1>2, <2>2, <2>3, <2>4 DEF Alone
  <2>6. QED
    BY <1>0, <1>2, <2>3, <2>5 DEF Alone, Building, AnchorFiles
<1>13. QED
  BY <1>5, <1>6, <1>7, <1>8, <1>9, <1>10, <1>11, <1>12 DEF Step, Advance

\* Nobody moves HEAD while p builds: only the holder of the lock lands.
LEMMA NextAlone ==
    ASSUME OnlyRgit, Inv, [Next]_vars
    PROVE  AloneInv'
<1>1. ASSUME NEW p \in Procs, Step(p) PROVE AloneInv'
  <2>1. UNCHANGED <<crashes, external>>
    BY <1>1 DEF Step, Advance, Start, LockCommits, NewOnlyIndex, PlanFile, PlanTargets,
       SnapshotIndex, NewTempStaging, StageAdd, StageFile, Swap, StepFails, SeedFails,
       CommitOptions, GitStart, Hook, GitLands, GitFails, Rollback, CheckParent,
       SyncRead, SyncWrite, Report, envVars
  <2>2. ASSUME NEW r \in Procs \ {p} PROVE Alone(r)'
    <3>1. Untouched(r) /\ pc'[r] = pc[r] /\ UNCHANGED <<cmd, alive>>
      BY <1>1, StepUntouched, StepShape DEF Inv, CleanInv
    <3>2. pc[r] \in Building => head' = head
      <4>1. CASE GitLands(p)
        BY <4>1, OneBuilds DEF GitLands
      <4>2. CASE ~GitLands(p)
        BY <1>1, <4>2 DEF Step, Advance, Start, LockCommits, NewOnlyIndex, PlanFile, PlanTargets,
           SnapshotIndex, NewTempStaging, StageAdd, StageFile, Swap, StepFails, SeedFails,
           CommitOptions, GitStart, Hook, GitFails, Rollback, CheckParent,
           SyncRead, SyncWrite, Report, repoVars
      <4>3. QED
        BY <4>1, <4>2
    <3>3. Alone(r)
      BY DEF Inv, AloneInv
    <3>4. QED
      BY <3>1, <3>2, <3>3 DEF Alone, Untouched, Building, AnchorFiles
  <2>3. Alone(p)'
    BY <1>1, OwnAlone
  <2>4. QED
    BY <2>1, <2>2, <2>3 DEF AloneInv, Inv
<1>2. ASSUME NEW p \in Procs PROVE ~Crash(p)
  BY DEF Crash, OnlyRgit, Inv, AloneInv
<1>3. ~ExternalAdd /\ ~ExternalCommit
  BY DEF ExternalAdd, ExternalCommit, OnlyRgit, Inv, AloneInv
<1>4. CASE UNCHANGED vars
  BY <1>4 DEF vars, Inv, AloneInv, Alone, Building, AnchorFiles
<1>5. QED
  BY <1>1, <1>2, <1>3, <1>4 DEF Next

\* The three invariants together, in every reachable state.
LEMMA InvHolds == OnlyRgit => (Spec => []Inv)
<1> SUFFICES ASSUME OnlyRgit PROVE Spec => []Inv
    OBVIOUS
<1>1. Init => Inv
  BY InitClean, InitExact, InitAlone DEF Inv
<1>2. Inv /\ [Next]_vars => Inv'
  BY NextClean, NextExact, NextAlone DEF Inv, CleanInv
<1>3. QED
  BY <1>1, <1>2, PTL DEF Spec

\* HEAD does not move under another rgit between NewOnlyIndex and the commit
\* (gitx.go, the comment on NewOnlyIndex): true where every process commits
\* with --only.
THEOREM HeadStaysStill == OnlyRgit => (Spec => HeadStill)
<1> SUFFICES ASSUME OnlyRgit PROVE Spec => HeadStill
    OBVIOUS
<1>1. ASSUME Inv, [Next]_vars, NEW p \in Procs, NEW r \in Procs,
             BuildsOnBase(p), p # r
      PROVE  landed'[r] = landed[r]
  <2>1. ASSUME NEW q \in Procs, Step(q) PROVE landed'[r] = landed[r]
    <3>1. CASE q # r
      BY <2>1, <3>1, StepUntouched, <1>1 DEF Untouched, Inv, CleanInv
    <3>2. CASE q = r /\ GitLands(r)
      BY <1>1, <3>2, OneBuilds DEF GitLands, BuildsOnBase, Building
    <3>3. CASE q = r /\ ~GitLands(r)
      BY <2>1, <3>3 DEF Step, Advance, Start, LockCommits, NewOnlyIndex, PlanFile, PlanTargets,
         SnapshotIndex, NewTempStaging, StageAdd, StageFile, Swap, StepFails, SeedFails,
         CommitOptions, GitStart, Hook, GitFails, Rollback, CheckParent,
         SyncRead, SyncWrite, Report, procVars
    <3>4. QED
      BY <3>1, <3>2, <3>3
  <2>2. ASSUME NEW q \in Procs, Crash(q) PROVE landed' = landed
    BY <2>2 DEF Crash
  <2>3. CASE ExternalAdd \/ ExternalCommit \/ UNCHANGED vars
    BY <2>3 DEF ExternalAdd, ExternalCommit, vars
  <2>4. QED
    BY <1>1, <2>1, <2>2, <2>3 DEF Next
<1>2. Inv /\ [Next]_vars =>
        [\A p, r \in Procs :
            BuildsOnBase(p) /\ p # r => landed'[r] = landed[r]]_vars
  BY <1>1
<1>3. QED
  BY <1>2, InvHolds, PTL DEF Spec, HeadStill

-----------------------------------------------------------------------------
(* The refinement. *)

Trees  == {IF h = << >> THEN {} ELSE h[1].tree : h \in Histories}
Landed == {p \in Procs : landed[p] # 0}

\* The start of the system is a start of OnlyCommit.
LEMMA InitRefines == OnlyRgit /\ Init => Atomic!Init
<1> SUFFICES ASSUME OnlyRgit, Init PROVE Atomic!Init
    OBVIOUS
<1>1. TreeOf(head) = IF commits = << >> THEN {} ELSE commits[1].tree
  <2>1. CASE commits = << >>
    BY <2>1 DEF Init, TreeOf
  <2>2. ASSUME NEW t \in SUBSET Edits, commits = <<[tree |-> t, parent |-> 0]>>
        PROVE  TreeOf(head) = commits[1].tree /\ commits # << >>
    BY <2>2 DEF Init, TreeOf
  <2>3. QED
    BY <2>1, <2>2, InitAssumption DEF Init
<1>2. TreeOf(head) \in Trees
  BY <1>1 DEF Init, Trees
<1>3. Landed = {} /\ cmd \in [Procs -> Commands]
  BY DEF Init, Landed
<1>4. QED
  BY <1>2, <1>3 DEF Atomic!Init, Trees, Landed

\* The step at which the atomic commit happens.
LEMMA LandRefines ==
    ASSUME OnlyRgit, Inv, NEW p \in Procs, GitLands(p)
    PROVE  Atomic!Commit(p)
<1> DEFINE c == [tree |-> GitIndex(p), parent |-> NewParent(p)]
<1>1. /\ pc[p] = "land" /\ head = on[p] /\ cmd' = cmd
      /\ commits' = Append(commits, c) /\ head' = Len(commits) + 1
      /\ landed' = [landed EXCEPT ![p] = Len(commits) + 1]
  BY DEF GitLands, CanLand
<1>2. cmd[p].mode = "only" /\ Alone(p) /\ Exact(p) /\ TypeInv /\ Newest
  BY DEF OnlyRgit, Inv, CleanInv, ExactInv, AloneInv, Alone
<1>3. /\ base[p] = head /\ hooked[p] \in HookStages
      /\ \A q \in AnchorFiles(cmd[p]) : planned[p][q] = head
  BY <1>1, <1>2 DEF Alone, Building
<1>4. idx[p] = HookedTree(p) /\ landed[p] = 0
  BY <1>1, <1>2 DEF Exact, IndexExact, InOrder, Early
<1>5. TreeOf(head)' = idx[p]
  <2>1. c.tree = idx[p] /\ c.parent = NewParent(p)
    BY <1>2 DEF GitIndex
  <2>2. c.parent \in {head, ParentOf(head)}
    BY <1>1 DEF NewParent
  <2>3. idx[p] \in SUBSET Edits
    BY <1>1, <1>2 DEF TypeInv, IndexFileExists
  <2>4. c \in Commit
    BY <1>2, <2>1, <2>2, <2>3, HeadParent DEF Commit
  <2> HIDE DEF c
  <2>5. TreeOf(head)' = c.tree
    BY <1>1, <1>2, <2>2, <2>4, AppendGrows
  <2>6. QED
    BY <2>1, <2>5
<1>6. HookedTree(p) = Atomic!Targets(cmd[p], TreeOf(head), hooked[p])
  <2> DEFINE files == Put(TreeOf(head), cmd[p].paths, Edits)
  <2>1. TreeOf(head) \subseteq Edits /\ cmd[p].anchors \subseteq Edits
    BY <1>2, TreeType DEF TypeInv, TypeOK, Command
  <2>2. \A e \in Edits : PathOf[e] \in AnchorFiles(cmd[p]) =>
            (e \in PlannedTree(p) <=> e \in TreeOf(head))
    BY <1>3 DEF PlannedTree
  <2>3. PlannedTree(p) \subseteq Edits
    BY DEF PlannedTree
  <2> HIDE DEF files
  <2>4. Put(files, AnchorFiles(cmd[p]), PlannedTree(p) \cup cmd[p].anchors)
          = Put(files, AnchorFiles(cmd[p]), TreeOf(head) \cup cmd[p].anchors)
    BY <2>1, <2>2, <2>3 DEF Put
  <2>5. QED
    BY <1>3, <2>4 DEF files, HookedTree, StagedTree, Put, AnchorFiles,
       Atomic!Targets, Atomic!Replace
<1>7. Landed' = Landed \cup {p} /\ p \notin Landed
  BY <1>1, <1>2, <1>4 DEF Landed, TypeInv, TypeOK
<1>8. QED
  BY <1>1, <1>3, <1>4, <1>5, <1>6, <1>7 DEF Atomic!Commit, Landed

\* GitLands is OnlyCommit's Commit; every other step is a stutter.
LEMMA NextRefines ==
    ASSUME OnlyRgit, Inv, [Next]_vars
    PROVE  [Atomic!Next]_(Atomic!vars)
<1>1. CASE UNCHANGED <<commits, head, landed, cmd>>
  BY <1>1 DEF Atomic!vars, TreeOf
<1>2. ASSUME NEW p \in Procs, GitLands(p) PROVE Atomic!Next
  BY <1>2, LandRefines DEF Atomic!Next
<1>3. ASSUME NEW p \in Procs, Step(p), ~GitLands(p)
      PROVE  UNCHANGED <<commits, head, landed, cmd>>
  BY <1>3 DEF Step, Advance, Start, LockCommits, NewOnlyIndex, PlanFile, PlanTargets,
     SnapshotIndex, NewTempStaging, StageAdd, StageFile, Swap, StepFails, SeedFails,
     CommitOptions, GitStart, Hook, GitFails, Rollback, CheckParent,
     SyncRead, SyncWrite, Report, repoVars, procVars
<1>4. ASSUME NEW p \in Procs PROVE ~Crash(p)
  BY DEF Crash, OnlyRgit, Inv, AloneInv
<1>5. ~ExternalAdd /\ ~ExternalCommit
  BY DEF ExternalAdd, ExternalCommit, OnlyRgit, Inv, AloneInv
<1>6. QED
  BY <1>1, <1>2, <1>3, <1>4, <1>5 DEF Next, vars

\* Any number of rgit processes that commit with --only implement OnlyCommit:
\* each commit is one atomic step.
THEOREM Refinement == OnlyRgit => (Spec => CommitsAreAtomic)
<1> SUFFICES ASSUME OnlyRgit PROVE Spec => CommitsAreAtomic
    OBVIOUS
<1>1. Init => Atomic!Init
  BY InitRefines
<1>2. Inv /\ [Next]_vars => [Atomic!Next]_(Atomic!vars)
  BY NextRefines
<1>3. QED
  BY <1>1, <1>2, InvHolds, PTL DEF Spec, CommitsAreAtomic, Atomic!Spec

-----------------------------------------------------------------------------
(* The index follows HEAD. *)

\* Between the landing of p's commit and the write of its synced entries
Pending == {"check", "sync", "write"}

\* A commit has landed whose command failed, or is bound to
Broken ==
    \E p \in Procs :
        /\ landed[p] # 0
        /\ \/ pc[p] = "rollback"
           \/ pc[p] = "done" /\ exit[p] \notin Succeeded

\* What the commits of the processes in ps changed
TouchedBy(ps) ==
    {q \in Paths : \E p \in ps :
        landed[p] # 0 /\ q \in Differ(TreeOf(landed[p]), TreeOf(base[p]))}

\* The index agrees with tree t on what those commits changed, and is as it
\* was found elsewhere
Follows(t, ps) ==
    \A q \in Paths :
        At(index, q) = IF q \in TouchedBy(ps) THEN At(t, q) ELSE At(InitIndex, q)

\* p's commit is HEAD, and the index is what the other commits left
Lags(p) ==
    /\ head = landed[p]
    /\ Follows(TreeOf(base[p]), Procs \ {p})
    /\ pc[p] = "write" => todo[p] = SyncSet(p)

FollowInv ==
    ~Broken =>
        /\ (\A p \in Procs : pc[p] \notin Pending) => Follows(TreeOf(head), Procs)
        /\ \A p \in Procs : pc[p] \in Pending => Lags(p)

\* What is known of each process in the setting of the refinement.
LEMMA OnlyFacts ==
    ASSUME OnlyRgit, Inv, NEW p \in Procs
    PROVE  /\ cmd[p].mode = "only" /\ alive[p] /\ Exact(p) /\ Alone(p)
           /\ landed[p] \in 0..head /\ base[p] \in 0..head /\ head \in Nat
<1>1. cmd[p].mode = "only" /\ alive[p] /\ Alone(p)
  BY DEF OnlyRgit, Inv, AloneInv, Alone
<1>2. Exact(p) /\ Newest
  BY <1>1 DEF Inv, ExactInv
<1>3. landed[p] \in 0..head /\ head \in Nat
  BY <1>2 DEF Inv, CleanInv, TypeInv, TypeOK, Newest
<1>4. QED
  BY <1>1, <1>2, <1>3 DEF Exact, ReadsInOrder

\* Two processes past the lock and not returned are one.
LEMMA OneHolds ==
    ASSUME OnlyRgit, Inv, NEW p \in Procs, NEW r \in Procs,
           pc[p] \notin {"start", "lock", "done"},
           pc[r] \notin {"start", "lock", "done"}
    PROVE  r = p
<1>1. Holds(p) /\ Holds(r)
  BY OnlyFacts DEF Holds
<1>2. QED
  BY <1>1 DEF Inv, CleanInv, LockInv

\* Later commits change nothing in what a landed commit changed.
LEMMA TouchedKept ==
    ASSUME OnlyRgit, Inv, Grows, NEW ps \in SUBSET Procs,
           \A r \in ps : /\ landed'[r] = landed[r]
                         /\ landed[r] # 0 => base'[r] = base[r]
    PROVE  TouchedBy(ps)' = TouchedBy(ps)
<1>1. ASSUME NEW r \in ps, landed[r] # 0
      PROVE  /\ TreeOf(landed[r])' = TreeOf(landed[r])
             /\ TreeOf(base[r])' = TreeOf(base[r])
  <2>1. r \in Procs
    OBVIOUS
  <2>2. landed[r] \in 0..head /\ base[r] \in 0..head
    BY <2>1, OnlyFacts
  <2>3. landed'[r] = landed[r] /\ base'[r] = base[r]
    BY <1>1
  <2>4. TreeOf(landed[r])' = TreeOf(landed[r])
    BY <2>2, <2>3 DEF Grows
  <2>5. TreeOf(base[r])' = TreeOf(base[r])
    BY <2>2, <2>3 DEF Grows
  <2>6. QED
    BY <2>4, <2>5
<1>2. ASSUME NEW q \in Paths, NEW r \in ps
      PROVE  (landed[r] # 0 /\ q \in Differ(TreeOf(landed[r]), TreeOf(base[r])))'
                <=> landed[r] # 0 /\ q \in Differ(TreeOf(landed[r]), TreeOf(base[r]))
  BY <1>1 DEF Differ, At
<1>3. QED
  BY <1>2 DEF TouchedBy

\* A failure after the commit stays one.
LEMMA BrokenStays ==
    ASSUME OnlyRgit, Inv, NEW p \in Procs, Step(p), Broken
    PROVE  Broken'
<1>1. PICK r \in Procs :
          /\ landed[r] # 0
          /\ \/ pc[r] = "rollback"
             \/ pc[r] = "done" /\ exit[r] \notin Succeeded
  BY DEF Broken
<1>2. CASE r # p
  <2>1. Untouched(r) /\ pc'[r] = pc[r]
    BY <1>2, StepUntouched, StepShape DEF Inv, CleanInv
  <2>2. QED
    BY <1>1, <2>1 DEF Broken, Untouched
<1>3. CASE r = p
  <2>1. pc[p] = "rollback"
    BY <1>1, <1>3, StepShape DEF Inv, CleanInv
  <2>2. Rollback(p)
    BY <2>1 DEF Step, Advance, Start, LockCommits, NewOnlyIndex, PlanFile, PlanTargets,
       SnapshotIndex, NewTempStaging, StageAdd, StageFile, Swap, StepFails, SeedFails,
       CommitOptions, GitStart, Hook, GitLands, GitFails, CheckParent, SyncRead,
       SyncWrite, Report
  <2>3. pc'[p] = "done" /\ exit'[p] \in {"fatal", "unrestored"} /\ landed' = landed
    BY <2>2 DEF Rollback, Finish, Return, Goto, procVars, Inv, CleanInv, TypeInv, TypeOK
  <2>4. QED
    BY <1>1, <1>3, <2>3 DEF Broken, Succeeded
<1>4. QED
  BY <1>2, <1>3

\* Nothing is staged and nothing has landed at the start.
LEMMA InitFollow == Init => FollowInv
BY DEF Init, FollowInv, Follows, TouchedBy, Pending

\* The commit lands: from now on p's own changes are what the index lacks.
LEMMA LandFollows ==
    ASSUME OnlyRgit, Inv, FollowInv, NEW p \in Procs, GitLands(p)
    PROVE  FollowInv'
<1>1. /\ pc[p] = "land" /\ landed' = [landed EXCEPT ![p] = Len(commits) + 1]
      /\ head' = Len(commits) + 1 /\ UNCHANGED <<index, base, todo, exit>>
  BY DEF GitLands
<1>2. PICK phase \in {"check", "rollback"} : pc' = [pc EXCEPT ![p] = phase]
  BY OnlyFacts DEF GitLands, AfterGit, Goto
<1>3. Exact(p) /\ Alone(p) /\ head \in Nat /\ base[p] = head /\ landed[p] = 0
  BY <1>1, OnlyFacts DEF Alone, Building, Exact, InOrder, Early
<1>4. /\ pc \in [Procs -> Phases] /\ landed = [r \in Procs |-> landed[r]]
      /\ head = Len(commits)
  BY DEF Inv, CleanInv, ExactInv, Newest, TypeInv, TypeOK
<1>5. Step(p)
  BY DEF Step, Advance
<1>6. CASE phase = "rollback"
  <2>1. pc'[p] = "rollback" /\ landed'[p] # 0
    BY <1>1, <1>2, <1>3, <1>4, <1>6
  <2>2. Broken'
    BY <2>1 DEF Broken
  <2>3. QED
    BY <2>2 DEF FollowInv
<1>7. CASE phase = "check" /\ ~Broken
  <2>1. \A r \in Procs \ {p} : pc[r] \notin Pending /\ pc'[r] = pc[r]
    BY <1>1, <1>2, <1>4, OneHolds DEF Pending
  <2>2. Follows(TreeOf(head), Procs)
    BY <1>1, <1>7, <2>1 DEF FollowInv, Pending
  <2>3. TouchedBy(Procs) = TouchedBy(Procs \ {p})
    BY <1>3 DEF TouchedBy
  <2>4. Grows
    BY <1>5, StepGrows DEF Inv, CleanInv, ExactInv
  <2>5. \A r \in Procs \ {p} : landed'[r] = landed[r]
    BY <1>1, <1>4
  <2>6. Procs \ {p} \in SUBSET Procs
    OBVIOUS
  <2>7. TouchedBy(Procs \ {p})' = TouchedBy(Procs \ {p})
    BY <1>1, <2>4, <2>5, <2>6, TouchedKept
  <2>8. TreeOf(base[p])' = TreeOf(base[p])
    <3>1. base[p] \in 0..head /\ base'[p] = base[p]
      BY <1>1, OnlyFacts
    <3>2. QED
      BY <2>4, <3>1 DEF Grows
  <2>9. Follows(TreeOf(base[p]), Procs \ {p})'
    <3>1. Follows(TreeOf(base[p]), Procs \ {p})
      BY <1>3, <2>2, <2>3 DEF Follows
    <3>2. QED
      BY <1>1, <2>7, <2>8, <3>1 DEF Follows, At
  <2>10. Lags(p)'
    BY <1>1, <1>2, <1>4, <1>7, <2>9 DEF Lags
  <2>11. pc'[p] \in Pending
    BY <1>2, <1>4, <1>7 DEF Pending
  <2>12. QED
    BY <2>1, <2>10, <2>11 DEF FollowInv
<1>8. CASE Broken
  BY <1>5, <1>8, BrokenStays DEF FollowInv
<1>9. QED
  BY <1>6, <1>7, <1>8

\* The synced entries are written: the index has caught up with HEAD.
LEMMA WriteFollows ==
    ASSUME OnlyRgit, Inv, FollowInv, NEW p \in Procs, SyncWrite(p)
    PROVE  FollowInv'
<1>1. /\ pc[p] = "write" /\ index' = Put(index, todo[p], idx[p])
      /\ pc' = [pc EXCEPT ![p] = "report"]
      /\ UNCHANGED <<commits, head, base, landed, exit>>
  BY DEF SyncWrite, Goto, procVars
<1>2. Step(p) /\ TypeInv /\ pc \in [Procs -> Phases]
  BY DEF Step, Advance, Inv, CleanInv, TypeInv, TypeOK
<1>3. CASE Broken
  BY <1>2, <1>3, BrokenStays DEF FollowInv
<1>4. CASE ~Broken
  <2>1. Lags(p) /\ todo[p] = SyncSet(p)
    BY <1>1, <1>4 DEF FollowInv, Lags, Pending
  <2>2. /\ landed[p] # 0 /\ idx[p] = TreeOf(landed[p]) /\ head = landed[p]
        /\ idx[p] \in SUBSET Edits /\ index \in SUBSET Edits
    BY <1>1, <1>2, <2>1, OnlyFacts
       DEF Lags, Exact, InOrder, IndexExact, LandedExact, TypeInv, TypeOK, IndexFileExists
  <2> DEFINE changed == Differ(idx[p], TreeOf(base[p]))
  <2>3. ASSUME NEW q \in Paths
        PROVE  At(index', q) = IF q \in changed THEN At(idx[p], q) ELSE At(index, q)
    <3>1. q \in todo[p] <=> q \in changed /\ At(index, q) # At(idx[p], q)
      BY <2>1 DEF SyncSet, Differ
    <3>2. At(index', q) = IF q \in todo[p] THEN At(idx[p], q) ELSE At(index, q)
      BY <1>1 DEF Put, At
    <3>3. QED
      BY <3>1, <3>2
  <2>4. ASSUME NEW q \in Paths
        PROVE  q \in TouchedBy(Procs) <=> q \in changed \/ q \in TouchedBy(Procs \ {p})
    BY <2>2 DEF TouchedBy
  <2>5. ASSUME NEW q \in Paths
        PROVE  At(index', q) = IF q \in TouchedBy(Procs) THEN At(TreeOf(head), q)
                                                        ELSE At(InitIndex, q)
    <3>1. CASE q \in changed
      BY <2>2, <2>3, <2>4, <3>1
    <3>2. CASE q \notin changed
      <4>1. At(idx[p], q) = At(TreeOf(base[p]), q)
        BY <3>2 DEF Differ
      <4>2. At(index, q) = IF q \in TouchedBy(Procs \ {p}) THEN At(TreeOf(base[p]), q)
                                                         ELSE At(InitIndex, q)
        BY <2>1 DEF Lags, Follows
      <4>3. QED
        BY <2>2, <2>3, <2>4, <3>2, <4>1, <4>2
    <3>3. QED
      BY <3>1, <3>2
  <2>6. TouchedBy(Procs)' = TouchedBy(Procs) /\ TreeOf(head)' = TreeOf(head)
    BY <1>1 DEF TouchedBy, TreeOf, Differ, At
  <2>7. Follows(TreeOf(head), Procs)'
    BY <2>5, <2>6 DEF Follows, At
  <2>8. \A r \in Procs : pc'[r] \notin Pending
    BY <1>1, <1>2, OneHolds DEF Pending
  <2>9. QED
    BY <2>7, <2>8 DEF FollowInv
<1>5. QED
  BY <1>3, <1>4

\* A step that moves no branch and writes no shared index.
LEMMA QuietFollows ==
    ASSUME OnlyRgit, Inv, FollowInv, NEW p \in Procs, Step(p),
           UNCHANGED <<commits, head, index, landed>>,
           landed[p] # 0 => base'[p] = base[p],
           pc'[p] \in Pending => pc[p] \in Pending,
           pc[p] \in Pending => pc'[p] \in Pending \/ Broken',
           pc'[p] = "write" => todo'[p] = SyncSet(p)'
    PROVE  FollowInv'
<1>1. CASE Broken \/ Broken'
  BY <1>1, BrokenStays DEF FollowInv
<1>2. CASE ~Broken /\ ~Broken'
  <2>1. /\ \A r \in Procs \ {p} : Untouched(r) /\ pc'[r] = pc[r] /\ idx'[r] = idx[r]
        /\ pc'[p] \in Pending <=> pc[p] \in Pending
    BY <1>2, StepUntouched, StepShape DEF Inv, CleanInv
  <2>2. Grows
    BY StepGrows DEF Inv, CleanInv, ExactInv
  <2>3. \A r \in Procs : landed'[r] = landed[r] /\ (landed[r] # 0 => base'[r] = base[r])
    BY <2>1 DEF Untouched
  <2>4. TouchedBy(Procs)' = TouchedBy(Procs)
    BY <2>2, <2>3, TouchedKept
  <2>5. TreeOf(head)' = TreeOf(head)
    BY DEF TreeOf
  <2>6. (\A r \in Procs : pc[r] \notin Pending) => Follows(TreeOf(head), Procs)'
    BY <1>2, <2>4, <2>5 DEF FollowInv, Follows, At
  <2>7. ASSUME NEW r \in Procs, pc'[r] \in Pending PROVE Lags(r)'
    <3>1. Lags(r) /\ pc[r] \in Pending
      BY <1>2, <2>1, <2>7 DEF FollowInv
    <3>2. TouchedBy(Procs \ {r})' = TouchedBy(Procs \ {r})
      <4>1. Procs \ {r} \in SUBSET Procs
        OBVIOUS
      <4>2. QED
        BY <2>2, <2>3, <4>1, TouchedKept
    <3>3. TreeOf(base[r])' = TreeOf(base[r])
      <4>1. landed[r] # 0
        BY <3>1, OnlyFacts DEF Pending, Exact, InOrder
      <4>2. base'[r] = base[r]
        BY <2>3, <4>1
      <4>3. QED
        BY <4>2 DEF TreeOf
    <3>4. Follows(TreeOf(base[r]), Procs \ {r})'
      BY <3>1, <3>2, <3>3 DEF Lags, Follows, At
    <3>5. pc'[r] = "write" => todo'[r] = SyncSet(r)'
      <4>1. CASE r = p
        BY <4>1
      <4>2. CASE r # p
        <5>1. todo'[r] = todo[r] /\ pc'[r] = pc[r] /\ idx'[r] = idx[r]
          BY <2>1, <4>2 DEF Untouched
        <5>2. SyncSet(r)' = SyncSet(r)
          BY <3>3, <5>1 DEF SyncSet, Differ, At
        <5>3. QED
          BY <3>1, <5>1, <5>2 DEF Lags
      <4>3. QED
        BY <4>1, <4>2
    <3>6. QED
      BY <3>1, <3>4, <3>5 DEF Lags
  <2>8. QED
    BY <2>1, <2>6, <2>7 DEF FollowInv
<1>3. QED
  BY <1>1, <1>2

\* Every step of a process.
LEMMA StepFollows ==
    ASSUME OnlyRgit, Inv, NoSnapshot, FollowInv, NEW p \in Procs, Step(p)
    PROVE  FollowInv'
<1>0. /\ pc \in [Procs -> Phases] /\ base = [r \in Procs |-> base[r]]
      /\ todo = [r \in Procs |-> todo[r]] /\ exit = [r \in Procs |-> exit[r]]
      /\ cmd[p].mode = "only" /\ alive[p] /\ Exact(p)
  BY OnlyFacts DEF Inv, CleanInv, TypeInv, TypeOK
<1>1. ASSUME NEW code \in Codes, NEW file, Return(p, code, file),
             UNCHANGED <<commits, head, index, procVars>>,
             code \in Succeeded => pc[p] \notin Pending
      PROVE  FollowInv'
  <2>1. pc'[p] = "done" /\ exit'[p] = code /\ UNCHANGED <<landed, base>>
    BY <1>0, <1>1 DEF Return, Goto, procVars
  <2>2. pc[p] \in Pending => Broken'
    BY <1>0, <1>1, <2>1 DEF Broken, Pending, Exact, InOrder
  <2>3. QED
    BY <1>1, <2>1, <2>2, QuietFollows DEF Pending
<1>2. ASSUME NEW phase, Goto(p, phase), UNCHANGED <<commits, head, index, landed>>,
             pc[p] \notin Pending, phase \notin Pending,
             landed[p] # 0 => base'[p] = base[p]
      PROVE  FollowInv'
  <2>1. pc'[p] = phase
    BY <1>0, <1>2 DEF Goto
  <2>2. QED
    BY <1>2, <2>1, QuietFollows DEF Pending
<1>3. CASE GitLands(p) \/ SyncWrite(p)
  BY <1>3, LandFollows, WriteFollows
<1>4. CASE SnapshotIndex(p) \/ NewTempStaging(p) \/ Swap(p)
  BY <1>0, <1>4 DEF SnapshotIndex, NewTempStaging, Swap, Exact, InOrder
<1>5. CASE Start(p)
  <2>1. CASE ~Valid(cmd[p])
    BY <1>1, <1>5, <2>1 DEF Finish, Start, repoVars, Codes, Succeeded
  <2>2. CASE Valid(cmd[p])
    BY <1>0, <1>2, <1>5, <2>2 DEF Start, repoVars, procVars, Pending
  <2>3. QED
    BY <2>1, <2>2
<1>6. CASE LockCommits(p)
  BY <1>2, <1>6 DEF LockCommits, repoVars, procVars, Pending
<1>7. CASE NewOnlyIndex(p)
  <2>1. landed[p] = 0
    BY <1>0, <1>7 DEF NewOnlyIndex, Exact, InOrder, Early
  <2>2. QED
    BY <1>2, <1>7, <2>1 DEF NewOnlyIndex, repoVars, Pending
<1>8. CASE PlanFile(p)
  BY <1>8, QuietFollows DEF PlanFile, repoVars, Pending
<1>9. CASE PlanTargets(p)
  <2>1. CASE Finish(p, "refused")
    BY <1>1, <1>9, <2>1 DEF Finish, PlanTargets, repoVars, Codes, Succeeded
  <2>2. CASE Finish(p, "nothing")
    BY <1>1, <1>9, <2>2 DEF Finish, PlanTargets, repoVars, Codes, Succeeded
  <2>3. CASE Goto(p, CASE cmd[p].mode = "only"  -> "add"
                       [] cmd[p].mode = "plain" -> "snap"
                       [] cmd[p].mode = "stage" -> "seed")
    BY <1>0, <1>2, <1>9, <2>3 DEF PlanTargets, repoVars, procVars, Pending
  <2>4. QED
    BY <1>9, <2>1, <2>2, <2>3 DEF PlanTargets
<1>10. CASE StageAdd(p)
  BY <1>0, <1>2, <1>10 DEF StageAdd, StageIn, Staged, procVars, Pending
<1>11. CASE StageFile(p)
  <2>1. PICK q \in todo[p] : Goto(p, IF todo[p] = {q} THEN Staged(p) ELSE "files")
    BY <1>11 DEF StageFile
  <2>2. QED
    BY <1>0, <1>2, <1>11, <2>1 DEF StageFile, StageIn, Staged, procVars, Pending
<1>12. CASE StepFails(p) \/ SeedFails(p)
  BY <1>1, <1>12 DEF Finish, StepFails, SeedFails, repoVars, Codes, Succeeded
<1>13. CASE CommitOptions(p)
  <2>1. CASE Finish(p, "nomessage")
    BY <1>1, <1>13, <2>1 DEF Finish, CommitOptions, repoVars, Codes, Succeeded
  <2>2. CASE Goto(p, "git")
    BY <1>2, <1>13, <2>2 DEF CommitOptions, repoVars, procVars, Pending
  <2>3. QED
    BY <1>13, <2>1, <2>2 DEF CommitOptions
<1>14. CASE GitStart(p)
  BY <1>0, <1>2, <1>14 DEF GitStart, AfterGit, repoVars, Pending
<1>15. CASE Hook(p)
  <2>1. Goto(p, "land") \/ Goto(p, "rollback")
    BY <1>0, <1>15 DEF Hook, AfterGit
  <2>2. UNCHANGED <<commits, head, index, landed, base>> /\ pc[p] = "hook"
    BY <1>0, <1>15 DEF Hook
  <2>3. QED
    BY <1>2, <2>1, <2>2 DEF Pending
<1>16. CASE GitFails(p)
  BY <1>0, <1>2, <1>16 DEF GitFails, AfterGit, repoVars, procVars, Pending
<1>17. CASE Rollback(p)
  <2>1. UNCHANGED <<commits, head, index, procVars>> /\ pc[p] = "rollback"
    BY <1>0, <1>17 DEF Rollback, Restored, NoSnapshot
  <2>2. \E code \in {"fatal", "unrestored"} : Finish(p, code)
    BY <1>17 DEF Rollback
  <2>3. QED
    BY <1>1, <2>1, <2>2 DEF Finish, Codes, Succeeded, Pending
<1>18. CASE CheckParent(p)
  <2>1. CASE HeadMoved(p)
    BY <1>1, <1>18, <2>1 DEF Finish, CheckParent, repoVars, Codes, Succeeded
  <2>2. CASE ~HeadMoved(p)
    <3>1. pc[p] = "check" /\ pc'[p] = "sync" /\ UNCHANGED <<commits, head, index, landed, base>>
      BY <1>0, <1>18, <2>2 DEF CheckParent, Goto, repoVars, procVars
    <3>2. QED
      BY <3>1, QuietFollows DEF Pending
  <2>3. QED
    BY <2>1, <2>2
<1>19. CASE SyncRead(p)
  <2>1. /\ pc[p] = "sync" /\ pc'[p] = "write" /\ todo'[p] = SyncSet(p)
        /\ UNCHANGED <<commits, head, index, landed, base, idx>>
    BY <1>0, <1>19 DEF SyncRead, Goto, repoVars, procVars
  <2>2. SyncSet(p)' = SyncSet(p)
    BY <2>1 DEF SyncSet, Differ, At, TreeOf
  <2>3. QED
    BY <2>1, <2>2, QuietFollows DEF Pending
<1>20. CASE Report(p)
  BY <1>1, <1>20 DEF Finish, Report, repoVars, Codes, Pending
<1>21. QED
  BY <1>3, <1>4, <1>5, <1>6, <1>7, <1>8, <1>9, <1>10, <1>11, <1>12, <1>13, <1>14,
     <1>15, <1>16, <1>17, <1>18, <1>19, <1>20 DEF Step, Advance

\* Among any number of --only commits, finishOnlyCommit's sync leaves the
\* shared index in step with HEAD: no staged reversal of a landed commit is
\* left for the next, and nothing else in it has changed.
THEOREM IndexInStep == OnlyRgit => (Spec => []IndexFollowsHead)
<1> SUFFICES ASSUME OnlyRgit PROVE Spec => []IndexFollowsHead
    OBVIOUS
<1>1. Init => NoSnapshot
  BY DEF Init, NoSnapshot
<1>2. Inv /\ NoSnapshot /\ [Next]_vars => NoSnapshot'
  BY NextNoSnapshot DEF Inv, CleanInv
<1>3. Inv /\ NoSnapshot /\ FollowInv /\ [Next]_vars => FollowInv'
  <2> SUFFICES ASSUME Inv, NoSnapshot, FollowInv, [Next]_vars PROVE FollowInv'
      OBVIOUS
  <2>1. CASE UNCHANGED vars
    BY <2>1 DEF vars, FollowInv, Broken, Follows, TouchedBy, Lags, SyncSet, Differ, At, TreeOf
  <2>2. \A p \in Procs : ~Crash(p)
    BY DEF Crash, OnlyRgit, Inv, AloneInv
  <2>3. ~ExternalAdd /\ ~ExternalCommit
    BY DEF ExternalAdd, ExternalCommit, OnlyRgit, Inv, AloneInv
  <2>4. QED
    BY <2>1, <2>2, <2>3, StepFollows DEF Next
<1>4. Inv /\ FollowInv => IndexFollowsHead
  <2> SUFFICES ASSUME Inv, FollowInv, lock = NoProc,
                      \A p \in Procs : landed[p] # 0 => exit[p] \in Succeeded,
                      NEW q \in Paths
               PROVE  At(index, q) = IF q \in Touched THEN At(TreeOf(head), q)
                                                      ELSE At(InitIndex, q)
      BY DEF IndexFollowsHead
  <2>1. \A p \in Procs : pc[p] \notin Pending
    <3>1. \A p \in Procs : ~Holds(p)
      BY SentinelAssumption DEF Inv, CleanInv, LockInv
    <3>2. QED
      BY <3>1, OnlyFacts DEF Holds, Pending
  <2>2. ~Broken
    BY OnlyFacts DEF Broken, Exact, InOrder, Succeeded
  <2>3. Touched = TouchedBy(Procs)
    BY DEF Touched, TouchedBy, TreeOf
  <2>4. QED
    BY <2>1, <2>2, <2>3 DEF FollowInv, Follows
<1>5. QED
  BY <1>1, <1>2, <1>3, <1>4, InitFollow, InvHolds, PTL DEF Spec
=============================================================================
