-------------------------- MODULE RgitCommitProofs --------------------------
(***************************************************************************)
(* Proofs about RgitCommit, for every set of processes, commands, paths    *)
(* and edits, and every bound on crashes and on git outside rgit.          *)
(***************************************************************************)
EXTENDS RgitCommit, TLAPS

-----------------------------------------------------------------------------
(* Trees and the commit sequence. *)

\* Replacing entries of a tree by entries of a tree gives a tree.
LEMMA PutType ==
    ASSUME NEW t \in SUBSET Edits, NEW qs, NEW src \in SUBSET Edits
    PROVE  Put(t, qs, src) \in SUBSET Edits
BY DEF Put

\* The tree and the parent of any commit id, 0 for an unborn branch included.
LEMMA TreeType ==
    ASSUME TypeOK, NEW c \in 0..Len(commits)
    PROVE  TreeOf(c) \in SUBSET Edits /\ ParentOf(c) \in Nat
<1>1. commits \in Seq(Commit)
  BY DEF TypeOK
<1>2. CASE c = 0
  BY <1>2 DEF TreeOf, ParentOf
<1>3. CASE c # 0
  <2>1. commits[c] \in Commit
    BY <1>1, <1>3
  <2>2. QED
    BY <1>3, <2>1 DEF TreeOf, ParentOf, Commit
<1>4. QED
  BY <1>2, <1>3

\* What a plan holds of HEAD's content is edits.
LEMMA PlannedType ==
    ASSUME NEW p
    PROVE  PlannedTree(p) \in SUBSET Edits
BY DEF PlannedTree

\* The entries of an index file are edits; a missing file has none.
LEMMA EntriesType ==
    ASSUME TypeOK, NEW p \in Procs
    PROVE  /\ Entries(p) \in SUBSET Edits
           /\ idx[p] # NoIndex => Entries(p) = idx[p]
           /\ idx[p] = NoIndex => Entries(p) = {}
BY SentinelAssumption DEF TypeOK, Entries, NoIndex

\* A new commit object leaves the earlier ones as they are.
LEMMA AppendCommit ==
    ASSUME TypeOK, NEW c \in Commit, commits' = Append(commits, c)
    PROVE  /\ commits' \in Seq(Commit)
           /\ Len(commits') = Len(commits) + 1
           /\ Len(commits) \in Nat
           /\ commits'[Len(commits) + 1] = c
           /\ \A i \in 1..Len(commits) : commits'[i] = commits[i]
BY DEF TypeOK

-----------------------------------------------------------------------------
(* Type correctness. *)

\* A file is staged into, or committed from, only where it exists.
IndexFileExists ==
    \A p \in Procs :
        /\ cmd[p].mode = "only" /\ pc[p] \notin {"start", "lock", "base", "done", "dead"}
              => idx[p] \in SUBSET Edits
        /\ pc[p] \in {"snap", "seed", "swap"} => cmd[p].mode # "only"
        /\ pc[p] \in {"lock", "base", "check", "sync", "write"} => cmd[p].mode = "only"

TypeInv == TypeOK /\ IndexFileExists

\* The repository and every process start well typed, with nothing staged.
LEMMA InitType == Init => TypeInv
<1> SUFFICES ASSUME Init PROVE TypeInv
    OBVIOUS
<1>1. commits \in Seq(Commit) /\ head \in 0..Len(commits)
  <2>1. CASE commits = << >>
    BY <2>1 DEF Init, Commit
  <2>2. ASSUME NEW t \in SUBSET Edits, commits = <<[tree |-> t, parent |-> 0]>>
        PROVE  commits \in Seq(Commit) /\ head \in 0..Len(commits)
    BY <2>2 DEF Init, Commit
  <2>3. QED
    BY <2>1, <2>2, InitAssumption DEF Init
<1>2. cmd \in [Procs -> Command]
  BY CommandAssumption DEF Init
<1>3. TypeOK
  BY <1>1, <1>2, InitAssumption DEF Init, TypeOK, Phases, Codes, Cleanups
<1>4. IndexFileExists
  BY DEF Init, IndexFileExists
<1>5. QED
  BY <1>3, <1>4 DEF TypeInv

\* A command that returns, whatever its exit status and whatever is left of
\* its index file, leaves typed state.
LEMMA ReturnType ==
    ASSUME TypeInv, NEW p \in Procs, NEW code \in Codes,
           NEW file \in (SUBSET Edits) \cup {NoIndex}, Return(p, code, file),
           index' \in SUBSET Edits,
           todo' \in [Procs -> SUBSET Paths],
           UNCHANGED <<commits, head, procVars, envVars>>
    PROVE  TypeInv'
<1>1. /\ pc' = [pc EXCEPT ![p] = "done"]
      /\ exit' = [exit EXCEPT ![p] = code]
      /\ deferred' = [deferred EXCEPT ![p] = {}]
      /\ lock' \in {lock, NoProc}
  BY DEF Return, Goto, Unlock
<1>2. PICK f \in (SUBSET Edits) \cup {NoIndex} : idx' = [idx EXCEPT ![p] = f]
  BY DEF Return
<1>3. UNCHANGED <<commits, head, cmd, alive, base, planned, snap, on, hooked,
                  landed, external, crashes>>
  BY DEF procVars, envVars
<1>4. TypeOK'
  BY <1>1, <1>2, <1>3 DEF TypeInv, TypeOK, Phases
<1>5. IndexFileExists'
  BY <1>1, <1>2, <1>3 DEF TypeInv, TypeOK, IndexFileExists
<1>6. QED
  BY <1>4, <1>5 DEF TypeInv

LEMMA FinishType ==
    ASSUME TypeInv, NEW p \in Procs, NEW code \in Codes, Finish(p, code),
           index' \in SUBSET Edits,
           todo' \in [Procs -> SUBSET Paths],
           UNCHANGED <<commits, head, procVars, envVars>>
    PROVE  TypeInv'
<1>1. idx[p] \in (SUBSET Edits) \cup {NoIndex}
  BY DEF TypeInv, TypeOK
<1>2. QED
  BY <1>1, ReturnType DEF Finish

\* No step of a process takes a variable out of its type, and a process
\* has an index file to stage into in every phase that uses one.
LEMMA StepType ==
    ASSUME TypeInv, NEW p \in Procs, Step(p)
    PROVE  TypeInv'
<1>0. /\ index \in SUBSET Edits /\ todo \in [Procs -> SUBSET Paths]
      /\ \A r \in Procs : cmd[r] \in Command
  BY DEF TypeInv, TypeOK
<1>1. CASE Start(p)
  <2>1. todo' \in [Procs -> SUBSET Paths]
    <3>1. AnchorFiles(cmd[p]) \in SUBSET Paths
      BY <1>0, PathAssumption DEF AnchorFiles, Command
    <3>2. QED
      BY <1>1, <3>1 DEF Start, TypeInv, TypeOK
  <2>2. CASE ~Valid(cmd[p])
    BY <1>0, <1>1, <2>1, <2>2, FinishType DEF Start, Codes, repoVars
  <2>3. CASE Valid(cmd[p])
    BY <1>1, <2>1, <2>3 DEF Start, Phases, TypeInv, TypeOK, IndexFileExists, Goto, repoVars, procVars, envVars
  <2>4. QED
    BY <2>2, <2>3
<1>2. CASE LockCommits(p)
  BY <1>2 DEF LockCommits, LockRelease, Cleanups, Phases, TypeInv, TypeOK, IndexFileExists, Goto, repoVars, procVars, envVars
<1>3. CASE NewOnlyIndex(p)
  <2>1. TreeOf(head) \in SUBSET Edits
    BY TreeType DEF TypeInv, TypeOK
  <2>2. QED
    BY <1>3, <2>1 DEF NewOnlyIndex, OnlySeed, OnlyRelease, Cleanups, Phases, TypeInv, TypeOK, IndexFileExists, Goto, repoVars, procVars, envVars
<1>4. CASE PlanTargets(p)
  <2>1. cmd[p].mode \in {"only", "plain", "stage"}
    BY <1>0 DEF Command
  <2>2. CASE Finish(p, "refused")
    BY <1>0, <1>4, <2>2, FinishType DEF PlanTargets, Codes, repoVars
  <2>3. CASE Finish(p, "nothing")
    BY <1>0, <1>4, <2>3, FinishType DEF PlanTargets, Codes, repoVars
  <2>4. CASE /\ Goto(p, CASE cmd[p].mode = "only"  -> "add"
                          [] cmd[p].mode = "plain" -> "snap"
                          [] cmd[p].mode = "stage" -> "seed")
             /\ UNCHANGED <<exit, idx, deferred, lock>>
    BY <1>4, <2>1, <2>4 DEF PlanTargets, Phases, TypeInv, TypeOK, IndexFileExists, Goto, repoVars, procVars, envVars
  <2>5. QED
    BY <1>4, <2>2, <2>3, <2>4 DEF PlanTargets
<1>5. CASE SnapshotIndex(p)
  BY <1>5 DEF SnapshotIndex, Phases, TypeInv, TypeOK, IndexFileExists, Goto, repoVars, procVars, envVars
<1>6. CASE NewTempStaging(p)
  <2>1. PICK seed \in (SUBSET Edits) \cup {NoIndex} : idx' = [idx EXCEPT ![p] = seed]
    BY <1>0, <1>6 DEF NewTempStaging, TempSeeds
  <2>2. cmd[p].mode # "only"
    BY <1>6 DEF NewTempStaging, TypeInv, IndexFileExists
  <2>3. QED
    BY <1>6, <2>1, <2>2 DEF NewTempStaging, AbortDeferred, Cleanups, Phases, TypeInv, TypeOK, IndexFileExists, Goto, repoVars, procVars, envVars
<1>7. CASE StageAdd(p)
  <2>1. /\ Added(p) \in (SUBSET Edits) \cup {NoIndex}
        /\ cmd[p].mode = "only" => Added(p) \in SUBSET Edits
    <3>1. Put(Entries(p), cmd[p].paths, Edits) \in SUBSET Edits
      BY EntriesType, PutType DEF TypeInv
    <3>2. idx[p] \in (SUBSET Edits) \cup {NoIndex}
      BY DEF TypeInv, TypeOK
    <3>3. cmd[p].mode = "only" => idx[p] \in SUBSET Edits
      BY <1>7 DEF StageAdd, TypeInv, IndexFileExists
    <3>4. QED
      BY <3>1, <3>2, <3>3 DEF Added
  <2>2. AnchorFiles(cmd[p]) \in SUBSET Paths
    BY <1>0, PathAssumption DEF AnchorFiles, Command
  <2>3. QED
    BY <1>7, <2>1, <2>2 DEF StageAdd, StageIn, Staged, Phases, TypeInv, TypeOK, IndexFileExists, Goto, repoVars, procVars, envVars
<1>8. CASE StageFile(p)
  <2>1. PICK q \in todo[p] :
            /\ StageIn(p, Put(Entries(p), {q}, PlannedTree(p) \cup cmd[p].anchors))
            /\ todo' = [todo EXCEPT ![p] = @ \ {q}]
            /\ Goto(p, IF todo[p] = {q} THEN Staged(p) ELSE "files")
    BY <1>8 DEF StageFile
  <2>2. PlannedTree(p) \cup cmd[p].anchors \in SUBSET Edits
    BY <1>0, PlannedType DEF Command
  <2>3. Put(Entries(p), {q}, PlannedTree(p) \cup cmd[p].anchors) \in SUBSET Edits
    BY <2>2, EntriesType, PutType DEF TypeInv
  <2>4. QED
    BY <1>8, <2>1, <2>3 DEF StageFile, StageIn, Staged, Phases, TypeInv, TypeOK, IndexFileExists, Goto, repoVars, procVars, envVars
<1>9. CASE Swap(p)
  <2>1. index' \in SUBSET Edits
    BY <1>0, <1>9 DEF Swap, Swapped, TypeInv, TypeOK
  <2>2. CASE cmd[p].mode = "stage"
    BY <1>0, <1>9, <2>1, <2>2, ReturnType DEF Swap, Codes
  <2>3. CASE cmd[p].mode # "stage"
    <3>1. /\ pc[p] = "swap" /\ pc' = [pc EXCEPT ![p] = "msg"]
          /\ idx' = [idx EXCEPT ![p] = NoIndex]
          /\ deferred' = [deferred EXCEPT ![p] = @ \ {"abort"}]
          /\ UNCHANGED <<commits, head, lock, cmd, alive, base, planned, todo,
                         snap, on, hooked, landed, exit, external, crashes>>
      BY <1>9, <2>3 DEF Swap, Goto, procVars, envVars
    <3>2. deferred' \in [Procs -> SUBSET Cleanups]
      BY <3>1 DEF TypeInv, TypeOK
    <3>3. TypeOK'
      BY <2>1, <3>1, <3>2 DEF TypeInv, TypeOK, Phases
    <3>4. IndexFileExists'
      BY <3>1 DEF TypeInv, TypeOK, IndexFileExists
    <3>5. QED
      BY <3>3, <3>4 DEF TypeInv
  <2>4. QED
    BY <2>2, <2>3
<1>10. CASE StepFails(p)
  BY <1>0, <1>10, FinishType DEF StepFails, Codes, repoVars
<1>11. CASE CommitOptions(p)
  <2>1. CASE Finish(p, "nomessage")
    BY <1>0, <1>11, <2>1, FinishType DEF CommitOptions, Codes, repoVars
  <2>2. CASE Goto(p, "git") /\ UNCHANGED <<exit, idx, deferred, lock>>
    BY <1>11, <2>2 DEF CommitOptions, Phases, TypeInv, TypeOK, IndexFileExists, Goto, repoVars, procVars, envVars
  <2>3. QED
    BY <1>11, <2>1, <2>2 DEF CommitOptions
<1>12. CASE GitStart(p)
  BY <1>12 DEF GitStart, AfterGit, Phases, TypeInv, TypeOK, IndexFileExists, Goto, repoVars, procVars, envVars
<1>13. CASE Hook(p)
  <2>1. PICK qs \in HookStages :
            /\ hooked' = [hooked EXCEPT ![p] = qs]
            /\ IF cmd[p].mode = "only"
               THEN idx' = [idx EXCEPT ![p] = Put(@, qs, Edits)] /\ UNCHANGED index
               ELSE index' = Put(index, qs, Edits) /\ UNCHANGED idx
    BY <1>13 DEF Hook
  <2>2. qs \in SUBSET Paths
    BY HookAssumption
  <2>3. Put(index, qs, Edits) \in SUBSET Edits
    BY <1>0, PutType
  <2>4. ASSUME cmd[p].mode = "only"
        PROVE  Put(idx[p], qs, Edits) \in SUBSET Edits
    BY <1>13, <2>4, PutType DEF Hook, TypeInv, IndexFileExists
  <2>5. PICK phase \in {"land", "rollback", "dead"} : pc' = [pc EXCEPT ![p] = phase]
    BY <1>13 DEF Hook, AfterGit, Goto
  <2>6. UNCHANGED <<commits, head, lock, cmd, alive, deferred, base, planned,
                    todo, snap, on, landed, exit, external, crashes>>
    BY <1>13 DEF Hook, envVars
  <2>7. index' \in SUBSET Edits
    BY <1>0, <2>1, <2>3
  <2>8. TypeOK'
    <3>1. idx' \in [Procs -> (SUBSET Edits) \cup {NoIndex}]
      BY <2>1, <2>4 DEF TypeInv, TypeOK
    <3>2. hooked' \in [Procs -> SUBSET Paths]
      BY <2>1, <2>2 DEF TypeInv, TypeOK
    <3>3. QED
      BY <2>5, <2>6, <2>7, <3>1, <3>2 DEF TypeInv, TypeOK, Phases
  <2>9. IndexFileExists'
    <3>1. pc[p] = "hook"
      BY <1>13 DEF Hook
    <3>2. QED
      BY <2>1, <2>4, <2>5, <2>6, <3>1 DEF TypeInv, TypeOK, IndexFileExists
  <2>10. QED
    BY <2>8, <2>9 DEF TypeInv
<1>14. CASE GitLands(p)
  <2> DEFINE c == [tree |-> GitIndex(p), parent |-> NewParent(p)]
  <2>1. c \in Commit
    <3>1. GitIndex(p) \in SUBSET Edits
      BY <1>0, <1>14 DEF GitLands, GitIndex, TypeInv, IndexFileExists
    <3>2. NewParent(p) \in Nat
      BY TreeType DEF NewParent, TypeInv, TypeOK
    <3>3. QED
      BY <3>1, <3>2 DEF Commit
  <2>2. commits' = Append(commits, c)
    BY <1>14 DEF GitLands
  <2> HIDE DEF c
  <2>3. /\ commits' \in Seq(Commit) /\ Len(commits') = Len(commits) + 1
        /\ Len(commits) \in Nat
    BY <2>1, <2>2, AppendCommit DEF TypeInv
  <2>4. PICK phase \in {"check", "report", "rollback", "dead"} :
            /\ pc' = [pc EXCEPT ![p] = phase]
            /\ phase = "check" => cmd[p].mode = "only"
    BY <1>14 DEF GitLands, AfterGit, Goto
  <2>5. /\ head' = Len(commits) + 1
        /\ landed' = [landed EXCEPT ![p] = Len(commits) + 1]
        /\ UNCHANGED <<index, lock, cmd, alive, idx, deferred, base, planned,
                       todo, snap, on, hooked, exit, external, crashes>>
    BY <1>14 DEF GitLands, envVars
  <2>6. TypeOK'
    BY <2>3, <2>4, <2>5 DEF TypeInv, TypeOK, Phases
  <2>7. IndexFileExists'
    <3>1. pc[p] = "land"
      BY <1>14 DEF GitLands
    <3>2. QED
      BY <2>4, <2>5, <3>1 DEF TypeInv, TypeOK, IndexFileExists
  <2>8. QED
    BY <2>6, <2>7 DEF TypeInv
<1>15. CASE GitFails(p)
  BY <1>15 DEF GitFails, AfterGit, Phases, TypeInv, TypeOK, IndexFileExists, Goto, repoVars, procVars, envVars
<1>16. CASE Rollback(p)
  <2>1. index' \in SUBSET Edits
    BY <1>0, <1>16 DEF Rollback, Restored, TypeInv, TypeOK
  <2>2. QED
    BY <1>0, <1>16, <2>1, FinishType DEF Rollback, Codes
<1>17. CASE CheckParent(p)
  <2>1. CASE HeadMoved(p)
    BY <1>0, <1>17, <2>1, FinishType DEF CheckParent, Codes, repoVars
  <2>2. CASE ~HeadMoved(p)
    BY <1>17, <2>2 DEF CheckParent, Phases, TypeInv, TypeOK, IndexFileExists, Goto, repoVars, procVars, envVars
  <2>3. QED
    BY <2>1, <2>2
<1>18. CASE SyncRead(p)
  <2>1. SyncSet(p) \in SUBSET Paths
    BY DEF SyncSet, Differ
  <2>2. QED
    BY <1>18, <2>1 DEF SyncRead, Phases, TypeInv, TypeOK, IndexFileExists, Goto, repoVars, procVars, envVars
<1>19. CASE SyncWrite(p)
  <2>1. pc[p] = "write" /\ pc' = [pc EXCEPT ![p] = "report"]
    BY <1>19 DEF SyncWrite, Goto
  <2>2. idx[p] \in SUBSET Edits
    BY <2>1 DEF TypeInv, IndexFileExists
  <2>3. index' \in SUBSET Edits
    BY <1>0, <1>19, <2>2, PutType DEF SyncWrite
  <2>4. QED
    BY <1>19, <2>3 DEF SyncWrite, Phases, TypeInv, TypeOK, IndexFileExists, Goto, repoVars, procVars, envVars
<1>20. CASE Report(p)
  BY <1>0, <1>20, FinishType DEF Report, Codes, repoVars
<1>21. CASE PlanFile(p)
  <2>1. PICK q \in todo[p] :
            /\ planned' = [planned EXCEPT ![p][q] = head]
            /\ todo' = [todo EXCEPT ![p] = @ \ {q}]
    BY <1>21 DEF PlanFile
  <2>2. planned' \in [Procs -> [Paths -> 0..Len(commits)]]
    <3>1. planned[p] \in [Paths -> 0..Len(commits)] /\ head \in 0..Len(commits)
      BY DEF TypeInv, TypeOK
    <3>2. [planned[p] EXCEPT ![q] = head] \in [Paths -> 0..Len(commits)]
      BY <3>1
    <3>3. planned' = [planned EXCEPT ![p] = [planned[p] EXCEPT ![q] = head]]
      BY <2>1
    <3>4. QED
      BY <3>2, <3>3 DEF TypeInv, TypeOK
  <2>3. todo' \in [Procs -> SUBSET Paths]
    BY <1>0, <2>1
  <2>4. UNCHANGED <<commits, head, index, lock, cmd, pc, alive, idx, deferred,
                    base, snap, on, hooked, landed, exit, external, crashes>>
    BY <1>21 DEF PlanFile, repoVars, envVars
  <2>5. TypeOK' /\ IndexFileExists'
    BY <2>2, <2>3, <2>4 DEF TypeInv, TypeOK, IndexFileExists
  <2>6. QED
    BY <2>5 DEF TypeInv
<1>22. CASE SeedFails(p)
  BY <1>0, <1>22, ReturnType DEF SeedFails, Discarded, Codes, repoVars
<1>23. QED
  BY <1>1, <1>2, <1>3, <1>4, <1>5, <1>6, <1>7, <1>8, <1>9, <1>10, <1>11, <1>12,
     <1>13, <1>14, <1>15, <1>16, <1>17, <1>18, <1>19, <1>20, <1>21, <1>22
     DEF Step, Advance

\* A killed process's state keeps its type: its index file stays on disk, and
\* its git may go on in "git", "hook" or "land".
LEMMA CrashType ==
    ASSUME TypeInv, NEW p \in Procs, Crash(p)
    PROVE  TypeInv'
<1>1. /\ pc' = pc \/ pc' = [pc EXCEPT ![p] = "dead"]
      /\ alive' = [alive EXCEPT ![p] = FALSE]
      /\ lock' = IF lock = p THEN NoProc ELSE lock
      /\ crashes' = crashes + 1
      /\ UNCHANGED <<commits, head, index, cmd, idx, deferred, base, planned,
                     todo, snap, on, hooked, landed, exit, external>>
  BY DEF Crash, Goto, KernelUnlock, Unlock, repoVars
<1>2. TypeOK'
  <2>1. pc' \in [Procs -> Phases] /\ alive' \in [Procs -> BOOLEAN]
    BY <1>1 DEF TypeInv, TypeOK, Phases
  <2>2. QED
    BY <1>1, <2>1 DEF TypeInv, TypeOK
<1>3. IndexFileExists'
  BY <1>1 DEF TypeInv, TypeOK, IndexFileExists
<1>4. QED
  BY <1>2, <1>3 DEF TypeInv

\* git run outside rgit leaves typed state.
LEMMA ExternalType ==
    ASSUME TypeInv, ExternalAdd \/ ExternalCommit
    PROVE  TypeInv'
<1>0. index \in SUBSET Edits /\ TreeOf(head) \in SUBSET Edits
  BY TreeType DEF TypeInv, TypeOK
<1>1. /\ index' \in SUBSET Edits
      /\ external' = external + 1
      /\ UNCHANGED <<lock, cmd, pc, alive, idx, deferred, base, planned, todo,
                     snap, on, hooked, landed, exit, crashes>>
  BY <1>0, PutType DEF ExternalAdd, ExternalCommit
<1>2. /\ commits' \in Seq(Commit) /\ head' \in 0..Len(commits')
      /\ Len(commits) \in Nat
      /\ Len(commits') \in Nat /\ Len(commits') >= Len(commits)
  <2>1. CASE ExternalAdd
    BY <2>1 DEF ExternalAdd, TypeInv, TypeOK
  <2>2. CASE ExternalCommit
    <3>1. PICK q \in Paths :
              commits' = Append(commits, [tree |-> Put(TreeOf(head), {q}, Edits),
                                          parent |-> head])
      BY <2>2 DEF ExternalCommit
    <3>2. [tree |-> Put(TreeOf(head), {q}, Edits), parent |-> head] \in Commit
      BY <1>0, PutType DEF Commit, TypeInv, TypeOK
    <3>3. head' = Len(commits) + 1
      BY <2>2 DEF ExternalCommit
    <3>4. QED
      BY <3>1, <3>2, <3>3, AppendCommit DEF TypeInv
  <2>3. QED
    BY <2>1, <2>2
<1>3. TypeOK'
  BY <1>1, <1>2 DEF TypeInv, TypeOK
<1>4. IndexFileExists'
  BY <1>1 DEF TypeInv, IndexFileExists
<1>5. QED
  BY <1>3, <1>4 DEF TypeInv

\* Neither do crashes and git run from outside.
LEMMA NextType ==
    ASSUME TypeInv, [Next]_vars
    PROVE  TypeInv'
<1>1. CASE UNCHANGED vars
  BY <1>1 DEF vars, TypeInv, TypeOK, IndexFileExists
<1>2. CASE Next
  BY <1>2, StepType, CrashType, ExternalType DEF Next
<1>3. QED
  BY <1>1, <1>2

\* Type correctness: every variable keeps the type of the Go value or file it
\* stands for, and the private index exists wherever it is written, hooked,
\* committed from or synced from.
THEOREM TypeInvariant == Spec => []TypeInv
<1>1. Init => TypeInv
  BY InitType
<1>2. TypeInv /\ [Next]_vars => TypeInv'
  BY NextType
<1>3. QED
  BY <1>1, <1>2, PTL DEF Spec

\* The type invariant the runs check, for every instance.
THEOREM TypeCorrect == Spec => []TypeOK
<1>1. TypeInv => TypeOK
  BY DEF TypeInv
<1>2. QED
  BY <1>1, TypeInvariant, PTL

-----------------------------------------------------------------------------
(* The lock. *)

\* What every step of a process does to the phases, the lock and the index
\* files: it returns and cleans up, or takes the free lock, or moves on with
\* the lock as it was.
Returns(p) ==
    /\ pc'[p] = "done"
    /\ idx'[p] = NoIndex
    /\ lock' = IF lock = p THEN NoProc ELSE lock

Acquires(p) ==
    /\ pc[p] = "lock" /\ pc'[p] = "base"
    /\ lock = NoProc /\ lock' = p

MovesOn(p) ==
    /\ pc[p] # "lock" /\ pc'[p] # "done"
    /\ lock' = lock
    /\ pc'[p] \in {"start", "lock"} <=> pc[p] = "start" /\ cmd[p].mode = "only"

\* Only git's phases outlive a killed rgit.
Killed == \A p \in Procs : alive[p] \/ pc[p] \in {"git", "hook", "land", "dead"}

\* What a live command has made so far, its return will clean up.
ArmedAt(p) ==
    alive[p] /\ pc[p] # "done" =>
        /\ idx[p] # NoIndex => deferred[p] \cap {"close", "abort"} # {}
        /\ lock = p => "unlock" \in deferred[p]
        /\ pc[p] \in {"start", "lock"} => idx[p] = NoIndex
        /\ pc[p] \in {"add", "files"} => deferred[p] \cap {"close", "abort"} # {}

Armed == \A p \in Procs : ArmedAt(p)

\* Where everything made is deferred, a return leaves nothing, whichever file
\* it leaves to the deferred cleanups.
LEMMA ReturnsArmed ==
    ASSUME TypeInv, NEW p \in Procs, ArmedAt(p), alive[p], pc[p] # "done",
           NEW code, NEW file, file \in {idx[p], NoIndex}, Return(p, code, file)
    PROVE  /\ Returns(p) /\ ArmedAt(p)'
           /\ \A r \in Procs \ {p} : /\ pc'[r] = pc[r] /\ idx'[r] = idx[r]
                                     /\ deferred'[r] = deferred[r]
<1>1. idx'[p] = NoIndex
  BY DEF Return, ArmedAt, TypeInv, TypeOK
<1>2. lock' = IF lock = p THEN NoProc ELSE lock
  BY DEF Return, Unlock, ArmedAt
<1>3. pc'[p] = "done" /\ \A r \in Procs \ {p} : pc'[r] = pc[r]
  BY DEF Return, Goto, TypeInv, TypeOK
<1>4. \A r \in Procs \ {p} : idx'[r] = idx[r] /\ deferred'[r] = deferred[r]
  BY DEF Return, TypeInv, TypeOK
<1>5. QED
  BY <1>1, <1>2, <1>3, <1>4 DEF Returns, ArmedAt

\* Every return of the command removes its index file and frees its lock.
LEMMA FinishReturns ==
    ASSUME TypeInv, NEW p \in Procs, ArmedAt(p), alive[p], pc[p] # "done",
           NEW code, Finish(p, code)
    PROVE  /\ Returns(p) /\ ArmedAt(p)'
           /\ \A r \in Procs \ {p} : /\ pc'[r] = pc[r] /\ idx'[r] = idx[r]
                                     /\ deferred'[r] = deferred[r]
BY ReturnsArmed DEF Finish

\* A step of p leaves other processes' phases alone and keeps p inside the
\* phases of its mode, with the lock where that phase has it, and with the
\* cleanup of what it has made deferred.
LEMMA StepShape ==
    ASSUME TypeInv, Killed, Armed, NEW p \in Procs, Step(p)
    PROVE  /\ Returns(p) \/ Acquires(p) \/ MovesOn(p)
           /\ ArmedAt(p)'
           /\ \A r \in Procs \ {p} : /\ pc'[r] = pc[r] /\ idx'[r] = idx[r]
                                     /\ deferred'[r] = deferred[r]
           /\ UNCHANGED <<cmd, alive>>
           /\ pc[p] \in {"git", "hook", "land"} /\ ~alive[p]
                => pc'[p] \in {"hook", "land", "dead"}
           /\ pc[p] \notin {"done", "dead"}
<1>0. /\ pc \in [Procs -> Phases] /\ idx = [r \in Procs |-> idx[r]]
      /\ deferred = [r \in Procs |-> deferred[r]]
      /\ cmd[p].mode \in {"only", "plain", "stage"}
      /\ ArmedAt(p)
      /\ pc[p] \notin {"git", "hook", "land", "dead"} => alive[p]
  BY DEF TypeInv, TypeOK, Command, Killed, Armed
<1>a. pc[p] \in {"plan", "hook"} /\ cmd[p].mode = "only" => idx[p] # NoIndex
  BY SentinelAssumption DEF TypeInv, IndexFileExists, NoIndex
<1>1. CASE Start(p)
  <2>1. CASE ~Valid(cmd[p])
    BY <1>0, <1>1, <2>1, FinishReturns DEF Start, procVars
  <2>2. CASE Valid(cmd[p])
    BY <1>0, <1>1, <2>2 DEF Start, Goto, MovesOn, ArmedAt, procVars
  <2>3. QED
    BY <2>1, <2>2
<1>2. CASE LockCommits(p)
  BY <1>0, <1>2 DEF LockCommits, LockRelease, Goto, Acquires, LockFree, ArmedAt, procVars
<1>3. CASE NewOnlyIndex(p)
  BY <1>0, <1>3 DEF NewOnlyIndex, OnlyRelease, Goto, MovesOn, ArmedAt
<1>4. CASE PlanTargets(p)
  <2>1. CASE Finish(p, "refused") \/ Finish(p, "nothing")
    BY <1>0, <1>4, <2>1, FinishReturns DEF PlanTargets, procVars
  <2>2. CASE /\ Goto(p, CASE cmd[p].mode = "only"  -> "add"
                          [] cmd[p].mode = "plain" -> "snap"
                          [] cmd[p].mode = "stage" -> "seed")
             /\ UNCHANGED <<exit, idx, deferred, lock>>
    BY <1>0, <1>a, <1>4, <2>2 DEF PlanTargets, Goto, MovesOn, ArmedAt, procVars
  <2>3. QED
    BY <1>4, <2>1, <2>2 DEF PlanTargets
<1>5. CASE SnapshotIndex(p)
  BY <1>0, <1>5 DEF SnapshotIndex, Goto, MovesOn, ArmedAt
<1>6. CASE NewTempStaging(p)
  BY <1>0, <1>6 DEF NewTempStaging, AbortDeferred, Goto, MovesOn, ArmedAt, procVars
<1>7. CASE StageAdd(p)
  BY <1>0, <1>7 DEF StageAdd, StageIn, Staged, Goto, MovesOn, ArmedAt, procVars
<1>8. CASE StageFile(p)
  BY <1>0, <1>8 DEF StageFile, StageIn, Staged, Goto, MovesOn, ArmedAt, procVars
<1>9. CASE Swap(p)
  <2>1. CASE cmd[p].mode = "stage"
    BY <1>0, <1>9, <2>1, ReturnsArmed DEF Swap, procVars
  <2>2. CASE cmd[p].mode # "stage"
    BY <1>0, <1>9, <2>2 DEF Swap, Goto, MovesOn, ArmedAt, procVars
  <2>3. QED
    BY <2>1, <2>2
<1>10. CASE StepFails(p)
  BY <1>0, <1>10, FinishReturns DEF StepFails, procVars
<1>11. CASE CommitOptions(p)
  <2>1. CASE Finish(p, "nomessage")
    BY <1>0, <1>11, <2>1, FinishReturns DEF CommitOptions, procVars
  <2>2. CASE Goto(p, "git") /\ UNCHANGED <<exit, idx, deferred, lock>>
    BY <1>0, <1>11, <2>2 DEF CommitOptions, Goto, MovesOn, ArmedAt, procVars
  <2>3. QED
    BY <1>11, <2>1, <2>2 DEF CommitOptions
<1>12. CASE GitStart(p)
  BY <1>0, <1>12 DEF GitStart, AfterGit, Goto, MovesOn, ArmedAt
<1>13. CASE Hook(p)
  <2>1. \A r \in Procs \ {p} : idx'[r] = idx[r]
    BY <1>0, <1>13 DEF Hook
  <2>2. ArmedAt(p)'
    <3>1. /\ pc[p] = "hook" /\ UNCHANGED <<alive, lock, deferred>>
          /\ pc'[p] \notin {"start", "lock", "add", "files"}
          /\ idx'[p] = idx[p] \/ cmd[p].mode = "only"
      BY <1>0, <1>13 DEF Hook, AfterGit, Goto
    <3>2. QED
      BY <1>0, <1>a, <3>1 DEF ArmedAt
  <2>3. QED
    BY <1>0, <1>13, <2>1, <2>2 DEF Hook, AfterGit, Goto, MovesOn
<1>14. CASE GitLands(p)
  <2>1. /\ pc[p] = "land" /\ UNCHANGED <<cmd, alive, idx, deferred, lock>>
        /\ \/ AfterGit(p, IF cmd[p].mode = "only" THEN "check" ELSE "report")
           \/ AfterGit(p, "rollback")
    BY <1>14 DEF GitLands
  <2>2. QED
    BY <1>0, <2>1 DEF AfterGit, Goto, MovesOn, ArmedAt
<1>15. CASE GitFails(p)
  BY <1>0, <1>15 DEF GitFails, AfterGit, Goto, MovesOn, ArmedAt, procVars
<1>16. CASE Rollback(p)
  BY <1>0, <1>16, FinishReturns DEF Rollback, procVars
<1>17. CASE CheckParent(p)
  <2>1. CASE HeadMoved(p)
    BY <1>0, <1>17, <2>1, FinishReturns DEF CheckParent, procVars
  <2>2. CASE ~HeadMoved(p)
    BY <1>0, <1>17, <2>2 DEF CheckParent, Goto, MovesOn, ArmedAt, procVars
  <2>3. QED
    BY <2>1, <2>2
<1>18. CASE SyncRead(p)
  BY <1>0, <1>18 DEF SyncRead, Goto, MovesOn, ArmedAt, procVars
<1>19. CASE SyncWrite(p)
  BY <1>0, <1>19 DEF SyncWrite, Goto, MovesOn, ArmedAt, procVars
<1>20. CASE Report(p)
  BY <1>0, <1>20, FinishReturns DEF Report, procVars
<1>21. CASE PlanFile(p)
  BY <1>0, <1>21 DEF PlanFile, MovesOn, ArmedAt
<1>22. CASE SeedFails(p)
  BY <1>0, <1>22, ReturnsArmed DEF SeedFails, Discarded, procVars
<1>23. QED
  BY <1>1, <1>2, <1>3, <1>4, <1>5, <1>6, <1>7, <1>8, <1>9, <1>10, <1>11, <1>12,
     <1>13, <1>14, <1>15, <1>16, <1>17, <1>18, <1>19, <1>20, <1>21, <1>22
     DEF Step, Advance

CleanInv == TypeInv /\ Killed /\ Armed /\ LockInv /\ NothingLeftBehind

\* Nobody holds the lock at the start.
LEMMA InitClean == Init => CleanInv
<1> SUFFICES ASSUME Init PROVE CleanInv
    OBVIOUS
<1>1. Killed /\ Armed /\ LockInv /\ NothingLeftBehind
  BY SentinelAssumption DEF Init, Killed, Armed, ArmedAt, LockInv, Holds, NothingLeftBehind
<1>2. QED
  BY <1>1, InitType DEF CleanInv

\* A step of a process keeps the lock with the one --only commit under way.
LEMMA StepClean ==
    ASSUME CleanInv, NEW p \in Procs, Step(p)
    PROVE  Killed' /\ Armed' /\ LockInv' /\ NothingLeftBehind'
<1>0. /\ Returns(p) \/ Acquires(p) \/ MovesOn(p)
      /\ ArmedAt(p)'
      /\ \A r \in Procs \ {p} : /\ pc'[r] = pc[r] /\ idx'[r] = idx[r]
                                /\ deferred'[r] = deferred[r]
      /\ UNCHANGED <<cmd, alive>>
      /\ pc[p] \in {"git", "hook", "land"} /\ ~alive[p]
            => pc'[p] \in {"hook", "land", "dead"}
      /\ pc[p] \notin {"done", "dead"}
  BY StepShape DEF CleanInv
<1>1. Killed' /\ Armed'
  <2>1. Killed'
    BY <1>0 DEF CleanInv, Killed
  <2>2. lock' \in {lock, NoProc, p}
    BY <1>0 DEF Returns, Acquires, MovesOn
  <2>3. ASSUME NEW r \in Procs \ {p} PROVE ArmedAt(r)'
    <3>1. ArmedAt(r)
      BY DEF CleanInv, Armed
    <3>2. QED
      BY <1>0, <2>2, <3>1, SentinelAssumption DEF ArmedAt
  <2>4. QED
    BY <1>0, <2>1, <2>3 DEF Armed
<1>2. \A r \in Procs : Holds(r) <=> lock = r
  BY DEF CleanInv, LockInv
<1>3. \A r \in Procs \ {p} : Holds(r)' <=> Holds(r)
  BY <1>0 DEF Holds
<1>4. pc[p] \in {"lock", "base"} => cmd[p].mode = "only"
  BY DEF CleanInv, TypeInv, IndexFileExists
<1>5. alive[p] \/ pc[p] \in {"git", "hook", "land", "dead"}
  BY DEF CleanInv, Killed
<1>6. CASE Returns(p)
  <2>1. ~Holds(p)' /\ lock' # p
    BY <1>6, SentinelAssumption DEF Returns, Holds
  <2>2. \A r \in Procs : Holds(r)' <=> lock' = r
    BY <1>2, <1>3, <1>6, <2>1, SentinelAssumption DEF Returns
  <2>3. QED
    BY <1>0, <1>1, <1>6, <2>1, <2>2, SentinelAssumption DEF Returns, LockInv, NothingLeftBehind, CleanInv
<1>7. CASE Acquires(p)
  <2>1. Holds(p)'
    BY <1>0, <1>4, <1>5, <1>7 DEF Acquires, Holds
  <2>2. \A r \in Procs : Holds(r)' <=> lock' = r
    BY <1>2, <1>3, <1>7, <2>1, SentinelAssumption DEF Acquires
  <2>3. QED
    BY <1>0, <1>1, <1>7, <2>2 DEF Acquires, LockInv, NothingLeftBehind, CleanInv
<1>8. CASE MovesOn(p)
  <2>1. Holds(p)' <=> Holds(p)
    BY <1>0, <1>8 DEF MovesOn, Holds
  <2>2. \A r \in Procs : Holds(r)' <=> lock' = r
    BY <1>2, <1>3, <1>8, <2>1 DEF MovesOn
  <2>3. QED
    BY <1>0, <1>1, <1>8, <2>2 DEF MovesOn, LockInv, NothingLeftBehind, CleanInv
<1>9. QED
  BY <1>0, <1>6, <1>7, <1>8

\* A killed holder's lock is dropped by the kernel, so the next one may go.
LEMMA CrashClean ==
    ASSUME CleanInv, NEW p \in Procs, Crash(p)
    PROVE  Killed' /\ Armed' /\ LockInv' /\ NothingLeftBehind'
<1>1. /\ pc[p] # "done" /\ alive[p]
      /\ \/ pc' = pc /\ pc[p] \in {"git", "hook", "land"}
         \/ pc' = [pc EXCEPT ![p] = "dead"]
      /\ alive' = [alive EXCEPT ![p] = FALSE]
      /\ lock' = IF lock = p THEN NoProc ELSE lock
      /\ UNCHANGED <<cmd, idx, deferred>>
  BY DEF Crash, Goto, KernelUnlock, Unlock
<1>2. pc \in [Procs -> Phases] /\ alive \in [Procs -> BOOLEAN]
  BY DEF CleanInv, TypeInv, TypeOK
<1>3. /\ ~alive'[p] /\ pc'[p] \in {"git", "hook", "land", "dead"}
      /\ \A r \in Procs \ {p} : pc'[r] = pc[r] /\ alive'[r] = alive[r]
  BY <1>1, <1>2
<1>4. Killed' /\ Armed'
  <2>1. Killed'
    BY <1>3 DEF CleanInv, Killed
  <2>2. ASSUME NEW r \in Procs PROVE ArmedAt(r)'
    <3>1. ArmedAt(r)
      BY DEF CleanInv, Armed
    <3>2. QED
      BY <1>1, <1>3, <3>1, SentinelAssumption DEF ArmedAt
  <2>3. QED
    BY <2>1, <2>2 DEF Armed
<1>5. \A r \in Procs : Holds(r)' <=> lock' = r
  <2>1. \A r \in Procs : Holds(r) <=> lock = r
    BY DEF CleanInv, LockInv
  <2>2. ~Holds(p)' /\ \A r \in Procs \ {p} : Holds(r)' <=> Holds(r)
    BY <1>1, <1>3 DEF Holds
  <2>3. QED
    BY <1>1, <2>1, <2>2, SentinelAssumption
<1>6. LockInv'
  BY <1>5 DEF LockInv
<1>7. NothingLeftBehind'
  BY <1>1, <1>3, SentinelAssumption DEF CleanInv, NothingLeftBehind
<1>8. QED
  BY <1>4, <1>6, <1>7

\* So do crashes, which free the lock, and git run from outside.
LEMMA NextClean ==
    ASSUME CleanInv, [Next]_vars
    PROVE  CleanInv'
<1>1. TypeInv'
  BY NextType DEF CleanInv
<1>2. CASE UNCHANGED <<lock, cmd, pc, alive, idx, deferred>>
  BY <1>1, <1>2 DEF CleanInv, Killed, Armed, ArmedAt, LockInv, Holds, NothingLeftBehind
<1>3. CASE UNCHANGED vars \/ ExternalAdd \/ ExternalCommit
  BY <1>2, <1>3 DEF vars, ExternalAdd, ExternalCommit
<1>4. ASSUME NEW p \in Procs, Step(p) PROVE CleanInv'
  BY <1>1, <1>4, StepClean DEF CleanInv
<1>5. ASSUME NEW p \in Procs, Crash(p) PROVE CleanInv'
  BY <1>1, <1>5, CrashClean DEF CleanInv
<1>6. QED
  BY <1>3, <1>4, <1>5 DEF Next

\* The invariant of this module holds in every reachable state, for any
\* processes, commands, paths, edits and bounds.
THEOREM CleanInvariant == Spec => []CleanInv
<1>1. Init => CleanInv
  BY InitClean
<1>2. CleanInv /\ [Next]_vars => CleanInv'
  BY NextClean
<1>3. QED
  BY <1>1, <1>2, PTL DEF Spec

\* Two --only commits of one checkout never overlap, for any number of
\* processes, killed ones included.
THEOREM MutualExclusion == Spec => []LockInv
<1>1. CleanInv => LockInv
  BY DEF CleanInv
<1>2. QED
  BY <1>1, CleanInvariant, PTL

\* Every return of runCommit has removed its index file and freed the lock:
\* release is replaced on the way and Apply's abort is armed and disarmed, and
\* on each path what is deferred covers what has been made (Armed).
THEOREM ReturnsClean == Spec => []NothingLeftBehind
<1>1. CleanInv => NothingLeftBehind
  BY DEF CleanInv
<1>2. QED
  BY <1>1, CleanInvariant, PTL
=============================================================================
