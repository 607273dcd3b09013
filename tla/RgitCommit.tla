----------------------------- MODULE RgitCommit -----------------------------
(***************************************************************************)
(* `rgit commit` run by several processes in one checkout, next to git     *)
(* itself and to the hooks git runs (internal/app/commit.go,               *)
(* internal/synth/stage.go, internal/gitx/gitx.go).                        *)
(*                                                                         *)
(* Content is abstracted to edits.  An edit is one changed symbol of one   *)
(* file; a tree, an index file or the worktree is the set of edits it      *)
(* contains, and its entry for path q is the subset of edits in q.  The    *)
(* worktree holds every edit.  Naming an anchor stages HEAD's content of   *)
(* the file plus the named edits; naming a path stages the worktree's.     *)
(*                                                                         *)
(* A process runs one command and walks through the phases of runCommit:   *)
(*                                                                         *)
(*   only:   lock base plan .... .... add files .... msg git hook land     *)
(*           check sync write report                                       *)
(*   plain:  .... .... plan snap seed add files swap msg git hook land     *)
(*           rollback / report                                             *)
(*   stage:  .... .... plan .... seed add files swap                       *)
(***************************************************************************)
EXTENDS Integers, Sequences, FiniteSets

CONSTANTS
    Procs,        \* rgit processes, one command each
    Commands,     \* the command lines they may have been given
    Paths,        \* repository paths
    Edits,        \* changed symbols in the worktree
    PathOf,       \* the file each edit is in
    Histories,    \* branches at the start: << >> (unborn) or one commit
    InitIndex,    \* the shared index at the start: other people's staged work
    HookStages,   \* what a pre-commit hook may `git add`: sets of paths
    MaxExternal,  \* bound on the steps of git run outside rgit
    MaxCrashes,   \* bound on killed rgit processes
    NoProc, NoEdit

Commit == [tree : SUBSET Edits, parent : Nat]

Command == [mode : {"only", "plain", "stage"}, amend : BOOLEAN,
            allowEmpty : BOOLEAN, push : BOOLEAN,
            paths : SUBSET Paths, anchors : SUBSET Edits]

ASSUME CommandAssumption  == Commands \subseteq Command
ASSUME PathAssumption     == PathOf \in [Edits -> Paths]
ASSUME InitAssumption     == /\ \A h \in Histories :
                                   \/ h = << >>
                                   \/ \E t \in SUBSET Edits :
                                        h = <<[tree |-> t, parent |-> 0]>>
                             /\ InitIndex \in SUBSET Edits
ASSUME HookAssumption     == {} \in HookStages /\ HookStages \subseteq SUBSET Paths
ASSUME BoundAssumption    == MaxExternal \in Nat /\ MaxCrashes \in Nat
ASSUME SentinelAssumption == NoProc \notin Procs /\ NoEdit \notin Edits

VARIABLES
    commits,   \* every commit object made, in order; its position is its id
    head,      \* id of the commit HEAD names, 0 on an unborn branch
    index,     \* the shared index file
    lock,      \* holder of <gitdir>/rgit-commit.lock
    cmd,       \* p -> its command
    pc,        \* p -> the phase it is in
    alive,     \* p -> its rgit process has not been killed
    idx,       \* p -> the index file it stages into: OnlyIndex or temp copy
    deferred,  \* p -> the cleanups that run when its command returns
    base,      \* p -> OnlyIndex.BaseCommit
    planned,   \* p -> path -> id of the HEAD that file's anchors were
               \*   synthesized on
    todo,      \* p -> paths still to plan, or to write, in its phase
    snap,      \* p -> IndexSnapshot
    on,        \* p -> HEAD as its `git commit` read it when it started
    hooked,    \* p -> paths the pre-commit hook staged
    landed,    \* p -> id of the commit it made, 0 if none
    exit,      \* p -> exit status
    external,  \* steps of git outside rgit so far
    crashes    \* killed processes so far

\* An index file or a snapshot that does not exist
NoIndex == {NoEdit}

repoVars == <<commits, head, index>>
procVars == <<cmd, alive, base, planned, snap, on, hooked, landed>>
envVars  == <<external, crashes>>
vars == <<commits, head, index, lock, cmd, pc, alive, idx, deferred, base,
          planned, todo, snap, on, hooked, landed, exit, external, crashes>>

Phases == {"start", "lock", "base", "plan", "snap", "seed", "add", "files",
           "swap", "msg", "git", "hook", "land", "rollback", "check", "sync",
           "write", "report", "done", "dead"}

Codes == {"none", "ok", "push", "usage", "nothing", "refused", "fatal",
          "nomessage", "unrestored"}

Succeeded == {"ok", "push"}

\* unlock, OnlyIndex.Close and tempStaging.abort
Cleanups == {"unlock", "close", "abort"}

-----------------------------------------------------------------------------
(* Trees and index files. *)

At(t, q) == {e \in t : PathOf[e] = q}

\* t with its entries for the paths in qs replaced by src's
Put(t, qs, src) == {e \in t : PathOf[e] \notin qs} \cup {e \in src : PathOf[e] \in qs}

Differ(s, t) == {q \in Paths : At(s, q) # At(t, q)}

TreeOf(c)   == IF c = 0 THEN {} ELSE commits[c].tree
ParentOf(c) == IF c = 0 THEN 0 ELSE commits[c].parent

AnchorFiles(c) == {PathOf[e] : e \in c.anchors}
HasTargets(c)  == c.paths # {} \/ c.anchors # {}

\* HEAD's content of p's anchor files, each as it was read for the plan
PlannedTree(p) ==
    {e \in Edits : /\ PathOf[e] \in AnchorFiles(cmd[p])
                   /\ e \in TreeOf(planned[p][PathOf[e]])}

\* The index file p's `git commit` reads and its hook stages into
GitIndex(p) == IF cmd[p].mode = "only" THEN idx[p] ELSE index

-----------------------------------------------------------------------------
Init ==
    /\ commits \in Histories
    /\ head = Len(commits)
    /\ index = InitIndex
    /\ lock = NoProc
    /\ cmd \in [Procs -> Commands]
    /\ pc = [p \in Procs |-> "start"]
    /\ alive = [p \in Procs |-> TRUE]
    /\ idx = [p \in Procs |-> NoIndex]
    /\ deferred = [p \in Procs |-> {}]
    /\ base = [p \in Procs |-> 0]
    /\ planned = [p \in Procs |-> [q \in Paths |-> 0]]
    /\ todo = [p \in Procs |-> {}]
    /\ snap = [p \in Procs |-> NoIndex]
    /\ on = [p \in Procs |-> 0]
    /\ hooked = [p \in Procs |-> {}]
    /\ landed = [p \in Procs |-> 0]
    /\ exit = [p \in Procs |-> "none"]
    /\ external = 0
    /\ crashes = 0

Goto(p, phase) == pc' = [pc EXCEPT ![p] = phase]

\* Closing the descriptor of rgit-commit.lock drops the lock
Unlock(p) == lock' = IF lock = p THEN NoProc ELSE lock

\* The command returns with this exit status and, on disk, this index file of
\* its own.  What was deferred on the way here runs, and nothing else: Close
\* and abort remove the file, unlock closes the lock file.
Return(p, code, file) ==
    /\ Goto(p, "done")
    /\ exit' = [exit EXCEPT ![p] = code]
    /\ idx' = [idx EXCEPT ![p] =
                 IF deferred[p] \cap {"close", "abort"} # {} THEN NoIndex ELSE file]
    /\ IF "unlock" \in deferred[p] THEN Unlock(p) ELSE UNCHANGED lock
    /\ deferred' = [deferred EXCEPT ![p] = {}]

Finish(p, code) == Return(p, code, idx[p])

\* git's side of p is over; a killed rgit does not carry on.
AfterGit(p, phase) == Goto(p, IF alive[p] THEN phase ELSE "dead")

-----------------------------------------------------------------------------
(* Before anything is staged. *)

\* validateFlags and validateTargetCount
Valid(c) ==
    /\ c.mode = "stage" => ~c.amend /\ ~c.allowEmpty /\ ~c.push
    /\ ~HasTargets(c) => /\ c.mode = "only" => c.amend
                         /\ c.mode = "plain" => c.amend \/ c.allowEmpty
                         /\ c.mode # "stage"

Start(p) ==
    /\ pc[p] = "start"
    /\ IF ~Valid(cmd[p]) THEN Finish(p, "usage")
       ELSE /\ Goto(p, IF cmd[p].mode = "only" THEN "lock"
                       ELSE IF HasTargets(cmd[p]) THEN "plan" ELSE "msg")
            /\ UNCHANGED <<exit, idx, deferred, lock>>
    /\ todo' = [todo EXCEPT ![p] = AnchorFiles(cmd[p])]
    /\ UNCHANGED <<repoVars, procVars, envVars>>

\* Mutant: a non-blocking flock whose EWOULDBLOCK is ignored
LockIgnored(p) == TRUE

\* lockFile: flock blocks until the holder closes the file
LockFree(p) == lock = NoProc

\* Mutant: release stays the empty function once the lock is taken
NoRelease(p) == {}

\* acquireOnlyIndex: release = unlock
LockRelease(p) == {"unlock"}

LockCommits(p) ==
    /\ pc[p] = "lock"
    /\ LockFree(p)
    /\ lock' = p
    /\ deferred' = [deferred EXCEPT ![p] = LockRelease(p)]
    /\ Goto(p, "base")
    /\ UNCHANGED <<repoVars, procVars, idx, todo, exit, envVars>>

\* Mutant: the private index is a copy of the shared one
SeedFromIndex(p) == index

OnlySeed(p) == TreeOf(head)

\* Mutant: release stays the unlock once there is a private index
ReleaseKept(p) == {"unlock"}

\* acquireOnlyIndex: release = only.Close, then unlock
OnlyRelease(p) == {"close", "unlock"}

\* NewOnlyIndex: HEAD is read and a private index built from its tree
NewOnlyIndex(p) ==
    /\ pc[p] = "base"
    /\ base' = [base EXCEPT ![p] = head]
    /\ idx' = [idx EXCEPT ![p] = OnlySeed(p)]
    /\ deferred' = [deferred EXCEPT ![p] = OnlyRelease(p)]
    /\ Goto(p, IF HasTargets(cmd[p]) THEN "plan" ELSE "msg")
    /\ UNCHANGED <<repoVars, lock, cmd, alive, planned, todo, snap, on, hooked,
                   landed, exit, envVars>>

\* openFilePlan: one file's HEAD content is read
PlanFile(p) ==
    /\ pc[p] = "plan"
    /\ \E q \in todo[p] :
        /\ planned' = [planned EXCEPT ![p][q] = head]
        /\ todo' = [todo EXCEPT ![p] = @ \ {q}]
    /\ UNCHANGED <<repoVars, lock, cmd, pc, alive, idx, deferred, base, snap, on,
                   hooked, landed, exit, envVars>>

\* A pathspec target is always reported staged
AllUnchanged(p) == cmd[p].paths = {} /\ cmd[p].anchors \subseteq PlannedTree(p)

\* pathAnchorContradiction
Contradictory(c) == c.paths \cap AnchorFiles(c) # {}

\* planTargets and the first half of stageTargets.  Refusal stands for every
\* planning error (exit 3 to 7, 9, 10, 12, 129).
PlanTargets(p) ==
    /\ pc[p] = "plan"
    /\ \/ Finish(p, "refused")
       \/ /\ ~Contradictory(cmd[p]) /\ todo[p] = {}
          /\ AllUnchanged(p) /\ ~cmd[p].allowEmpty
          /\ Finish(p, "nothing")
       \/ /\ ~Contradictory(cmd[p]) /\ todo[p] = {}
          /\ ~AllUnchanged(p) \/ cmd[p].allowEmpty
          /\ Goto(p, CASE cmd[p].mode = "only"  -> "add"
                       [] cmd[p].mode = "plain" -> "snap"
                       [] cmd[p].mode = "stage" -> "seed")
          /\ UNCHANGED <<exit, idx, deferred, lock>>
    /\ UNCHANGED <<repoVars, procVars, todo, envVars>>

SnapshotIndex(p) ==
    /\ pc[p] = "snap"
    /\ snap' = [snap EXCEPT ![p] = index]
    /\ Goto(p, "seed")
    /\ UNCHANGED <<repoVars, lock, cmd, alive, idx, deferred, base, planned,
                   todo, on, hooked, landed, exit, envVars>>

-----------------------------------------------------------------------------
(* Plan.Apply and Plan.StageInto. *)

\* Mutant: a failure of Apply forgets the temp index
NoAbort(p) == {}

\* Apply's deferred abort, armed while nothing is swapped
AbortDeferred(p) == {"abort"}

\* A byte copy of the shared index.  An index without entries may be no file,
\* and then the temp is left missing too.
TempSeeds == IF index = {} THEN {NoIndex, {}} ELSE {index}

NewTempStaging(p) ==
    /\ pc[p] = "seed"
    /\ \E seed \in TempSeeds : idx' = [idx EXCEPT ![p] = seed]
    /\ deferred' = [deferred EXCEPT ![p] = @ \cup AbortDeferred(p)]
    /\ Goto(p, "add")
    /\ UNCHANGED <<repoVars, procVars, lock, todo, exit, envVars>>

\* The entries git finds in p's index file, none where there is no file yet
Entries(p) == idx[p] \ NoIndex

\* Where StageInto returns to: --only commits what it staged, Apply swaps
Staged(p) == IF cmd[p].mode = "only" THEN "msg" ELSE "swap"

\* Mutant: entries go straight into the shared index, without the temp copy
StageInPlace(p, t) ==
    /\ idx' = [idx EXCEPT ![p] = t]
    /\ index' = IF cmd[p].mode = "only" THEN index ELSE t

\* Every index write of StageInto goes to the file it was given
StageIn(p, t) ==
    /\ idx' = [idx EXCEPT ![p] = t]
    /\ UNCHANGED index

\* The index file after `git add` of p's pathspecs, untouched when they were
\* staged already
Added(p) ==
    LET t == Put(Entries(p), cmd[p].paths, Edits)
    IN  IF t = Entries(p) THEN idx[p] ELSE t

\* StageInto's one `git add` of all the pathspecs
StageAdd(p) ==
    /\ pc[p] = "add"
    /\ StageIn(p, Added(p))
    /\ todo' = [todo EXCEPT ![p] = AnchorFiles(cmd[p])]
    /\ Goto(p, IF cmd[p].anchors = {} THEN Staged(p) ELSE "files")
    /\ UNCHANGED <<commits, head, procVars, lock, deferred, exit, envVars>>

\* One round of StageInto's loop: hash-object and update-index of one file
StageFile(p) ==
    /\ pc[p] = "files"
    /\ \E q \in todo[p] :
        /\ StageIn(p, Put(Entries(p), {q}, PlannedTree(p) \cup cmd[p].anchors))
        /\ todo' = [todo EXCEPT ![p] = @ \ {q}]
        /\ Goto(p, IF todo[p] = {q} THEN Staged(p) ELSE "files")
    /\ UNCHANGED <<commits, head, procVars, lock, deferred, exit, envVars>>

\* A temp that nothing was ever written to does not exist: nothing to move
Swapped(p) == IF idx[p] = NoIndex THEN index ELSE idx[p]

\* swap: the temp index is renamed over the shared one, and abort disarmed
Swap(p) ==
    /\ pc[p] = "swap"
    /\ index' = Swapped(p)
    /\ IF cmd[p].mode = "stage" THEN Return(p, "ok", NoIndex)
       ELSE /\ idx' = [idx EXCEPT ![p] = NoIndex]
            /\ deferred' = [deferred EXCEPT ![p] = @ \ {"abort"}]
            /\ Goto(p, "msg")
            /\ UNCHANGED <<lock, exit>>
    /\ UNCHANGED <<commits, head, procVars, todo, envVars>>

\* A step that runs git or touches a file fails, or its context is cancelled:
\* the command exits 128, and no snapshot is restored.
StepFails(p) ==
    /\ pc[p] \in {"start", "lock", "plan", "snap", "add", "files", "swap",
                  "check", "sync", "write", "report"}
    /\ Finish(p, "fatal")
    /\ UNCHANGED <<repoVars, procVars, todo, envVars>>

\* What is left of the file that NewOnlyIndex or newTempStaging was making
Discarded(p) == NoIndex

\* NewOnlyIndex or newTempStaging fails, before or after it made its file:
\* nothing is deferred for that file yet.
SeedFails(p) ==
    /\ pc[p] \in {"base", "seed"}
    /\ Return(p, "fatal", Discarded(p))
    /\ UNCHANGED <<repoVars, procVars, todo, envVars>>

-----------------------------------------------------------------------------
(* git commit. *)

\* commitOptions reads a message given as `-F -` from stdin; when the read
\* fails runCommit returns without rollbackIndex.
CommitOptions(p) ==
    /\ pc[p] = "msg"
    /\ \/ Goto(p, "git") /\ UNCHANGED <<exit, idx, deferred, lock>>
       \/ Finish(p, "nomessage")
    /\ UNCHANGED <<repoVars, procVars, todo, envVars>>

\* git reads HEAD, the parent (or the commit to amend), when it starts
GitStart(p) ==
    /\ pc[p] = "git"
    /\ on' = [on EXCEPT ![p] = head]
    /\ IF cmd[p].amend /\ head = 0 THEN AfterGit(p, "rollback")
                                   ELSE Goto(p, "hook")
    /\ UNCHANGED <<repoVars, lock, cmd, alive, idx, deferred, base, planned,
                   todo, snap, hooked, landed, exit, envVars>>

\* The pre-commit hook accepts, having staged some files, or rejects
Hook(p) ==
    /\ pc[p] = "hook"
    /\ \E qs \in HookStages :
        /\ hooked' = [hooked EXCEPT ![p] = qs]
        /\ IF cmd[p].mode = "only"
           THEN /\ idx' = [idx EXCEPT ![p] = Put(@, qs, Edits)]
                /\ UNCHANGED index
           ELSE /\ index' = Put(index, qs, Edits)
                /\ UNCHANGED idx
    /\ Goto(p, "land") \/ AfterGit(p, "rollback")
    /\ UNCHANGED <<commits, head, lock, cmd, alive, deferred, base, planned,
                   todo, snap, on, landed, exit, envVars>>

NewParent(p) == IF cmd[p].amend THEN ParentOf(on[p]) ELSE on[p]

\* git moves HEAD only if it still is where it was when git started, and
\* refuses an empty commit
CanLand(p) ==
    /\ head = on[p]
    /\ GitIndex(p) # TreeOf(NewParent(p)) \/ cmd[p].allowEmpty

\* The commit lands.  git may still exit non-zero afterwards: killed by a
\* cancelled context, or unable to write its index.
GitLands(p) ==
    /\ pc[p] = "land"
    /\ CanLand(p)
    /\ commits' = Append(commits, [tree |-> GitIndex(p), parent |-> NewParent(p)])
    /\ head' = Len(commits) + 1
    /\ landed' = [landed EXCEPT ![p] = Len(commits) + 1]
    /\ \/ AfterGit(p, IF cmd[p].mode = "only" THEN "check" ELSE "report")
       \/ AfterGit(p, "rollback")
    /\ UNCHANGED <<index, lock, cmd, alive, idx, deferred, base, planned, todo,
                   snap, on, hooked, exit, envVars>>

GitFails(p) ==
    /\ pc[p] = "land"
    /\ AfterGit(p, "rollback")
    /\ UNCHANGED <<repoVars, procVars, lock, idx, deferred, todo, exit, envVars>>

\* Mutants: `git reset` to HEAD, no rollback at all, no test for a nil snapshot
ResetToHead(p) == TreeOf(head)
NoRestore(p)   == index
RestoreNil(p)  == snap[p]

\* Restore: a nil snapshot (--only, or no targets) restores nothing
Restored(p) == IF snap[p] = NoIndex THEN index ELSE snap[p]

\* rollbackIndex: the whole snapshot is written back over the shared index,
\* or the restore itself fails and says so.
Rollback(p) ==
    /\ pc[p] = "rollback"
    /\ \/ /\ index' = Restored(p)
          /\ Finish(p, "fatal")
       \/ /\ snap[p] # NoIndex
          /\ Finish(p, "unrestored")
          /\ UNCHANGED index
    /\ UNCHANGED <<commits, head, procVars, todo, envVars>>

-----------------------------------------------------------------------------
(* finishOnlyCommit. *)

\* Mutant: the parent is not compared
HeadMoveMissed(p) == FALSE

\* HEAD^1 must be the base, unless the commit is an amend or the base unborn
HeadMoved(p) ==
    /\ ~cmd[p].amend
    /\ base[p] # 0
    /\ ParentOf(head) # base[p]

CheckParent(p) ==
    /\ pc[p] = "check"
    /\ IF HeadMoved(p) THEN Finish(p, "fatal")
       ELSE Goto(p, "sync") /\ UNCHANGED <<exit, idx, deferred, lock>>
    /\ UNCHANGED <<repoVars, procVars, todo, envVars>>

\* Mutants: only the named targets are synced; every disagreeing path is
SyncTargets(p) ==
    {q \in cmd[p].paths \cup AnchorFiles(cmd[p]) : At(index, q) # At(idx[p], q)}
SyncAll(p) == Differ(index, idx[p])

\* Paths the commit changed whose shared entry disagrees
SyncSet(p) ==
    LET changed == Differ(idx[p], TreeOf(base[p]))
        current == Differ(index, TreeOf(base[p]))
    IN  changed \ {q \in current : At(index, q) = At(idx[p], q)}

SyncRead(p) ==
    /\ pc[p] = "sync"
    /\ todo' = [todo EXCEPT ![p] = SyncSet(p)]
    /\ Goto(p, "write")
    /\ UNCHANGED <<repoVars, procVars, lock, idx, deferred, exit, envVars>>

\* writeEntries: one `git update-index --index-info`
SyncWrite(p) ==
    /\ pc[p] = "write"
    /\ index' = Put(index, todo[p], idx[p])
    /\ Goto(p, "report")
    /\ UNCHANGED <<commits, head, procVars, lock, idx, deferred, todo, exit,
                   envVars>>

\* summarize, Push and emitLeft; --only still holds the lock here
Report(p) ==
    /\ pc[p] = "report"
    /\ \/ Finish(p, "ok")
       \/ cmd[p].push /\ Finish(p, "push")
    /\ UNCHANGED <<repoVars, procVars, todo, envVars>>

-----------------------------------------------------------------------------
(* The environment. *)

\* Mutant: a lock file that a killed holder leaves behind
KeepLock(p) == UNCHANGED lock

\* The kernel closes a killed process's descriptors
KernelUnlock(p) == Unlock(p)

\* rgit is killed outright: nothing deferred runs.  The kernel drops its lock;
\* its index file stays on disk, and a `git commit` it has started, if only
\* just, carries on without it.
Crash(p) ==
    /\ crashes < MaxCrashes
    /\ alive[p] /\ pc[p] \notin {"done"}
    /\ crashes' = crashes + 1
    /\ alive' = [alive EXCEPT ![p] = FALSE]
    /\ \/ pc[p] \in {"git", "hook", "land"} /\ UNCHANGED pc
       \/ pc[p] \notin {"hook", "land"} /\ Goto(p, "dead")
    /\ KernelUnlock(p)
    /\ UNCHANGED <<repoVars, cmd, idx, deferred, base, planned, todo, snap, on,
                   hooked, landed, exit, external>>

\* Somebody runs `git add q`
ExternalAdd ==
    /\ external < MaxExternal
    /\ external' = external + 1
    /\ \E q \in Paths : index' = Put(index, {q}, Edits)
    /\ UNCHANGED <<commits, head, lock, cmd, pc, alive, idx, deferred, base,
                   planned, todo, snap, on, hooked, landed, exit, crashes>>

\* Somebody runs `git commit q`: HEAD moves and q's shared entry follows
ExternalCommit ==
    /\ external < MaxExternal
    /\ external' = external + 1
    /\ \E q \in Paths :
        /\ At(TreeOf(head), q) # At(Edits, q)
        /\ commits' = Append(commits, [tree |-> Put(TreeOf(head), {q}, Edits),
                                       parent |-> head])
        /\ index' = Put(index, {q}, Edits)
    /\ head' = Len(commits) + 1
    /\ UNCHANGED <<lock, cmd, pc, alive, idx, deferred, base, planned, todo,
                   snap, on, hooked, landed, exit, crashes>>

-----------------------------------------------------------------------------
\* What p does when nothing goes wrong underneath it
Advance(p) ==
    \/ Start(p) \/ LockCommits(p) \/ NewOnlyIndex(p) \/ PlanFile(p)
    \/ PlanTargets(p) \/ SnapshotIndex(p) \/ NewTempStaging(p) \/ StageAdd(p)
    \/ StageFile(p) \/ Swap(p) \/ CommitOptions(p) \/ GitStart(p) \/ Hook(p)
    \/ GitLands(p) \/ GitFails(p) \/ Rollback(p) \/ CheckParent(p)
    \/ SyncRead(p) \/ SyncWrite(p) \/ Report(p)

Step(p) == Advance(p) \/ StepFails(p) \/ SeedFails(p)

Next ==
    \/ \E p \in Procs : Step(p) \/ Crash(p)
    \/ ExternalAdd
    \/ ExternalCommit

Spec == Init /\ [][Next]_vars

\* The operating system runs every process, and the git commands and hooks
\* they wait for come to an end.  Nothing makes a step fail: a process that
\* waits for the lock is not rescued by an error.
FairSpec == Spec /\ \A p \in Procs : WF_vars(Advance(p))
-----------------------------------------------------------------------------
(* Properties. *)

\* Every variable has the type of the Go value it stands for.
TypeOK ==
    /\ commits \in Seq(Commit)
    /\ head \in 0..Len(commits)
    /\ index \in SUBSET Edits
    /\ lock \in Procs \cup {NoProc}
    /\ cmd \in [Procs -> Command]
    /\ pc \in [Procs -> Phases]
    /\ alive \in [Procs -> BOOLEAN]
    /\ idx \in [Procs -> (SUBSET Edits) \cup {NoIndex}]
    /\ deferred \in [Procs -> SUBSET Cleanups]
    /\ base \in [Procs -> Nat]
    /\ planned \in [Procs -> [Paths -> 0..Len(commits)]]
    /\ todo \in [Procs -> SUBSET Paths]
    /\ snap \in [Procs -> (SUBSET Edits) \cup {NoIndex}]
    /\ on \in [Procs -> 0..Len(commits)]
    /\ hooked \in [Procs -> SUBSET Paths]
    /\ landed \in [Procs -> 0..Len(commits)]
    /\ exit \in [Procs -> Codes]
    /\ external \in Nat
    /\ crashes \in Nat

\* A live --only process between LockCommits and its return
Holds(p) ==
    /\ cmd[p].mode = "only"
    /\ alive[p]
    /\ pc[p] \notin {"start", "lock", "done"}

\* Two --only commits of one checkout never overlap: rgit-commit.lock is held
\* by exactly the process between LockCommits and its deferred release, and
\* no one else, crashed holders included.
LockInv ==
    /\ \A p \in Procs : Holds(p) <=> lock = p
    /\ \A p, r \in Procs : Holds(p) /\ Holds(r) => p = r

\* A command that returned leaves no private index, no temp index and no
\* lock behind, on every path out of runCommit: each path must have deferred
\* (or done, or disarmed) the cleanup of what it had made until then.
NothingLeftBehind ==
    \A p \in Procs : pc[p] = "done" => idx[p] = NoIndex /\ lock # p

\* What an --only command of p commits when it builds on tree t
Effect(p, t) ==
    Put(Put(Put(t, cmd[p].paths, Edits),
            AnchorFiles(cmd[p]), t \cup cmd[p].anchors),
        hooked[p], Edits)

\* An --only commit that reports success (exit 0, or 8 when only the push
\* failed) is its parent's tree plus exactly the named targets and what its
\* own hook staged, whatever other rgit or git processes did meanwhile, and
\* whoever was killed.  An amend and a root commit are excepted: the code
\* does not compare their parent.
OnlySuccessIsExact ==
    \A p \in Procs :
        /\ cmd[p].mode = "only" /\ exit[p] \in Succeeded
        /\ ~cmd[p].amend /\ base[p] # 0
        => /\ landed[p] # 0
           /\ ParentOf(landed[p]) = base[p]
           /\ commits[landed[p]].tree = Effect(p, TreeOf(ParentOf(landed[p])))

\* docs/USAGE.md:399, "Another writer moving HEAD mid-commit: 128": an --only
\* commit that reports success was made on the HEAD its tree was built from.
HeadMoveReported ==
    \A p \in Procs :
        cmd[p].mode = "only" /\ exit[p] \in Succeeded => on[p] = base[p]

\* Phases in which an --only process relies on the HEAD it has read
BuildsOnBase(p) ==
    /\ cmd[p].mode = "only"
    /\ alive[p]
    /\ pc[p] \in {"plan", "add", "files", "msg", "git", "hook", "land"}

\* NewOnlyIndex: "Callers hold LockCommits across it and the commit, so HEAD
\* cannot move under another rgit."
HeadStill ==
    [][\A p, r \in Procs :
        BuildsOnBase(p) /\ p # r => landed'[r] = landed[r]]_vars

\* An --only commit never touches the shared index but for the paths it
\* committed: its own targets and what its hook staged.  Other staged work
\* stays staged.
OnlyKeepsOthersStaged ==
    [][\A p \in Procs :
        cmd[p].mode = "only" /\ pc'[p] # pc[p]
        => \A q \in Paths : At(index', q) # At(index, q)
                => q \in cmd[p].paths \cup AnchorFiles(cmd[p]) \cup hooked[p]]_vars

\* Paths changed by some --only commit
Touched == {q \in Paths : \E p \in Procs :
                /\ landed[p] # 0
                /\ q \in Differ(commits[landed[p]].tree, TreeOf(base[p]))}

\* Once every landed --only commit has also reported success and no commit is
\* under way, the shared index agrees with HEAD on each path a commit changed
\* (hook-staged paths included), and holds what was staged before on every
\* other path: no staged reversal of a landed commit is left for the next.
IndexFollowsHead ==
    /\ lock = NoProc
    /\ \A p \in Procs : landed[p] # 0 => exit[p] \in Succeeded
    => \A q \in Paths :
        At(index, q) = IF q \in Touched THEN At(TreeOf(head), q)
                                        ELSE At(InitIndex, q)

\* The whole shared index a command stages: a plain or --stage-only command
\* alone in its checkout shows either the index it found or that index with
\* all its targets, and a hook's additions; never a part of them.
ApplyIsAtomic ==
    \A p \in Procs :
        LET all == Put(Put(InitIndex, cmd[p].paths, Edits), AnchorFiles(cmd[p]),
                       PlannedTree(p) \cup cmd[p].anchors)
        IN  index \in {InitIndex, Put(InitIndex, hooked[p], Edits),
                       all, Put(all, hooked[p], Edits)}

\* A command that fails without having committed leaves the index it found,
\* pre-staged work and all, wherever it failed: planning, a write into the
\* temp index, the swap, the hook (and what the hook staged), git itself.
\* Excepted are a message that cannot be read (nothing is rolled back), a
\* rollback that itself fails, and a command without targets, whose snapshot
\* is nil and whose hook may have staged.
FailureLeavesIndex ==
    \A p \in Procs :
        /\ exit[p] \in {"usage", "nothing", "refused", "fatal"}
        /\ HasTargets(cmd[p])
        /\ landed[p] = 0
        => index = InitIndex

\* runCommit: "the snapshot already holds any pre-existing staged work, so
\* restoring it destroys nothing either way": a rollback takes out of the
\* index nothing but what its own command (its targets, and with a symbol
\* HEAD's content of the symbol's file) or its own hook staged.
RestoreDestroysNothing ==
    [][\A p \in Procs : pc[p] = "rollback" /\ pc'[p] = "done" =>
        \A e \in index \ index' :
            \/ e \in PlannedTree(p) \cup cmd[p].anchors
            \/ PathOf[e] \in cmd[p].paths \cup hooked[p]]_vars

\* With nothing but --only processes, and none killed, the whole machinery of
\* lock, private index, hook, git and sync is one atomic commit at a time.
Atomic == INSTANCE OnlyCommit WITH
    InitTrees <- {IF h = << >> THEN {} ELSE h[1].tree : h \in Histories},
    tree     <- TreeOf(head),
    landed   <- {p \in Procs : landed[p] # 0}

CommitsAreAtomic == Atomic!Spec

\* Every command comes to an end, the --only ones that wait for the lock
\* included.
Termination == \A p \in Procs : <>(pc[p] \in {"done", "dead"})
=============================================================================
