# rgit: a verification project

`rgit` commits named symbols: `rgit commit auth.go:ValidateToken` stages HEAD's
version of the file plus that one symbol's new text, and commits it. This
directory holds TLA+ models of the program, TLC runs that check them on small
instances, and TLAPS proofs about them for every value of the constants.

## 1. The system

| component | state it keeps | operations | talks to | what makes it correct |
|---|---|---|---|---|
| commit and staging (`internal/app/commit.go`, `internal/synth/stage.go`, `internal/gitx`) | the shared index file, HEAD, `rgit-commit.lock`, a private or temp index file, an index snapshot | validate, lock, seed, plan, snapshot, stage, swap, commit, roll back, check the parent, sync, push | git, its hooks, other rgit processes through the repository | a commit holds its own targets and nothing else; a failure leaves the index as found; other people's staged work survives |
| blob synthesis (`synth.go`, `classify.go`) | none: edits of one file | classify an anchor, coalesce, merge ties, splice | the resolver | unnamed text stays HEAD's byte for byte, named text is the worktree's |
| staging plan (`stage.go`, `special.go`, `gitx.Add`) | the plan | refuse special paths, retry `git add` | git | nothing is staged that was refused |
| language servers (`internal/lsp`) | socket, spawn lock and pid file; one client per language | dial, spawn, stop a stranded daemon, close | the daemon, other rgit processes through a directory | no query waits for a spawn, no live daemon of another is cut off, one client per language |
| anchor index and cross-check (`internal/resolve`) | the index of one file | build, resolve, compare with the server's symbols | tree-sitter, language servers | a name means one declaration, or is refused |
| argument classification (`internal/cli`) | none | path, revision, `rev:path` or anchor | git | an existing path is never split into an anchor |
| diff (`internal/diff`, `app/diff.go`) | per-file reports, a blob cache | attribute hunks to symbols, in parallel | git, resolver, servers | every changed line is attributed once |
| log, blame, show, context, symbols | none | read-only reports | git | - |
| completion, doctor, languages, installer | none | text, version probes, downloads | - | - |

What is hard in it: several rgit processes and git itself share one index file
and one HEAD without a transaction around both; only `--only` commits take a
lock; hooks run in the middle of a commit and change the index; HEAD is read
at four different moments of one command; every step may fail or be cut off.
`PROJECT.json` lists these hazards one by one, each at its line.

## 2. Modules

| module | what it is |
|---|---|
| `RgitCommit` | the commit and staging protocol: processes, git, hooks, crashes, git run by somebody else |
| `OnlyCommit` | what `--only` promises: each commit is one atomic step |
| `MCRgitCommit` | the small instances TLC runs |
| `RgitCommitProofs` | types, mutual exclusion, nothing left behind |
| `RgitExactProofs` | a reported `--only` success is exact; other staged work is kept; a plain command alone in its checkout is atomic and fails clean |
| `RgitRefineProofs` | `RgitCommit` with `--only` processes implements `OnlyCommit`; the index follows HEAD |
| `LspDaemon` | one gopls daemon shared by many rgit processes: socket, spawn lock, pid file, faults |
| `MCLspDaemon` | its small instances |
| `LspDaemonProofs` | one spawner at a time, healthy daemons kept |
| `EditSplice` | `applyEdits`: the edits of one file coalesced, merged and spliced into HEAD's text |
| `BlobSynth` | the planner before it: anchors named, classified, widened, completed; what the blob must declare |
| `MCBlobSynth` | the files TLC tries |
| `EditSpliceProofs` | surviving edits are disjoint and none is kept twice, offsets stay valid, tidy edits fit, the end of the file is inherited, no token is lost or repeated, HEAD's text ends up with every kept edit carried out |
| `BlobSynthProofs` | the planner's edits are edits `applyEdits` accepts, and tidy ones; the staged file is as named, and its lines stay apart |
| `CatFileBatch` | `git cat-file --batch` over two pipes: writer, git, reader |
| `DiffRun` | `rgit diff`: the batch, the goroutines over the files, their session of servers |
| `MCDiffRun` | its small instance |
| `CatFileProofs` | a batch that succeeds gives every request its own object's bytes |
| `DiffRunProofs` | one server per language, none used after Close, no process left, the sequential report, types |

### RgitCommit

Content is abstracted to *edits*: one edit is one changed symbol of one file.
A tree, an index file and the worktree are sets of edits; the entry for a path
is the subset in that file. The worktree holds every edit. Staging an anchor
puts HEAD's entry plus the named edits into the index, staging a path puts the
worktree's. That is enough to tell a commit with exactly its targets from one
that lost, gained or reverted something.

A process `p` runs one command and walks through the phases of `runCommit`;
`pc[p]` is the call it is about to make.

| action | code |
|---|---|
| `Start` | flags and target count are validated, the repository is opened |
| `LockCommits`, `NewOnlyIndex` | `acquireOnlyIndex`: flock, then HEAD is read and a private index built from its tree |
| `PlanFile`, `PlanTargets` | `openFilePlan` reads HEAD's content of each anchor file by its own git call; then the plan is refused, found empty, or carried out |
| `SnapshotIndex`, `NewTempStaging` | the two copies of the shared index that a plain commit takes, one after the other |
| `StageAdd`, `StageFile` | `StageInto`: one `git add`, then one `update-index` per file, into the private or temp index |
| `Swap` | the temp index is renamed over the shared one |
| `CommitOptions` | the message is read, perhaps from stdin |
| `GitStart`, `Hook`, `GitLands`, `GitFails` | `git commit`: it reads HEAD, runs the hook (which may stage files), and moves HEAD if it still is where it was |
| `Rollback` | `rollbackIndex` and `Restore` |
| `CheckParent`, `SyncRead`, `SyncWrite` | `finishOnlyCommit`: HEAD^1 is compared with the base, then the committed paths are copied into the shared index |
| `Report` | the summary, `--push` and its failure |
| `SeedFails` | `NewOnlyIndex` or `newTempStaging` fails; what it had made it discards itself |
| `StepFails` | any other step that runs git or touches a file fails, or the context is cancelled |
| `Crash` | rgit is killed: nothing deferred runs, the kernel drops its lock, a git child it has started, if only just, carries on |
| `ExternalAdd`, `ExternalCommit` | somebody runs `git add` or `git commit` in the checkout |

What a command cleans up is state, as it is in the code: `deferred[p]` is what
will run when `p` returns. `LockCommits` makes `release` the unlock
(`LockRelease`), `NewOnlyIndex` makes it `only.Close` and the unlock
(`OnlyRelease`), `newTempStaging` arms `Apply`'s abort (`AbortDeferred`) and a
swap disarms it. `Return` carries out what is deferred by then and nothing
else, so a path on which something was not deferred, or was replaced, leaves a
file or a lock behind. `Finish` is a return from anywhere. A crash runs
nothing of it. Three simplifications: `done` is the return of
`runCommit`, and that the exit of the process would close the lock's descriptor
in any case is left out, as the code does not rely on it; the deferred calls of
one return are one step, since between removing a private directory nobody else
knows and closing the lock file others see no difference; and a removal is
taken to succeed (the code drops its error).

A shared index without entries may be no file at all. The temp is then missing
as well (`TempSeeds`), git creates it on the first write (`Entries`, `Added`),
and a swap of a temp that nothing was written to is no step (`Swapped`). The
instances start with staged work, so only the proofs reach this.

Folded together: `--include` is a plain commit; `--fixup`, `--squash` and
`--reuse-message` are plain commits without targets; `StageInto`'s loop runs
in any order of the files (the code's order is one of them); every planning
error is the outcome "refused" of `PlanTargets`. Left out: `--dry-run`, which
only reads and takes no lock; the cross-device copy in `swap`, which the same
directory rules out; file modes and index bits; a `git reset` run by others,
so HEAD only ever moves to new commits; merge parents.

### LspDaemon

An independent component: a commit, a diff or `rgit doctor` dials gopls to have
its extents cross-checked, and proceeds without it when the dial degrades, so
nothing in `RgitCommit` depends on the answer.

The three files of the private directory are `sock` (whose socket file lies
there, dead or alive), `lock` with `stale` (whose lock file, and whether it is
older than `staleLockAge`) and `pidfile`. A daemon is dead, starting, bound but
not yet listening, ready or hung. A process of `Procs` is a sequence of rgit
invocations that each dial once; `pc` is its next call.

| action | code |
|---|---|
| `Invoke`, `Probe`, `Handshake`, `Close` | `dialSocket`: dial the managed path, handshake within its deadline, query, close |
| `ReadPid`, `Grace`, `RemovePid`, `RemoveSocket` | a failed handshake: `stopStrandedDaemon` (SIGTERM, SIGKILL after the grace), the pid file and the socket are removed |
| `AcquireLock`, `AgeLock`, `RemoveLock` | `acquireSpawnLock`: O_EXCL, the age of a lock found there, its removal and one retry |
| `StatSocket`, `Redial`, `UnlinkDead` | `unlinkDeadSocket` |
| `StartDaemon`, `WritePid`, `Unlock` | the rest of `trySpawnDaemon` and its deferred removal |
| `LockAges` | a minute passes. A spawn is assumed to take less, as the code's comment says |
| `Cancel`, `Crash` | Ctrl-C cancels the context; SIGKILL |
| `Bind`, `Listen`, `Hang`, `Exit`, `HonourTerm`, `IdleExit` | gopls, as the code takes it to behave |

Every read of a file and every use of it are two steps, and all removals are by
name, so a process may remove what another has just put there. Faults are of
six kinds (killed or interrupted rgit, a failed spawn or pid file, a daemon
that hangs, ends, or is caught between bind and listen); each happens at most
once, `MaxFaults` together.

Folded together: reading the pid, comparing the argv and SIGTERM are one step
(nothing that happens in between changes the outcome as long as pids are not
reused, which is assumed; a daemon's name is reused when no file or process
refers to it). The argv comparison is Linux's, elsewhere no daemon is ever
signalled. A socket file outlives its daemon, as the comment on the call of
`unlinkDeadSocket` says. Left out: `$RGIT_LSP_SOCKET`, which is dialled before
and neither stopped nor removed; the trust check of the directory, which only
make the dial degrade; an absent gopls.

### EditSplice and BlobSynth

The blob of one file is computed by one process without interference, but its
loops mutate a buffer that later edits address by offsets of the original
text, and what goes wrong there depends on how several anchors lie to each
other. So `EditSplice` keeps the loops as steps: `Coalesce` takes the widest
edit not looked at (`coalesceOverlaps`), `MergeTies` the next insertion
(`mergeInsertTies`), `Splice` the greatest offset (`applyEdits`), and `Panic`
is Go's slice bound check. A text is a sequence of tokens, a newline or a run
of bytes without one; offsets are Go's. The trimming and
joining of newlines is the code's, and a gap is its number of newlines.

`BlobSynth` EXTENDS it and adds the caller. `file` says which declarations
HEAD and the worktree have, one of them a container with members, and how the
file is laid out; `Render` and `Extent` stand for the source text and
tree-sitter's extents of it, in three shapes: `braces` (Go, TypeScript, Rust),
`indent` (Python), `sections` (Markdown, TOML, YAML, where an extent runs to
the next heading).

| action | code |
|---|---|
| `PlanSymbol` | `planSymbol` and `classify`: a replacement, an insertion at `InsertionPoint`, widened to the container if HEAD lacks it (`Escalated`), or a deletion |
| `Refuse` | any error of `PlanStage`, the cross-check's verdict included |
| `FinishFile` | `addReferencedSiblings`, then `addPreamble` for a new file |
| `Apply` | a step of `applyEdits` |
| `InheritEOF` | `inheritEOF` |

`SpliceSpec` is `applyEdits` for any text and any edits. `BlobSynth` implements
it, which is a property of the run `synth` and a theorem, so the theorems about
`SpliceSpec` are about every edit the planner can make. Referenced siblings are
appended in any order: they are insertions, and `mergeInsertTies` orders those
by the worktree.

What tree-sitter and the layout give of every file is written down once, in
`FilesAssumption`: an extent lies in its text, is not empty and begins with a
token of its own (`Parsed`); without sections it ends with one, too, two
declarations are disjoint or member and container, and each begins on a line
after the end of the one before (`SetOut`); besides blanks a text holds one
token for each declaration, where that begins, the preface first and the
delimiter at the end of a container (`Labelled`); no two of its lines run
together and indentation starts a line (`Lined`); a member has its container
around it. TLC evaluates it on every file of the runs, and the proofs use
nothing else of `Render` and `Extent`. Outside it, as outside `Render`, are two
declarations on one line and a container on one line (`type T struct{}`), for
which `containerBodyEnd` stops at the container's start (classify.go:352-356):
`ContainerBodyEnd` has the bound, no file of the model meets it.

What the blob must be is defined apart from texts, on the forest of
declarations (`Taken`, `Survives`, `TokenOf`): which declarations are there,
in which version, in which order, nested in what. Left out: pseudo-anchors as
targets, carriage returns, indentation other than one tab, and declarations
that are the same on both sides (every declaration present in both differs,
so a mix of versions shows).

### CatFileBatch and DiffRun

`CatFileBatch` is `BatchCatFile`: a goroutine formats requests into a buffer
and flushes it, git answers one after the other, the caller parses. A request
is one piece, an answer a header and perhaps a content; buffer and pipes have
small capacities, so each can be full. What a request names is a blob, a tree
(the path is a directory on this side of the diff), nothing, a submodule, or a
promised blob; the reader takes any header of three fields for one that bytes
follow, whatever the type it names (`ReadHeader`). git may exit, crash, be killed, or
write an answer of no known shape. After the loop come the join of the writer,
`cmd.Wait`, and the retry of blobs that a promisor remote has yet to send.

`DiffRun` EXTENDS it: `Prefetch` is a step of the batch, and then `Run` goes
through its two waves. `Launch` takes a slot of the semaphore and starts a
goroutine; each builds its report (`Build`), asks the session (`Lock`,
`Cached`, `SpawnFails`, `Spawn`, `HandshakeFails`, `HandshakeOK`), queries and
ends (`Finish`); `Merge` follows `wg.Wait`; `CloseClient` and `Return` are the
deferred `Close` and the return. `ServerDies` may hit at any time. Left out:
what a report says (the attribution of hunks to symbols), `--sym` filters,
what becomes of a tree's bytes in a report,
`ResolveScope`, and the content of queries.

`Merge` goes on to `ls-files --others` (`ListUntracked`, which may fail) or, in
a scope without untracked files, to the end. A path taken out of the index
only is both changed and untracked and has two rows; `PathOrder` is then the
order `sortReport` leaves them in, which depends on the rows and not on the
goroutines.

The daemon of `LspDaemon` is the other kind of server `Session.Dial` reaches;
what it needs from the session is only that a dial returns (`DialReturns`).

## 3. Properties and runs

| run | instance | properties |
|---|---|---|
| `only` | two processes, five `--only` commands (two symbols of one file, a symbol with a path and `--push`, an amend, an invalid one), a hook that may stage a file, unborn branch or one commit, somebody's staged work | `TypeOK`, `LockInv`, `NothingLeftBehind`, `IndexFollowsHead`, `HeadStill`, `CommitsAreAtomic`, `Termination` |
| `mixed` | two processes with `--only`, plain and `--stage-only` commands, one step of git outside rgit, one killed process | `OnlySuccessIsExact`, `LockInv`, `OnlyKeepsOthersStaged` |
| `plain` | one process, every combination of flags, paths and anchors of a plain or `--stage-only` command | `ApplyIsAtomic`, `FailureLeavesIndex`, `RestoreDestroysNothing`, `NothingLeftBehind` |
| `dial` | two processes, a pool of three daemons, an empty directory, a dead socket or a live daemon, one fault of any kind | `TypeOK`, `SpawnExclusive`, `HealthyKept`, `DialReturns`, `Recovers` |
| `synth` | one file, three shapes of language, 3912 pairs of texts, up to three anchors in any order, a repeated one included | `StagedAsNamed`, `LinesApart`, `EndsAsBefore`, `RoundTrip`, `SpliceSpec`, `SpliceTypeOK`, `KeptDisjoint`, `KeptOnce`, `PrefixIntact`, `EndInherited`, `AsEdited`, `TokensAccounted`, `EditsTidy` |
| `diff` | three blob requests through pipes of one piece, three tracked files and an untracked one, two goroutines at a time, two languages, any set of failing files | `TypeOK`, `AnswersMatch`, `NothingOutlives`, `OneServer`, `UsedWhileOpen`, `SameAsSequential`, `Returns` |
| `amend`, `restore`, `cancel`, `stuck`, `synthnest`, `synthpanic` | the disagreements of section 6 | one property each, violated |

- `LockInv`: the lock is held by exactly the live `--only` process between
  `LockCommits` and its return; there is never a second one.
- `NothingLeftBehind`: a command that returned left neither a lock nor an
  index file of its own: on each of its paths it had by then deferred, and
  not disarmed or replaced, the cleanup of all it made. `only` checks it of
  `release`, `plain` of `Apply`'s abort.
- `IndexFollowsHead`: once all landed commits have reported success, the
  shared index agrees with HEAD on the paths they changed and is untouched on
  all others, so no staged reversal waits for the next commit.
- `HeadStill`: between a process's `NewOnlyIndex` and its commit no other rgit
  process moves HEAD.
- `CommitsAreAtomic`: the refinement of `OnlyCommit`.
- `Termination`: every command ends, the ones waiting for the lock included.
- `OnlySuccessIsExact`: what an `--only` commit reports as a success has the
  base as its parent and that parent's tree with exactly its own targets and
  what its hook staged replaced, in the company of anybody.
- `OnlyKeepsOthersStaged`: no step of an `--only` commit changes the shared
  index outside its own paths.
- `ApplyIsAtomic`, `FailureLeavesIndex`, `RestoreDestroysNothing`: all targets
  or none reach the shared index; a failed command leaves the index it found;
  a rollback takes out only what the command itself or its hook put in, HEAD's
  content of a named symbol's file included.
- `SpawnExclusive`: until a lock is declared stale, one process at a time is
  between taking the spawn lock and giving it back, and the file is its own.
- `HealthyKept`: as long as no daemon fails and no lock goes stale, rgit never
  signals a healthy daemon nor takes its socket away. It is the lock that makes
  the removal of a dead socket safe: between the dial that found it dead and
  the removal, only another spawner could have replaced it. After a stale lock
  two processes may both be in the section, and the removal may then hit a
  live daemon; the comment that calls the lock an optimisation counts the cost
  as one extra process.
- `DialReturns`: every dial returns, whatever the daemons do or do not do.
- `Recovers`: whatever one fault left behind, once invocations no longer overlap
  a healthy daemon comes to listen at the path and stays.
- In `dial`, `TypeOK` has `termed`, whoever was sent SIGTERM, among the living
  daemons: a pid is only signalled once it was found to be one (`Ours`).
- `KeptDisjoint`, `PrefixIntact`: the argument for the splice pass, part by
  part: the edits that survive coalescing address different bytes; while they
  are spliced everything before the end of a pending one is still HEAD's, and
  so no slice leaves the buffer. The latter asks for *tidy* edits: no range ends in a newline and no insertion point lies in a
  range. Sections are not tidy, and there the argument fails (`synthpanic`).
- `KeptOnce`: no declaration's text survives coalescing twice, as an insertion
  beside a replacement that holds it or as two insertions.
- `EditsTidy`: of every other grammar the planner makes tidy edits, unless a
  new declaration is spliced into a container (`Misplaced`), and grounded ones:
  nothing is inserted before a deletion that begins the file, and no
  replacement ends in a newline. Nor are two insertions made at two ends of one
  blank, where trimming would leave their order to chance.
- `EndInherited`: tidy, grounded edits leave the text's final newline as it is.
- `AsEdited`: the spliced text of tidy edits is HEAD's with every kept edit
  carried out. Each token is there as often as HEAD outside the ranges and the
  edits' texts have it, and what belongs before an offset of HEAD outside the
  ranges, or before a place in an edit's text, stands before one place of it.
- `TokensAccounted`: a splice removes HEAD's tokens in the range of its edit,
  adds the edit's own and touches nothing else but newlines, although the
  buffer has moved under it; a merge holds the tokens of both texts.
- `StagedAsNamed`: the staged text declares what it should, each declaration
  once, in the right version, order and nesting, whatever anchors were named,
  overlapping, nested or repeated. Files in which a new declaration is spliced
  into a container (`synthnest`) are excepted.
- `LinesApart`, `EndsAsBefore`: no two lines run together, indentation stays
  at the start of its line, and the newline at the end of the file is
  inherited.
- `RoundTrip`: naming everything that was added or removed gives the
  worktree's layout back, blank line for blank line.
- `AnswersMatch`: a batch that succeeds gives every request the bytes of its
  own object, a tree's raw ones included, or nothing if there is none or it is
  a submodule; a promised blob only the retry finds.
- `NothingOutlives`: whatever failed, when `Run` returns git and all servers
  are reaped and the writer has ended.
- `OneServer`, `UsedWhileOpen`: one spawn per language however many goroutines
  ask at once; `Close`, which takes no lock, meets none of them.
- `SameAsSequential`: the error is that of the first failing file, the rows are
  sorted and the warnings in file order, whichever goroutine ended first.
- `Returns`: full pipes, crashes and failures never keep `Run` from returning.
  The one exception is an answer git is not known to write: the reader stops,
  and the join of the writer or `cmd.Wait` may then wait until the context is
  cancelled (gitx.go:406-416).

Bounds. Two processes are enough for every pair of steps to interleave, and
the lock makes a third wait as the second does. Two files and five edits give
each property its cases: two edits of one file by two commands, an edit HEAD
already has, an edit in a file only a hook or another person touches, staged
by somebody else or not. One
external step and one crash may fall between any two steps; `mixed` allows both in
one behaviour. The proofs have none of these bounds.

Fairness. `FairSpec` asks weak fairness of each process's own steps
(`Advance`): the operating system runs it, git and the hooks it waits for
return. A failing step (`StepFails`) is never forced. That is all
`Termination` needs: a holder of the lock always reaches its return, and each
process runs one command, so a waiting one finds the lock free in the end.
`CHECK_DEADLOCK` is off because a behaviour ends when all commands have.
`LspDaemon` asks weak fairness of the processes (rgit is run again and again),
of a daemon's start and its idle timeout, and of time; not of a daemon
answering, ending or heeding a signal.

Why `Recovers` speaks of invocations that do not overlap: with overlap there is
an endless behaviour in which each process, its handshake failed because the
other killed the daemon, reads the pid file of the daemon that the other has
just spawned and kills it in turn. TLC finds it after a single exit of a
daemon. It takes a perfect coincidence each time, but nothing in the code ends
it.

Bounds of `dial`: two processes again give every pair of steps; three daemons
allow one that serves, one that is stranded and one that starts; one fault at
a time keeps the liveness check small. The inductive invariants were also
checked with two faults (3.9 million states).

Bounds of `synth`: two plain declarations and a container with two members
give each pair of anchors every position to the other (before, inside, around,
adjacent, same); three anchors let two insertions meet at a point beside a
range. Gaps go from one to three newlines, ends from none to one, as the code
only compares with a minimum of one or two. `BlobSynth` has no liveness and
deadlock is checked: `Finished` is the only stuttering.

Bounds of `diff`: pipes and buffer of one piece make every write wait for a
read; three requests are one more than the pieces in flight. Two slots for a
wave of three make the semaphore wait. Languages are taken up to renaming.
Fairness: every goroutine is scheduled, git works on, a query and a handshake
end at their deadlines; no process has to die. `CHECK_DEADLOCK` is off because
`Run` returns, and because of the exception of `Returns`.

## 4. Proofs

The theorems of the first three modules are about `Spec`, for any sets of
processes, commands, paths and edits and any bounds, from the assumptions on
the constants that `RgitCommit` names (commands are commands, edits have a
path, a branch starts unborn or with one commit).

`RgitCommitProofs`. `TypeInv` is `TypeOK` with the phases in which a process
has an index file. `CleanInv` adds that the holder of the lock is the live
`--only` process inside its critical phases, that a returned process has no
index file, that a killed one only lives on in git's phases, and `Armed`: what
a live process has deferred covers what it has made, the lock from
`LockCommits` on, the private index from `NewOnlyIndex` on, the temp index
until it is swapped. `StepShape` says what any step does to the lock: return,
acquire or move on. `ReturnsArmed` says that what a return runs is then all
there is to clean up. From these: `TypeCorrect`, `MutualExclusion`,
`ReturnsClean`.

`RgitExactProofs`. `OnlySuccessIsExact` speaks about finished processes, so it
is not inductive; why it holds is the point of the late test in
`finishOnlyCommit`. `ExactInv` states it: HEAD names the newest commit and
parents are older than children (`Newest`); a process reads HEAD for its base,
then for each anchor file, then in git, in that order (`ReadsInOrder`); the private
index is known exactly in each phase (`IndexExact`); and once a commit has
landed, HEAD^1 is either its parent or at least as new as the commit itself
(`LandedExact`). A base is older than the commit, so HEAD^1 = base can only
mean that the parent is the base, and then every read in between saw the same
HEAD. `CheckExact` is that step. Amends and root commits are excepted because
the code does not test them.

The same module has the plain command. `Solo` is one process, not `--only`, and
no git outside it; it may fail or be killed anywhere. Next to others its three
properties are false, so they have no more general theorem. `SoloInv` says for
each phase what the command may be doing (`SoloPhase`), what the shared index
is, namely untouched, all targets, or all targets and the hook's files
(`SoloShared`), and what the temp index and the snapshot hold (`SoloOwn`); the
hook that stages files is why the rollback has to restore more than the
targets. From it: `Atomicity`, `FailureIsClean`, `RestoreIsSafe`.

`RgitRefineProofs`. With `OnlyRgit` (every command is `--only`, no crash, no
git from outside), the holder of the lock is the only one who can land a
commit, so HEAD stays the base (`AloneInv`); `GitLands` is `OnlyCommit`'s
`Commit` and every other step a stutter. Hence `HeadStaysStill` and
`Refinement`. `IndexFollowsHead` says nothing while a commit is under way, so
`FollowInv` adds what the index is then (`Lags`): what the other commits left,
on the tree this one was built on. HEAD's tree differs from that tree in the
paths of the sync only, and the sync writes just these. Hence `IndexInStep`.

`LspDaemonProofs`. `LockHeld`: the file is only removed by another than its
creator once it is stale, hence `SpawnExclusive`. `HealthyInv`: while there was
no fault but crashes and no lock went stale, no handshake fails, so nobody is
in `stopStrandedDaemon`, and the socket a lock holder is about to remove is a
dead one and stays so, since a daemon binds only where no file lies and only
the one lock holder removes files. `StepKeeps` draws `HealthyKept` from it. The
theorems hold for any processes, daemons, faults and bounds.

`EditSpliceProofs`, about `SpliceSpec`: any text over any tokens, any edits.
`SpliceInv` adds to the properties that kept and pending edits are edits of
HEAD's text (`Sourced`), that what is kept was planned and that insertions are
looked at last (`Chosen`), because they have no width: a replacement that holds
an insertion's text is there before it. Lemmas say what trimming, joining and
each splice do to a prefix; since the pending edits are disjoint and the
greatest goes first, a splice only changes what lies at or after its own start,
less the newlines trimmed before it, and a tidy range does not end in one. From
that: `SplicesAreTexts`, `CoalescedDisjoint`, `CoalescedOnce`,
`OffsetsStayValid`, and of this that tidy edits never panic (`TidyEditsFit`). For the end of the file `EndInv` follows the
last token through the splices: only the last of them can leave nothing
(`LastOfAll`), so there is always a token to end with before it. Hence
`EndOfFileInherited`. `NothingLost` counts: a text is the sum of its pieces
(`CountSplit`, `CountConcat`), what is trimmed holds newlines only, and
`PrefixIntact` makes the piece a splice takes out HEAD's.

`EveryEditCarriedOut` adds the order. A text is described by its *cuts*: for
each place, how many of each token stand before it. Trimming and padding move
places and change no cut of tokens that are not newlines, so a splice has the
cuts of what it leaves, shifted by what it adds (`Moves`). `Gathered` says of
every pending edit that its text holds those of its group in their order (one
range, or the insertions merged at an offset so far); `Progress` that the text
built has every edit spliced so far carried out and is HEAD's, but for
newlines, up to each edit still pending. When nothing is pending, `Progress` is
`AsEdited`. `KeptSpaced` is needed here only: of two insertions at the two ends
of one blank, the later one would trim the blank away, and the earlier one's
offset would lie in what the later one brought. Two more parts say what the
planner needs: an edit that coalescing drops was swallowed by a kept one as
wide (`Accounted`), and the text begins with HEAD's first token or, of an empty
HEAD, with that of the insertion merged first (`Fronted`).

`BlobSynthProofs`, about `BlobSynth`'s `Spec`: any declarations, files, anchors
and number of anchors, from `SymbolsAssumption` and `FilesAssumption` (section
2). Every anchor's edit lies in HEAD's text and has text of the worktree
(`ClassifiedIsAnEdit`), so each step is one of `SpliceNext` or stutters:
`PlannerImplements`, and with it `PlannedSplices`. Then tidiness. `Origins` says
of every edit which declaration it is of, and that this one is in `Taken`: the
siblings brought along, too, since the text that mentions them is an asked
declaration's (`WantedIsBrought`). `Placed` lists the places `InsertionPoint`
may answer: before a member or at the end of the body, after or before a
declaration of both texts, the end of the file. `InsertionClear` compares each
of them with the edit of each other declaration. Two cases remain in which one
lies in a range: a member of a container that is replaced, which `KeptOnce`
excludes since the replacement carries it, and a top-level declaration after a
member, which is what `Misplaced` describes. `PointsOrdered` compares two
insertion points. Hence `PlannedIsTidy`; with `OffsetsStayValid` and
`EndInherited`, `StagingFits` and `EndOfFileKept`.

`NamedIsStaged` is `StagedAsNamed` of every file without sections. `Complete` is
the other half of `Origins`: all that is in `Taken` has its edit. By `Accounted`
and `KeptOnce` each declaration that decides for itself then has one kept edit
and no other (`EditOnce`), since what covers it can only be its container's. A
kept edit brings just the worktree's tokens of its extent, and a range drops
just HEAD's (`EditIs`, `Covers`, `Drops`); so `AsEdited` counts each token of
the staged text by where it comes from. A declaration that is taken comes with
its decider's edit, another one stays in HEAD's text outside the ranges, nothing
else is there, and nothing is there twice (`ContentRight`). For the order, of
two declarations `AsEdited` has a cut between them: at an offset of HEAD if one
of them stays, in the text of the edits if both come (`EditsGo`), in the order
of declarations because insertion points are (`SurvivorsGo`); the preface is
first by `Fronted` (`OrderRight`). What a container holds lies in the same edit
as its opening, or stays between its ends, and so does the delimiter; what it
does not hold lies before its start or after its end (`NestingRight`). The
terminator `InheritEOF` may append changes none of this (`AsNamedStays`).

`LinesStayApart` is `LinesApart` of the same files. A planned edit puts a
declaration in the place of one, takes whole lines out or brings lines
(`KeepsLines`), which merging preserves. `PrefixIntact` says that the tokens
beside a range are still HEAD's when it is spliced, and a gap is never less than
one newline (`LinedJoin`), so each splice leaves the lines apart (`LinedInv`).

`DiffRunProofs`, for any numbers of files, languages, requests and goroutines,
from `DiffRunAssumption` (the files' languages are languages, each file has its
place in the order of paths). `RunInv` says which goroutines exist at each
place of `Run` (`Waves`), that the holder of the mutex is the only one who
dials and what it knows of its language (`Dialling`), and what the session's
entry for a language says of its process (`Accounted`). From that:
`StartedOnce`, `ClosedUnused`, `NothingLeft`. `OrderOfTheFiles`: the results lie
in slots by file, so the first error and the warnings do not depend on who
ended first, and rows sorted by path are one list whatever order they came in
(`Rank`, `ByPath`). `TypeCorrect`: a slot of the semaphore is taken by each
goroutine there is, a pipe holds no more than its room.

`CatFileProofs`, for any number of requests and any sizes of the buffer and the
pipes, from `BatchAssumption` (the repository has something of the five kinds
for every request, the sizes are natural numbers). A header carries no request number, so what an answer
belongs to is known by its order alone, and the invariant has to supply the
number: `Numbers(o)` says that `o` numbers the pieces between git and the
caller by request, each answer complete, without a gap, from the one the caller
is at to the last that git has read; `AnswersInOrder` is that some `o` does.
`RequestsInOrder` says the same of the other direction, where a request is its
own number. What git reads extends `o` by the next number, what the caller
reads shifts it (`NumbersShift`), and everything else keeps it. A garbled
header is followed by a piece the caller could take for anything; it never
reads on. From that: `AnswersReachTheirRequests`.

The inductive invariants of the first three were also checked by TLC on the
`only` and `mixed` instances (`dial` for `LspDaemon`) before they were proved.

The parts of `SpliceInv` and `BlobInv` that are no properties themselves
(`Sourced`, `Chosen`, `EndInv`, `Gathered`, `Progress`, `Accounted`, `Fronted`,
`Origins`, `Complete`, `EndsInv`, `LinedInv`) and `Placed` for every new
declaration were checked on the instance of `synth` before they were proved.

## 5. Only model-checked

- `Termination`, `DialReturns`, `Recovers` and `Returns`: liveness under
  fairness is outside the proof system's reach here.
- `RoundTrip` compares the staged text with the worktree gap by gap. The proofs
  follow tokens and leave the widths of blanks open; a proof needs what
  rendering makes of each gap, an induction over data.
- `StagedAsNamed` and `LinesApart` of files with sections, whose edits are not
  tidy: an extent ends in the newlines before the next heading, and the offsets
  after a splice are no longer HEAD's (`synthpanic`).
- `EndsAsBefore` where a new declaration is spliced into a container: the
  edits are not tidy then, and it does not hold of every layout. In the runs'
  layouts it does.

## 6. Where code and words disagree

- `amend`: `docs/USAGE.md` says another writer moving HEAD during an `--only`
  commit gives 128; with `--amend`, and on an unborn branch, it goes unnoticed.
- `restore`: a comment says restoring the snapshot destroys nothing; it takes
  out of the index what others staged while the commit ran.
- `cancel`: comments say a live daemon's socket is left alone; an interrupted
  invocation, whose dials all fail at once, removes it and starts a second
  daemon.
- `stuck`: the changelog says a stuck daemon that rgit started is terminated;
  the pid file may name another daemon, because the lock is given back before
  the new daemon has bound the socket.
- `synthnest`: the package promises the blob with only the named symbols
  changed; a new top-level declaration that follows a container with members is
  spliced into the container, because the nearest earlier declaration HEAD has
  is the container's last member.
- `synthpanic`: an earlier splice is said never to invalidate a later offset;
  deleting a file's last section trims newlines that the section before it
  owns, and replacing that one in the same command slices out of range.

Seen while modelling, not made a run:

- A comment (gitx.go:911-912) says HEAD cannot move under another rgit while
  `--only` builds its commit. A plain `rgit commit` takes no lock and moves it:
  `HeadStill` holds among `--only` processes, and a plain one breaks it.
- Sections: a worktree section that is the file's last and has no newline at
  its end, replacing a section that is not the last in HEAD, runs into the
  next heading; the exception in `LinesApart`.
- Sections: replacing the last one gives the file the worktree's end, not
  HEAD's, although the comment on `spliceReplace` says it is inherited; a test
  of the YAML extents pins that an extent owns its final newline. Hence the
  exception in `EndsAsBefore`.
- `RoundTrip` holds for `braces` only: in Python the first member of a class
  gets a blank line before it, and deleting the last leaves the narrower gap.
- `BatchCatFile` is said to return "the same content and the same exists
  convention CatFile itself returns" (gitx.go:351-355). Where `rgit diff A B`
  asks for both sides of a path that is a file in one and a directory in the
  other (run.go:78-88, scope.go:180-182), `readCatFileBatchResponses` ignores
  the type and returns the tree's raw entries (gitx.go:497-511), while
  `cat-file -p` prints a listing of them. `AnswersMatch` says what the code
  does; the comment is false of trees.
- The retry of a promised blob (gitx.go:441) reads `rev:path` anew.

## 7. Not modelled

- The resolver (index, extents, pseudo-anchors, cross-check verdict) and the
  attribution of hunks: pure functions of syntax trees and texts. A model that
  did not carry syntax trees would state the answer instead of computing it;
  the models above take extents and verdicts as inputs instead.
- Argument classification and the refusals of special paths: one decision
  each, without state; a refusal is an outcome of the planning actions.
- log, blame, show, context, symbols, completion, doctor, languages,
  prerequisites, installer: single git calls and text.
- The C files, `resolve/scssgrammar/csrc` and `resolve/json5grammar/csrc`:
  parse tables generated by tree-sitter, its headers and upstream's scanner.
  They are nearly all lines of C in the repository and no part of rgit's own
  logic, which is Go; no definition maps to them.
- Within the modelled components: what sections 2 and 3 list as left out.

## 8. What is left

- Sections: which of their edits can be spliced all the same, as a condition
  weaker than `KeptTidy` from which `StagedAsNamed` follows.
- `RoundTrip`, from a `Ledger` that counts newlines, too.
- The composition of `BlobSynth`'s refusals with `RgitCommit`'s `PlanTargets`.
