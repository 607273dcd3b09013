-------------------------------- MODULE DiffRun --------------------------------
(***************************************************************************)
(* The concurrent part of `rgit diff` (Run, src/internal/diff/run.go): the *)
(* blobs are fetched first (CatFileBatch), then a bounded number of        *)
(* goroutines build the reports of the tracked files and after them of the *)
(* untracked ones, all asking one Session (src/internal/lsp/session.go)    *)
(* for the server of their language, and the reports are merged by file.   *)
(*                                                                         *)
(* The servers are the stdio ones, a process each; the daemon of the       *)
(* socket servers is the subject of LspDaemon.                             *)
(***************************************************************************)
EXTENDS CatFileBatch, FiniteSets

CONSTANTS Tracked,        \* how many tracked files changed
          Untracked,      \* how many files git does not track
          PathOrder,      \* all of them as sortReport leaves them: by path,
                          \* and two rows of one path (it was taken out of
                          \* the index only) as that sort orders equals
          Languages,      \* those that have a server
          NoLanguage,     \* the language of a file that has none
          Projects,       \* the languages the files may have: [Files -> ...]
          MaxConcurrent   \* maxConcurrentFileReports

Files    == 1..(Tracked + Untracked)
Nobody   == 0

Report(files, warnings) ==
  [error |-> "none", file |-> Nobody, files |-> files, warnings |-> warnings]

NoReport == Report(<<>>, <<>>)

ASSUME DiffRunAssumption ==
  /\ Tracked \in Nat /\ Untracked \in Nat
  /\ PathOrder \in [Files -> Files]
  /\ \A i \in Files : \E k \in Files : PathOrder[k] = i
  /\ \A j, k \in Files : PathOrder[j] = PathOrder[k] => j = k
  /\ NoLanguage \notin Languages
  /\ Projects \subseteq [Files -> Languages \cup {NoLanguage}]

VARIABLES
  language,  \* of each file
  failing,   \* the files whose report cannot be built
  main,      \* where Run is
  launched,  \* goroutines started
  slots,     \* taken slots of the semaphore
  worker,    \* where each file's goroutine is
  built,     \* the results slice
  mutex,     \* whose goroutine holds Session.mu
  client,    \* the session's entry for a language
  server,    \* the process behind it
  spawned,   \* how many processes were started for it
  report     \* what Run returns

fanVars == <<language, failing, main, launched, slots, worker, built, mutex, client,
             server, spawned, report>>
vars == <<batchVars, fanVars>>

Init ==
  /\ BatchInit
  /\ language \in Projects
  /\ failing \in SUBSET Files
  /\ main = "prefetch"
  /\ launched = 0
  /\ slots = 0
  /\ worker = [i \in Files |-> "idle"]
  /\ built = [i \in Files |-> "none"]
  /\ mutex = Nobody
  /\ client = [l \in Languages |-> "none"]
  /\ server = [l \in Languages |-> "none"]
  /\ spawned = [l \in Languages |-> 0]
  /\ report = NoReport

(* Run fails at a step of its own, or with the error of a file. *)
Fails(step, file) ==
  /\ report' = [error |-> step, file |-> file, files |-> <<>>, warnings |-> <<>>]
  /\ main' = "close"

-----------------------------------------------------------------------------
(* The main goroutine. *)

Prefetch ==
  /\ main = "prefetch"
  /\ BatchNext
  /\ UNCHANGED fanVars

Prefetched ==
  /\ main = "prefetch"
  /\ caller = "returned"
  /\ IF err = "none" THEN main' = "tracked" /\ UNCHANGED report
     ELSE Fails("prefetch", Nobody)
  /\ UNCHANGED <<batchVars, language, failing, launched, slots, worker, built, mutex,
                 client, server, spawned>>

(* The files of the wave Run is in: one call of parallelFileReports.       *)
WaveStart == IF main = "untracked" THEN Tracked ELSE 0

WaveLength == IF main = "tracked" THEN Tracked
              ELSE IF main = "untracked" THEN Untracked ELSE 0

Wave == (WaveStart + 1)..(WaveStart + WaveLength)

(* sem <- struct{}{}, and the goroutine. *)
Launch ==
  /\ launched + 1 \in Wave
  /\ slots < MaxConcurrent
  /\ launched' = launched + 1
  /\ slots' = slots + 1
  /\ worker' = [worker EXCEPT ![launched + 1] = "build"]
  /\ UNCHANGED <<batchVars, language, failing, main, built, mutex, client, server,
                 spawned, report>>

(* Mutant of WaveEnded: the results are there, or have been started. *)
WaveLaunched == launched + 1 \notin Wave

(* wg.Wait *)
WaveEnded == \A i \in Wave : worker[i] = "ended"

Errors == {i \in Wave : built[i] = "error"}

(* Mutant of FirstError: the last one wins. *)
LastError(S) == CHOOSE i \in S : \A j \in S : j <= i

FirstError(S) == CHOOSE i \in S : \A j \in S : i <= j

(* Each file adds its rows, and whatever warnings it has.  *)
Merged ==
  LET results == [k \in 1..WaveLength |-> WaveStart + k]
  IN  Report(report.files \o results, report.warnings \o results)

(* Where a file's path comes among the others. *)
Rank(i) == CHOOSE k \in Files : PathOrder[k] = i

(* sortReport: the rows by path; the warnings stay as they came.           *)
ByPath(files) ==
  LET rows == DOMAIN files
  IN  CHOOSE s \in [rows -> {files[k] : k \in rows}] :
        \A j, k \in rows : j < k => Rank(s[j]) < Rank(s[k])

Sorted(r) == [r EXCEPT !.files = ByPath(@)]

(* Results are merged in the order of the files, not of their goroutines.  *)
(* A scope without untracked files skips their wave; one with them lists   *)
(* them even if there are none.                                            *)
Merge ==
  /\ main \in {"tracked", "untracked"}
  /\ WaveEnded
  /\ \/ /\ Errors # {}
        /\ Fails("build", FirstError(Errors))
     \/ /\ Errors = {}
        /\ \/ /\ main = "tracked"
              /\ main' = "list"
              /\ report' = Merged
           \/ /\ main = "untracked" \/ Untracked = 0
              /\ main' = "close"
              /\ report' = Sorted(Merged)
  /\ UNCHANGED <<batchVars, language, failing, launched, slots, worker, built, mutex,
                 client, server, spawned>>

(* ls-files --others. *)
ListUntracked ==
  /\ main = "list"
  /\ \/ main' = "untracked" /\ UNCHANGED report
     \/ Fails("list", Nobody)
  /\ UNCHANGED <<batchVars, language, failing, launched, slots, worker, built, mutex,
                 client, server, spawned>>

(* Session.Close, deferred: the connection, then kill and reap. *)
CloseClient(l) ==
  /\ main = "close"
  /\ client[l] = "live"
  /\ client' = [client EXCEPT ![l] = "closed"]
  /\ server' = [server EXCEPT ![l] = "reaped"]
  /\ UNCHANGED <<batchVars, language, failing, main, launched, slots, worker, built,
                 mutex, spawned, report>>

Return ==
  /\ main = "close"
  /\ \A l \in Languages : client[l] # "live"
  /\ main' = "returned"
  /\ UNCHANGED <<batchVars, language, failing, launched, slots, worker, built, mutex,
                 client, server, spawned, report>>

-----------------------------------------------------------------------------
(* A file's goroutine: build(i), then the deferred releases. *)

(* Binary, mode-only and unsupported files have no server to ask, nor has  *)
(* a comparison of two revisions; and a report may fail before it comes to *)
(* the cross-check.                                                        *)
Build(i) ==
  /\ worker[i] = "build"
  /\ \/ language[i] # NoLanguage /\ worker' = [worker EXCEPT ![i] = "dial"]
     \/ /\ language[i] = NoLanguage \/ i \in failing
        /\ worker' = [worker EXCEPT ![i] = "finish"]
  /\ UNCHANGED <<batchVars, language, failing, main, launched, slots, built, mutex,
                 client, server, spawned, report>>

Lock(i) ==
  /\ worker[i] = "dial"
  /\ mutex = Nobody
  /\ mutex' = i
  /\ worker' = [worker EXCEPT ![i] = "locked"]
  /\ UNCHANGED <<batchVars, language, failing, main, launched, slots, built, client,
                 server, spawned, report>>

(* Mutant of Known: a language that degraded is dialled again. *)
KnownLive(l) == client[l] = "live"

(* The session has an answer for l. *)
Known(l) == client[l] # "none"

(* A cached client, or what degraded stays degraded. *)
Cached(i) ==
  /\ worker[i] = "locked"
  /\ Known(language[i])
  /\ mutex' = Nobody
  /\ worker' = [worker EXCEPT ![i] =
                  IF client[language[i]] = "live" THEN "query" ELSE "finish"]
  /\ UNCHANGED <<batchVars, language, failing, main, launched, slots, built, client,
                 server, spawned, report>>

(* dialStdio: no such program, no pipe or no process. *)
SpawnFails(i) ==
  /\ worker[i] = "locked"
  /\ ~Known(language[i])
  /\ client' = [client EXCEPT ![language[i]] = "degraded"]
  /\ mutex' = Nobody
  /\ worker' = [worker EXCEPT ![i] = "finish"]
  /\ UNCHANGED <<batchVars, language, failing, main, launched, slots, built, server,
                 spawned, report>>

Spawn(i) ==
  /\ worker[i] = "locked"
  /\ ~Known(language[i])
  /\ server' = [server EXCEPT ![language[i]] = "running"]
  /\ spawned' = [spawned EXCEPT ![language[i]] = @ + 1]
  /\ worker' = [worker EXCEPT ![i] = "handshake"]
  /\ UNCHANGED <<batchVars, language, failing, main, launched, slots, built, mutex,
                 client, report>>

(* Mutant of Discarded: the process is left to itself. *)
DiscardedUnreaped(l) == server

(* killAndReap *)
Discarded(l) == [server EXCEPT ![l] = "reaped"]

HandshakeFails(i) ==
  /\ worker[i] = "handshake"
  /\ server' = Discarded(language[i])
  /\ client' = [client EXCEPT ![language[i]] = "degraded"]
  /\ mutex' = Nobody
  /\ worker' = [worker EXCEPT ![i] = "finish"]
  /\ UNCHANGED <<batchVars, language, failing, main, launched, slots, built, spawned,
                 report>>

HandshakeOK(i) ==
  /\ worker[i] = "handshake"
  /\ server[language[i]] = "running"
  /\ client' = [client EXCEPT ![language[i]] = "live"]
  /\ mutex' = Nobody
  /\ worker' = [worker EXCEPT ![i] = "query"]
  /\ UNCHANGED <<batchVars, language, failing, main, launched, slots, built, server,
                 spawned, report>>

(* The server answers, or fails, or queryDeadline passes. *)
Query(i) ==
  /\ worker[i] = "query"
  /\ worker' = [worker EXCEPT ![i] = "finish"]
  /\ UNCHANGED <<batchVars, language, failing, main, launched, slots, built, mutex,
                 client, server, spawned, report>>

(* Mutant of Released: only the path that succeeds gives the slot back.    *)
ReleasedByTheBuilt(i) == IF i \in failing THEN slots ELSE slots - 1

(* The deferred receive from sem. *)
Released(i) == slots - 1

Finish(i) ==
  /\ worker[i] = "finish"
  /\ built' = [built EXCEPT ![i] = IF i \in failing THEN "error" ELSE "ok"]
  /\ slots' = Released(i)
  /\ worker' = [worker EXCEPT ![i] = "ended"]
  /\ UNCHANGED <<batchVars, language, failing, main, launched, mutex, client, server,
                 spawned, report>>

(* A server crashes, or the context ends and it is killed. *)
ServerDies(l) ==
  /\ server[l] = "running"
  /\ server' = [server EXCEPT ![l] = "exited"]
  /\ UNCHANGED <<batchVars, language, failing, main, launched, slots, worker, built,
                 mutex, client, spawned, report>>

-----------------------------------------------------------------------------
MainStep == \/ Prefetched \/ Launch \/ Merge \/ ListUntracked \/ Return
            \/ \E l \in Languages : CloseClient(l)

WorkerStep(i) == \/ Build(i) \/ Lock(i) \/ Cached(i) \/ SpawnFails(i) \/ Spawn(i)
                 \/ HandshakeFails(i) \/ HandshakeOK(i) \/ Query(i) \/ Finish(i)

Next == \/ Prefetch
        \/ MainStep
        \/ \E i \in Files : WorkerStep(i)
        \/ \E l \in Languages : ServerDies(l)

(* Every goroutine is scheduled, git works at its own pace, a query and a  *)
(* handshake end at their deadlines.  Nothing makes a process die.         *)
Fairness ==
  /\ WF_vars(main = "prefetch" /\ WriterStep /\ UNCHANGED fanVars)
  /\ WF_vars(main = "prefetch" /\ GitStep /\ UNCHANGED fanVars)
  /\ WF_vars(main = "prefetch" /\ CallerStep /\ UNCHANGED fanVars)
  /\ WF_vars(MainStep)
  /\ \A i \in Files : WF_vars(WorkerStep(i))

Spec == Init /\ [][Next]_vars /\ Fairness

-----------------------------------------------------------------------------
(* Properties. *)

TypeOK ==
  /\ store \in [1..Requests -> Kinds]
  /\ written \in 0..Requests
  /\ buffer \in Seq(1..Requests) /\ Len(buffer) <= BufferCap
  /\ writer \in {"unstarted", "writing", "closed", "failed"}
  /\ stdin \in Seq(1..Requests) /\ Len(stdin) <= PipeCap
  /\ git \in {"unstarted", "serving", "exited", "killed", "reaped"}
  /\ Len(unsent) <= 2 /\ Len(stdout) <= PipeCap
  /\ caller \in {"start", "header", "content", "join", "wait", "retry", "returned"}
  /\ answers \in Seq(0..Requests) /\ Len(answers) <= Requests
  /\ main \in {"prefetch", "tracked", "list", "untracked", "close", "returned"}
  /\ launched \in 0..(Tracked + Untracked)
  /\ slots = Cardinality({i \in Files : worker[i] \notin {"idle", "ended"}})
  /\ mutex \in Files \cup {Nobody}
  /\ \A i \in Files : worker[i] \in {"locked", "handshake"} <=> mutex = i
  /\ client \in [Languages -> {"none", "live", "degraded", "closed"}]
  /\ server \in [Languages -> {"none", "running", "exited", "reaped"}]

(* Results come back in request order (BatchCatFile, gitx.go:355-360): what *)
(* it returns without an error is, for every request, the bytes of that    *)
(* request's object, a tree's raw ones too (readCatFileBatchResponses      *)
(* never looks at the type), or nothing for a path that is not there or is *)
(* a submodule, however the pipes filled and whenever git went away.       *)
AnswersMatch ==
  caller = "returned" /\ err = "none" =>
    /\ Len(answers) = Requests
    /\ \A r \in 1..Requests : answers[r] = Expected(r)

(* Nothing outlives the call: when Run returns, on any path, git is        *)
(* reaped and its writer has ended (gitx.go:408-421), and every server     *)
(* that was started is killed and reaped (session.go:75-92, dial.go:352).  *)
NothingOutlives ==
  main = "returned" =>
    /\ git \in {"unstarted", "reaped"}
    /\ writer # "writing"
    /\ \A l \in Languages : server[l] \in {"none", "reaped"}

(* One server per language and invocation, however many goroutines ask at  *)
(* once, and none is tried again after it failed (session.go:8-27).        *)
OneServer == \A l \in Languages : spawned[l] <= 1

(* Session.Close, which takes no lock, never closes a client that a        *)
(* goroutine is using or about to use (session.go:75-82).                  *)
UsedWhileOpen ==
  main \in {"close", "returned"} =>
    \A i \in Files : worker[i] \notin {"dial", "locked", "handshake", "query"}

(* The report, and its error, are the ones a sequential loop would have    *)
(* returned (parallelFileReports, run.go:133-139), whichever goroutine     *)
(* finishes first: rows by path, warnings in the order of the files.       *)
SameAsSequential ==
  main = "returned" =>
    \/ report.error = "prefetch"
    \/ report.error = "list" /\ failing \cap (1..Tracked) = {}
    \/ /\ report.error = "build" /\ report.file \in failing
       /\ \A j \in failing : report.file <= j
    \/ /\ failing = {}
       /\ report = Report(PathOrder, [i \in Files |-> i])

(* Run returns, unless git writes an answer no version of it is known to   *)
(* write: nobody then reads what git goes on to write, and both the join   *)
(* of the writer and cmd.Wait may block for good (gitx.go:406-416).        *)
Returns == <>(main = "returned" \/ garbled)
=============================================================================
