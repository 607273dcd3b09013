----------------------------- MODULE LspDaemon -----------------------------
(***************************************************************************)
(* How rgit processes share one gopls daemon: internal/lsp dialSocket,     *)
(* trySpawnDaemon and stopStrandedDaemon, with the three files they keep   *)
(* in the private directory (socket, spawn lock, pid file).                *)
(*                                                                         *)
(* A process of Procs stands for a sequence of rgit invocations, each of   *)
(* which dials once. pc[p] is the call it is about to make. The socket     *)
(* file is named by the daemon that bound it, dead or alive; the lock file *)
(* by the process that created it. `faults' records what went wrong so     *)
(* far; each kind happens at most once and MaxFaults bounds them together. *)
(***************************************************************************)
EXTENDS Naturals, FiniteSets

CONSTANTS
    Procs,        \* rgit processes
    Daemons,      \* gopls processes (a pool: a forgotten dead one is reused)
    NoProc, NoDaemon,
    FaultKinds,   \* the faults that may happen
    MaxFaults     \* bound: how many of them in one behaviour

AllFaults == {"crash", "cancel", "io", "hang", "exit", "slow"}

ASSUME NothingAssumption == NoProc \notin Procs /\ NoDaemon \notin Daemons
ASSUME FaultAssumption   == FaultKinds \subseteq AllFaults /\ MaxFaults \in Nat

VARIABLES
    pc,         \* where each invocation is
    conn,       \* the daemon it is connected to
    pid,        \* the daemon whose pid it holds (read or just spawned)
    second,     \* processes in their second attempt at the lock
    cancelled,  \* processes whose context is cancelled
    lock,       \* who created the lock file, NoProc when there is none
    stale,      \* the lock file is older than staleLockAge
    sock,       \* whose socket file lies at the managed path
    pidfile,    \* whose pid the pid file holds
    life,       \* the state of each daemon
    termed,     \* daemons that were sent SIGTERM
    faults      \* kinds of fault so far; "aged" once a lock became stale

local == <<pc, conn, pid, second, cancelled>>
files == <<lock, stale, sock, pidfile>>
vars  == <<local, files, life, termed, faults>>

Spawning == {"stat", "redial", "unlink", "start", "writepid", "unlock"}
Dialling == {"probe", "handshake", "readpid", "grace", "rmpid", "rmsock",
             "lock", "age", "rmlock"} \cup Spawning
Phases   == {"idle", "query"} \cup Dialling

Alive(d)     == d \in Daemons /\ life[d] # "dead"
\* connect() succeeds: the kernel answers for a listener, stuck or not
Listening(d) == d \in Daemons /\ life[d] \in {"ready", "hung"}
Healthy(d)   == d \in Daemons /\ life[d] = "ready"

TypeOK ==
    /\ pc \in [Procs -> Phases]
    /\ conn \in [Procs -> Daemons \cup {NoDaemon}]
    /\ pid \in [Procs -> Daemons \cup {NoDaemon}]
    /\ second \subseteq Procs /\ cancelled \subseteq Procs
    /\ lock \in Procs \cup {NoProc} /\ stale \in BOOLEAN
    /\ sock \in Daemons \cup {NoDaemon} /\ pidfile \in Daemons \cup {NoDaemon}
    /\ life \in [Daemons -> {"dead", "starting", "bound", "ready", "hung"}]
    /\ termed \subseteq {d \in Daemons : life[d] # "dead"}
    /\ faults \subseteq FaultKinds \cup {"aged"}

\* An empty directory, a socket its daemon left behind, or one in use
Init ==
    /\ pc = [p \in Procs |-> "idle"]
    /\ conn = [p \in Procs |-> NoDaemon] /\ pid = [p \in Procs |-> NoDaemon]
    /\ second = {} /\ cancelled = {}
    /\ lock = NoProc /\ stale = FALSE
    /\ \E d \in Daemons, l \in {"dead", "ready"} :
         /\ life = [e \in Daemons |-> IF e = d THEN l ELSE "dead"]
         /\ sock \in IF l = "ready" THEN {d} ELSE {d, NoDaemon}
         /\ pidfile \in IF l = "ready" THEN {d} ELSE {d, NoDaemon}
    /\ termed = {} /\ faults = {}

-----------------------------------------------------------------------------
(* Helpers *)

Goto(p, phase) == pc' = [pc EXCEPT ![p] = phase]

Fault(kind) ==
    /\ kind \in FaultKinds \ faults
    /\ Cardinality(faults \ {"aged"}) < MaxFaults
    /\ faults' = faults \cup {kind}

\* Dial returns, and the process goes on to its next invocation
Return(p) ==
    /\ Goto(p, "idle")
    /\ conn' = [conn EXCEPT ![p] = NoDaemon]
    /\ pid' = [pid EXCEPT ![p] = NoDaemon]
    /\ second' = second \ {p} /\ cancelled' = cancelled \ {p}

Step(p, phase) ==
    /\ Goto(p, phase)
    /\ UNCHANGED <<conn, pid, second, cancelled>>

Kill(d) ==
    /\ life' = [life EXCEPT ![d] = "dead"]
    /\ termed' = termed \ {d}

RemoveLockFile == lock' = NoProc /\ stale' = FALSE

\* A dial of the managed path within dialBudget
Answers(p) == p \notin cancelled /\ Listening(sock)

-----------------------------------------------------------------------------
(* dialSocket *)

Invoke(p) ==
    /\ pc[p] = "idle"
    /\ Step(p, "probe")
    /\ UNCHANGED <<files, life, termed, faults>>

Probe(p) ==
    /\ pc[p] = "probe"
    /\ \/ /\ Answers(p)
          /\ conn' = [conn EXCEPT ![p] = sock]
          /\ Goto(p, "handshake")
       \/ /\ ~Answers(p)
          /\ Goto(p, "lock") /\ UNCHANGED conn
    /\ UNCHANGED <<pid, second, cancelled, files, life, termed, faults>>

\* A daemon that does not answer runs into the deadline of the handshake
HandshakeOK(p) == Healthy(conn[p]) /\ p \notin cancelled

Handshake(p) ==
    /\ pc[p] = "handshake"
    /\ Step(p, IF HandshakeOK(p) THEN "query" ELSE "readpid")
    /\ UNCHANGED <<files, life, termed, faults>>

\* The queries, answered or not, and Session.Close
Close(p) ==
    /\ pc[p] = "query"
    /\ Return(p)
    /\ UNCHANGED <<files, life, termed, faults>>

-----------------------------------------------------------------------------
(* stopStrandedDaemon and the removal of the socket *)

\* Mutant: the recorded pid is signalled whatever process it now is
OursUnchecked == pidfile # NoDaemon

\* The pid read is that of a process with the argv of a daemon at this path
Ours == Alive(pidfile)

ReadPid(p) ==
    /\ pc[p] = "readpid"
    /\ \/ /\ Ours
          /\ pid' = [pid EXCEPT ![p] = pidfile]
          /\ termed' = termed \cup {pidfile}
          /\ Goto(p, "grace")
       \/ /\ ~Ours
          /\ Goto(p, "rmpid") /\ UNCHANGED <<pid, termed>>
    /\ UNCHANGED <<conn, second, cancelled, files, life, faults>>

\* Mutant: no SIGKILL, the wait goes on until the daemon is gone
GraceForever(p) == ~Alive(pid[p]) /\ UNCHANGED <<life, termed>>

\* The daemon went by itself, or SIGKILL follows at the end of stopGrace
GraceEnds(p) ==
    IF Alive(pid[p]) THEN Kill(pid[p]) ELSE UNCHANGED <<life, termed>>

Grace(p) ==
    /\ pc[p] = "grace"
    /\ GraceEnds(p)
    /\ Goto(p, "rmpid") /\ pid' = [pid EXCEPT ![p] = NoDaemon]
    /\ UNCHANGED <<conn, second, cancelled, files, faults>>

RemovePid(p) ==
    /\ pc[p] = "rmpid"
    /\ pidfile' = NoDaemon
    /\ Step(p, "rmsock")
    /\ UNCHANGED <<lock, stale, sock, life, termed, faults>>

RemoveSocket(p) ==
    /\ pc[p] = "rmsock"
    /\ sock' = NoDaemon
    /\ conn' = [conn EXCEPT ![p] = NoDaemon] /\ Goto(p, "lock")
    /\ UNCHANGED <<pid, second, cancelled, lock, stale, pidfile, life, termed,
                   faults>>

-----------------------------------------------------------------------------
(* acquireSpawnLock *)

\* Mutant: O_EXCL is missing
CreateAnyway == TRUE

\* O_CREATE|O_EXCL
CanCreate == lock = NoProc

AcquireLock(p) ==
    /\ pc[p] = "lock"
    /\ \/ /\ CanCreate
          /\ lock' = p /\ stale' = FALSE
          /\ Step(p, "stat")
       \/ /\ lock # NoProc
          /\ Step(p, "age") /\ UNCHANGED <<lock, stale>>
    /\ UNCHANGED <<sock, pidfile, life, termed, faults>>

AgeLock(p) ==
    /\ pc[p] = "age"
    /\ IF lock # NoProc /\ stale THEN Step(p, "rmlock") ELSE Return(p)
    /\ UNCHANGED <<files, life, termed, faults>>

\* Whatever lock lies there now is removed; a second failure gives up
RemoveLock(p) ==
    /\ pc[p] = "rmlock"
    /\ RemoveLockFile
    /\ IF lock # NoProc /\ p \notin second
       THEN /\ Goto(p, "lock") /\ second' = second \cup {p}
            /\ UNCHANGED <<conn, pid, cancelled>>
       ELSE Return(p)
    /\ UNCHANGED <<sock, pidfile, life, termed, faults>>

-----------------------------------------------------------------------------
(* trySpawnDaemon under the lock *)

StatSocket(p) ==
    /\ pc[p] = "stat"
    /\ Step(p, IF sock = NoDaemon THEN "start" ELSE "redial")
    /\ UNCHANGED <<files, life, termed, faults>>

\* Mutants: the socket is removed without a dial, or always left alone
SocketUntried(p) == TRUE
SocketTrusted(p) == FALSE

SocketDead(p) == ~Answers(p)

Redial(p) ==
    /\ pc[p] = "redial"
    /\ Step(p, IF SocketDead(p) THEN "unlink" ELSE "start")
    /\ UNCHANGED <<files, life, termed, faults>>

UnlinkDead(p) ==
    /\ pc[p] = "unlink"
    /\ sock' = NoDaemon
    /\ Step(p, "start")
    /\ UNCHANGED <<lock, stale, pidfile, life, termed, faults>>

\* Names nothing refers to any more
Unused(d) ==
    /\ ~Alive(d) /\ d \notin {sock, pidfile}
    /\ \A p \in Procs : d \notin {conn[p], pid[p]}

StartDaemon(p) ==
    /\ pc[p] = "start"
    /\ \/ \E d \in Daemons :
            /\ Unused(d)
            /\ life' = [life EXCEPT ![d] = "starting"]
            /\ pid' = [pid EXCEPT ![p] = d]
            /\ Goto(p, "writepid") /\ UNCHANGED faults
       \/ /\ \/ Fault("io")                                  \* Start fails
             \/ (\A d \in Daemons : ~Unused(d)) /\ UNCHANGED faults
          /\ Goto(p, "unlock") /\ UNCHANGED <<life, pid>>
    /\ UNCHANGED <<conn, second, cancelled, files, termed>>

WritePid(p) ==
    /\ pc[p] = "writepid"
    /\ \/ pidfile' = pid[p] /\ UNCHANGED faults
       \/ Fault("io") /\ UNCHANGED pidfile
    /\ pid' = [pid EXCEPT ![p] = NoDaemon] /\ Goto(p, "unlock")
    /\ UNCHANGED <<conn, second, cancelled, lock, stale, sock, life, termed>>

\* The deferred removal: by name, whoever created the file
Unlock(p) ==
    /\ pc[p] = "unlock"
    /\ RemoveLockFile
    /\ Return(p)
    /\ UNCHANGED <<sock, pidfile, life, termed, faults>>

-----------------------------------------------------------------------------
(* What happens to an invocation: the user's Ctrl-C, a kill *)

Cancel(p) ==
    /\ pc[p] # "idle" /\ Fault("cancel")
    /\ cancelled' = cancelled \cup {p}
    /\ UNCHANGED <<pc, conn, pid, second, files, life, termed>>

Crash(p) ==
    /\ pc[p] # "idle" /\ Fault("crash")
    /\ Return(p)
    /\ UNCHANGED <<files, life, termed>>

\* A minute passes: a spawn does not take that long, an abandoned lock does
LockAges ==
    /\ lock # NoProc /\ ~stale /\ pc[lock] \notin Spawning
    /\ stale' = TRUE /\ faults' = faults \cup {"aged"}
    /\ UNCHANGED <<local, lock, sock, pidfile, life, termed>>

-----------------------------------------------------------------------------
(* gopls: bind, listen, serve, and the ways it ends. The socket file stays *)

Bind(d) ==
    /\ life[d] = "starting"
    /\ \/ /\ sock = NoDaemon
          /\ sock' = d
          /\ \/ life' = [life EXCEPT ![d] = "ready"] /\ UNCHANGED faults
             \/ life' = [life EXCEPT ![d] = "bound"] /\ Fault("slow")
          /\ UNCHANGED termed
       \/ /\ sock # NoDaemon                                 \* EADDRINUSE
          /\ Kill(d) /\ UNCHANGED <<sock, faults>>
    /\ UNCHANGED <<local, lock, stale, pidfile>>

Listen(d) ==
    /\ life[d] = "bound"
    /\ life' = [life EXCEPT ![d] = "ready"]
    /\ UNCHANGED <<local, files, termed, faults>>

Hang(d) ==
    /\ life[d] = "ready" /\ Fault("hang")
    /\ life' = [life EXCEPT ![d] = "hung"]
    /\ UNCHANGED <<local, files, termed>>

Exit(d) ==
    /\ Alive(d) /\ Fault("exit")
    /\ Kill(d)
    /\ UNCHANGED <<local, files>>

HonourTerm(d) ==
    /\ d \in termed
    /\ Kill(d)
    /\ UNCHANGED <<local, files, faults>>

\* -listen.timeout: a daemon nobody can reach any more has no clients left
IdleExit(d) ==
    /\ life[d] = "ready" /\ sock # d /\ \A p \in Procs : conn[p] # d
    /\ Kill(d)
    /\ UNCHANGED <<local, files, faults>>

-----------------------------------------------------------------------------
DialStep(p) ==
    \/ Invoke(p) \/ Probe(p) \/ Handshake(p) \/ Close(p)
    \/ ReadPid(p) \/ Grace(p) \/ RemovePid(p) \/ RemoveSocket(p)
    \/ AcquireLock(p) \/ AgeLock(p) \/ RemoveLock(p)
    \/ StatSocket(p) \/ Redial(p) \/ UnlinkDead(p)
    \/ StartDaemon(p) \/ WritePid(p) \/ Unlock(p)

ServerStep(d) == Bind(d) \/ Listen(d) \/ IdleExit(d)
Trouble(d)    == Hang(d) \/ Exit(d) \/ HonourTerm(d)

Next ==
    \/ \E p \in Procs : DialStep(p) \/ Cancel(p) \/ Crash(p)
    \/ \E d \in Daemons : ServerStep(d) \/ Trouble(d)
    \/ LockAges

Spec == Init /\ [][Next]_vars

\* rgit is run again and again, gopls starts up, time passes. A daemon need
\* not answer, nor go when it is told to.
FairSpec ==
    /\ Spec
    /\ \A p \in Procs : WF_vars(DialStep(p))
    /\ \A d \in Daemons : WF_vars(ServerStep(d))
    /\ WF_vars(LockAges)

-----------------------------------------------------------------------------
(* Properties *)

\* Until a lock is declared stale, one process at a time is between
\* acquireSpawnLock and the deferred removal, and the lock file is its own.
SpawnExclusive ==
    "aged" \notin faults => \A p \in Procs : pc[p] \in Spawning => lock = p

\* What the lock is worth: as long as no daemon fails and no lock goes stale,
\* rgit never signals a healthy daemon nor takes its socket away, whatever
\* other invocations do and wherever one of them is killed.
HealthyKept ==
    [][faults' \subseteq {"crash"} =>
         \A d \in Daemons : Healthy(d) /\ sock = d =>
             life'[d] = "ready" /\ sock' = d /\ d \notin termed']_vars

\* A query never waits for a daemon, a spawn or another process: each dial
\* returns, though a stuck daemon neither answers nor heeds SIGTERM.
DialReturns == \A p \in Procs : pc[p] = "probe" ~> pc[p] = "idle"

\* Nothing pins later invocations to [ts-only]: whatever was left behind
\* (dead socket, stuck daemon, abandoned lock, wrong pid), once invocations no
\* longer overlap, a healthy daemon comes to listen at the path, and stays.
AloneInDir == \A p, q \in Procs : pc[p] # "idle" /\ pc[q] # "idle" => p = q
Recovers   == <>[]AloneInDir => <>[]Healthy(sock)

\* The comments on trySpawnDaemon and unlinkDeadSocket: "a live daemon actually
\* listening there is left alone".
LiveSocketKept == [][\A p \in Procs : UnlinkDead(p) => ~Listening(sock)]_vars

\* CHANGELOG: a stuck daemon that rgit started and whose handshake fails is
\* terminated rather than stranded.
StuckIsStopped == \A p \in Procs : pc[p] = "rmsock" => ~Alive(conn[p])

=============================================================================
