-------------------------- MODULE LspDaemonProofs --------------------------
(***************************************************************************)
(* What the spawn lock gives, for any processes, daemons and faults: one   *)
(* spawner at a time until a lock goes stale, and healthy daemons that are *)
(* never cut off until a daemon fails or a lock goes stale.                *)
(***************************************************************************)
EXTENDS LspDaemon, TLAPS

\* The lock file is removed by another than its creator only once it is stale
LockHeld ==
    /\ (stale \/ \E p \in Procs : pc[p] = "rmlock") => "aged" \in faults
    /\ SpawnExclusive

\* In the absence of faults no handshake fails, and the socket a lock holder
\* is about to remove is, and stays, a dead one
Untroubled ==
    /\ termed = {} /\ cancelled = {}
    /\ \A d \in Daemons : life[d] \in {"dead", "starting", "ready"}
    /\ sock # NoDaemon => life[sock] # "starting"
    /\ \A p \in Procs :
         /\ pc[p] \notin {"readpid", "grace", "rmpid", "rmsock"}
         /\ pc[p] \in {"handshake", "query"} => Healthy(conn[p])
         /\ pc[p] = "redial" => sock # NoDaemon
         /\ pc[p] = "unlink" => sock # NoDaemon /\ life[sock] = "dead"

HealthyInv == faults \subseteq {"crash"} => Untroubled

-----------------------------------------------------------------------------
\* The initial states have their types.
LEMMA InitTyped == Init => TypeOK
  BY NothingAssumption DEF Init, TypeOK, Phases, Dialling, Spawning

\* Every step of a dial keeps the types.
LEMMA DialTyped ==
  ASSUME TypeOK, NEW p \in Procs, DialStep(p)
  PROVE  TypeOK'
<1> USE DEF TypeOK, Phases, Dialling, Spawning, Goto, Step, Return, local, files
<1>1. CASE Invoke(p)       BY <1>1 DEF Invoke
<1>2. CASE Probe(p)        BY <1>2 DEF Probe, Answers, Listening
<1>3. CASE Handshake(p)    BY <1>3 DEF Handshake
<1>4. CASE Close(p)        BY <1>4 DEF Close
<1>5. CASE ReadPid(p)      BY <1>5 DEF ReadPid, Ours, Alive
<1>6. CASE Grace(p)        BY <1>6 DEF Grace, GraceEnds, Kill, Alive
<1>7. CASE RemovePid(p)    BY <1>7 DEF RemovePid
<1>8. CASE RemoveSocket(p) BY <1>8 DEF RemoveSocket
<1>9. CASE AcquireLock(p)  BY <1>9 DEF AcquireLock
<1>10. CASE AgeLock(p)     BY <1>10 DEF AgeLock
<1>11. CASE RemoveLock(p)  BY <1>11 DEF RemoveLock, RemoveLockFile
<1>12. CASE StatSocket(p)  BY <1>12 DEF StatSocket
<1>13. CASE Redial(p)      BY <1>13 DEF Redial
<1>14. CASE UnlinkDead(p)  BY <1>14 DEF UnlinkDead
<1>15. CASE StartDaemon(p) BY <1>15 DEF StartDaemon, Unused, Alive, Fault
<1>16. CASE WritePid(p)    BY <1>16 DEF WritePid, Fault
<1>17. CASE Unlock(p)      BY <1>17 DEF Unlock, RemoveLockFile
<1>18. QED
  BY <1>1, <1>2, <1>3, <1>4, <1>5, <1>6, <1>7, <1>8, <1>9, <1>10, <1>11, <1>12,
     <1>13, <1>14, <1>15, <1>16, <1>17 DEF DialStep

\* So does everything else that happens.
LEMMA NextTyped == TypeOK /\ [Next]_vars => TypeOK'
<1> SUFFICES ASSUME TypeOK, [Next]_vars PROVE TypeOK'
  OBVIOUS
<1>1. ASSUME NEW p \in Procs, DialStep(p) PROVE TypeOK'
  BY <1>1, DialTyped
<1>2. ASSUME NEW p \in Procs, Cancel(p) \/ Crash(p) PROVE TypeOK'
  BY <1>2 DEF Cancel, Crash, Return, Goto, Fault, files, TypeOK, Phases, Dialling, Spawning
<1>3. ASSUME NEW d \in Daemons, ServerStep(d) \/ Trouble(d) PROVE TypeOK'
  <2> USE DEF TypeOK, Kill, Fault, local, files
  <2>1. CASE Bind(d)       BY <2>1 DEF Bind
  <2>2. CASE Listen(d)     BY <2>2 DEF Listen
  <2>3. CASE IdleExit(d)   BY <2>3 DEF IdleExit
  <2>4. CASE Hang(d)       BY <2>4 DEF Hang
  <2>5. CASE Exit(d)       BY <2>5 DEF Exit
  <2>6. CASE HonourTerm(d) BY <2>6 DEF HonourTerm
  <2>7. QED BY <1>3, <2>1, <2>2, <2>3, <2>4, <2>5, <2>6 DEF ServerStep, Trouble
<1>4. CASE LockAges
  BY <1>4 DEF LockAges, local, TypeOK
<1>5. CASE UNCHANGED vars
  BY <1>5 DEF vars, local, files, TypeOK
<1>6. QED
  BY <1>1, <1>2, <1>3, <1>4, <1>5 DEF Next

\* Types hold in every reachable state.
THEOREM DaemonTypeCorrect == Spec => []TypeOK
  BY InitTyped, NextTyped, PTL DEF Spec

-----------------------------------------------------------------------------
(* One spawner at a time *)

\* Faults are remembered.
LEMMA FaultsGrow == [Next]_vars => faults \subseteq faults'
<1> SUFFICES ASSUME [Next]_vars PROVE faults \subseteq faults'
  OBVIOUS
<1>1. ASSUME NEW p \in Procs, DialStep(p) PROVE faults \subseteq faults'
  BY <1>1 DEF DialStep, Invoke, Probe, Handshake, Close, ReadPid, Grace, RemovePid,
     RemoveSocket, AcquireLock, AgeLock, RemoveLock, StatSocket, Redial, UnlinkDead,
     StartDaemon, WritePid, Unlock, Fault
<1>2. ASSUME NEW p \in Procs, Cancel(p) \/ Crash(p) PROVE faults \subseteq faults'
  BY <1>2 DEF Cancel, Crash, Fault
<1>3. ASSUME NEW d \in Daemons, ServerStep(d) \/ Trouble(d) PROVE faults \subseteq faults'
  BY <1>3 DEF ServerStep, Trouble, Bind, Listen, IdleExit, Hang, Exit, HonourTerm, Fault
<1>4. CASE LockAges
  BY <1>4 DEF LockAges
<1>5. CASE UNCHANGED vars
  BY <1>5 DEF vars
<1>6. QED
  BY <1>1, <1>2, <1>3, <1>4, <1>5 DEF Next

\* Every step of a dial keeps LockHeld: only a creator enters the spawn
\* section, and only the process in it removes the file.
LEMMA DialHoldsLock ==
  ASSUME TypeOK, LockHeld, NEW p \in Procs, DialStep(p)
  PROVE  LockHeld'
<1> faults \subseteq faults'
  BY FaultsGrow DEF Next
<1> USE NothingAssumption DEF TypeOK, LockHeld, SpawnExclusive, Spawning, Goto, Step, Return,
      files
<1>1. CASE Invoke(p)       BY <1>1 DEF Invoke
<1>2. CASE Probe(p)        BY <1>2 DEF Probe
<1>3. CASE Handshake(p)    BY <1>3 DEF Handshake
<1>4. CASE Close(p)        BY <1>4 DEF Close
<1>5. CASE ReadPid(p)      BY <1>5 DEF ReadPid, Ours
<1>6. CASE Grace(p)        BY <1>6 DEF Grace
<1>7. CASE RemovePid(p)    BY <1>7 DEF RemovePid
<1>8. CASE RemoveSocket(p) BY <1>8 DEF RemoveSocket
<1>9. CASE AcquireLock(p)  BY <1>9 DEF AcquireLock, CanCreate
<1>10. CASE AgeLock(p)     BY <1>10 DEF AgeLock
<1>11. CASE RemoveLock(p)  BY <1>11 DEF RemoveLock, RemoveLockFile
<1>12. CASE StatSocket(p)  BY <1>12 DEF StatSocket
<1>13. CASE Redial(p)      BY <1>13 DEF Redial
<1>14. CASE UnlinkDead(p)  BY <1>14 DEF UnlinkDead
<1>15. CASE StartDaemon(p) BY <1>15 DEF StartDaemon
<1>16. CASE WritePid(p)    BY <1>16 DEF WritePid
<1>17. CASE Unlock(p)      BY <1>17 DEF Unlock, RemoveLockFile
<1>18. QED
  BY <1>1, <1>2, <1>3, <1>4, <1>5, <1>6, <1>7, <1>8, <1>9, <1>10, <1>11, <1>12,
     <1>13, <1>14, <1>15, <1>16, <1>17 DEF DialStep

\* LockHeld is inductive.
LEMMA NextHoldsLock == TypeOK /\ LockHeld /\ [Next]_vars => LockHeld'
<1> SUFFICES ASSUME TypeOK, LockHeld, [Next]_vars PROVE LockHeld'
  OBVIOUS
<1>0. faults \subseteq faults'
  BY FaultsGrow
<1>1. ASSUME NEW p \in Procs, DialStep(p) PROVE LockHeld'
  BY <1>1, DialHoldsLock
<1>2. ASSUME NEW p \in Procs, Cancel(p) \/ Crash(p) PROVE LockHeld'
  BY <1>0, <1>2 DEF Cancel, Crash, Return, Goto, files, TypeOK, LockHeld, SpawnExclusive,
     Spawning
<1>3. ASSUME NEW d \in Daemons, ServerStep(d) \/ Trouble(d) PROVE LockHeld'
  BY <1>0, <1>3 DEF ServerStep, Trouble, Bind, Listen, IdleExit, Hang, Exit, HonourTerm,
     local, files, LockHeld, SpawnExclusive
<1>4. CASE LockAges
  BY <1>4 DEF LockAges, local, LockHeld, SpawnExclusive
<1>5. CASE UNCHANGED vars
  BY <1>5 DEF vars, local, files, LockHeld, SpawnExclusive
<1>6. QED
  BY <1>1, <1>2, <1>3, <1>4, <1>5 DEF Next

\* Until a lock is declared stale the spawn section is exclusive.
THEOREM SpawnersExclude == Spec => []SpawnExclusive
<1>1. Init => LockHeld
  BY DEF Init, LockHeld, SpawnExclusive, Spawning
<1>2. LockHeld => SpawnExclusive
  BY DEF LockHeld
<1>3. QED
  BY <1>1, <1>2, NextHoldsLock, DaemonTypeCorrect, PTL DEF Spec

-----------------------------------------------------------------------------
(* Healthy daemons are kept *)

\* A directory is untroubled at first.
LEMMA InitHealthy == Init => HealthyInv
  BY DEF Init, HealthyInv, Untroubled

\* A step that leaves the behaviour free of faults other than a crash.
Quiet == faults' \subseteq {"crash"}

\* Every step of a dial keeps the socket of a healthy daemon, and the
\* invariant that says why.
LEMMA DialKeepsHealthy ==
  ASSUME TypeOK, LockHeld, Untroubled, faults \subseteq {"crash"}, Quiet,
         NEW p \in Procs, DialStep(p)
  PROVE  Untroubled'
<1>0. "aged" \notin faults /\ \A q \in Procs : pc[q] \in Spawning => lock = q
  BY DEF LockHeld, SpawnExclusive
<1>a. pc[p] # "rmlock"
  BY <1>0 DEF LockHeld
<1> USE <1>0, <1>a DEF TypeOK, Untroubled, Goto, Step, Return, files, Healthy
<1>1. CASE Invoke(p)       BY <1>1 DEF Invoke
<1>2. CASE Probe(p)        BY <1>2 DEF Probe, Answers, Listening
<1>3. CASE Handshake(p)    BY <1>3 DEF Handshake, HandshakeOK
<1>4. CASE Close(p)        BY <1>4 DEF Close
<1>5. CASE ReadPid(p)      BY <1>5 DEF ReadPid, Ours
<1>6. CASE Grace(p)        BY <1>6 DEF Grace
<1>7. CASE RemovePid(p)    BY <1>7 DEF RemovePid
<1>8. CASE RemoveSocket(p) BY <1>8 DEF RemoveSocket
<1>9. CASE AcquireLock(p)  BY <1>9 DEF AcquireLock
<1>10. CASE AgeLock(p)     BY <1>10 DEF AgeLock
<1>11. CASE RemoveLock(p)  BY <1>11 DEF RemoveLock
<1>12. CASE StatSocket(p)  BY <1>12 DEF StatSocket
<1>13. CASE Redial(p)      BY <1>13 DEF Redial, SocketDead, Answers, Listening
<1>14. CASE UnlinkDead(p)  BY <1>14 DEF UnlinkDead, Spawning
<1>15. CASE StartDaemon(p) BY <1>15 DEF StartDaemon, Unused, Alive, Fault, Quiet
<1>16. CASE WritePid(p)    BY <1>16 DEF WritePid
<1>17. CASE Unlock(p)      BY <1>17 DEF Unlock
<1>18. QED
  BY <1>1, <1>2, <1>3, <1>4, <1>5, <1>6, <1>7, <1>8, <1>9, <1>10, <1>11, <1>12,
     <1>13, <1>14, <1>15, <1>16, <1>17 DEF DialStep

\* HealthyInv is inductive.
LEMMA NextHealthy == TypeOK /\ LockHeld /\ HealthyInv /\ [Next]_vars => HealthyInv'
<1> SUFFICES ASSUME TypeOK, LockHeld, HealthyInv, [Next]_vars, Quiet
             PROVE  Untroubled'
  BY DEF HealthyInv, Quiet
<1>0. faults \subseteq {"crash"} /\ Untroubled
  BY FaultsGrow DEF Quiet, HealthyInv
<1>1. ASSUME NEW p \in Procs, DialStep(p) PROVE Untroubled'
  BY <1>0, <1>1, DialKeepsHealthy
<1>2. ASSUME NEW p \in Procs, Cancel(p) \/ Crash(p) PROVE Untroubled'
  BY <1>0, <1>2 DEF Cancel, Crash, Return, Goto, Fault, files, Quiet, Untroubled, TypeOK,
     Healthy
<1>3. ASSUME NEW d \in Daemons, ServerStep(d) \/ Trouble(d) PROVE Untroubled'
  <2> USE <1>0 DEF TypeOK, Untroubled, Healthy, Kill, Fault, Quiet, local, files
  <2>1. CASE Bind(d)       BY <2>1 DEF Bind
  <2>2. CASE Listen(d)     BY <2>2 DEF Listen
  <2>3. CASE IdleExit(d)   BY <2>3 DEF IdleExit
  <2>4. CASE Hang(d)       BY <2>4 DEF Hang
  <2>5. CASE Exit(d)       BY <2>5 DEF Exit
  <2>6. CASE HonourTerm(d) BY <2>6 DEF HonourTerm
  <2>7. QED BY <1>3, <2>1, <2>2, <2>3, <2>4, <2>5, <2>6 DEF ServerStep, Trouble
<1>4. CASE LockAges
  BY <1>4 DEF LockAges, Quiet
<1>5. CASE UNCHANGED vars
  BY <1>0, <1>5 DEF vars, local, files, Untroubled, Healthy
<1>6. QED
  BY <1>1, <1>2, <1>3, <1>4, <1>5 DEF Next

\* Under the invariant a step leaves a healthy daemon running, unsignalled and
\* reachable.
Kept == \A d \in Daemons : Healthy(d) /\ sock = d =>
            life'[d] = "ready" /\ sock' = d /\ d \notin termed'

\* What the invariant is for.
LEMMA StepKeeps == TypeOK /\ LockHeld /\ HealthyInv /\ [Next]_vars => (Quiet => Kept)
<1> SUFFICES ASSUME TypeOK, LockHeld, HealthyInv, [Next]_vars, Quiet,
                    NEW d \in Daemons, Healthy(d), sock = d
             PROVE  life'[d] = "ready" /\ sock' = d /\ d \notin termed'
  BY DEF Kept
<1>0. faults \subseteq {"crash"} /\ Untroubled
  BY FaultsGrow DEF Quiet, HealthyInv
<1>t. d \notin termed'
  BY <1>0, NextHealthy DEF HealthyInv, Untroubled, Quiet
<1> USE NothingAssumption, <1>0, <1>t DEF TypeOK, Untroubled, Healthy, files, local
<1>1. ASSUME NEW p \in Procs, DialStep(p) PROVE life'[d] = "ready" /\ sock' = d
  <2>1. CASE StartDaemon(p) BY <2>1 DEF StartDaemon, Unused, Alive
  <2>2. CASE UnlinkDead(p)  BY <2>2 DEF UnlinkDead
  <2>3. CASE ~StartDaemon(p) /\ ~UnlinkDead(p)
    BY <1>1, <2>3 DEF DialStep, Invoke, Probe, Handshake, Close, ReadPid, Grace, RemovePid,
       RemoveSocket, AcquireLock, AgeLock, RemoveLock, StatSocket, Redial, WritePid, Unlock
  <2>4. QED BY <2>1, <2>2, <2>3
<1>2. ASSUME NEW p \in Procs, Cancel(p) \/ Crash(p) PROVE life'[d] = "ready" /\ sock' = d
  BY <1>2 DEF Cancel, Crash
<1>3. ASSUME NEW e \in Daemons, ServerStep(e) \/ Trouble(e)
      PROVE  life'[d] = "ready" /\ sock' = d
  <2> USE DEF Kill, Fault, Quiet
  <2>1. CASE Bind(e)       BY <2>1 DEF Bind
  <2>2. CASE Listen(e)     BY <2>2 DEF Listen
  <2>3. CASE IdleExit(e)   BY <2>3 DEF IdleExit
  <2>4. CASE Hang(e)       BY <2>4 DEF Hang
  <2>5. CASE Exit(e)       BY <2>5 DEF Exit
  <2>6. CASE HonourTerm(e) BY <2>6 DEF HonourTerm
  <2>7. QED BY <1>3, <2>1, <2>2, <2>3, <2>4, <2>5, <2>6 DEF ServerStep, Trouble
<1>4. CASE LockAges
  BY <1>4 DEF LockAges
<1>5. CASE UNCHANGED vars
  BY <1>5 DEF vars
<1>6. QED
  BY <1>1, <1>2, <1>3, <1>4, <1>5 DEF Next

\* As long as no daemon fails and no lock goes stale, rgit neither signals a
\* healthy daemon nor takes its socket away: what the spawn lock is worth.
THEOREM HealthyStays == Spec => HealthyKept
<1>1. Init => LockHeld
  BY DEF Init, LockHeld, SpawnExclusive, Spawning
<1>2. TypeOK /\ LockHeld /\ HealthyInv /\ [Next]_vars => [Quiet => Kept]_vars
  BY StepKeeps
<1>3. Spec => [][Quiet => Kept]_vars
  BY <1>1, <1>2, InitHealthy, NextHoldsLock, NextHealthy, DaemonTypeCorrect, PTL DEF Spec
<1>4. QED
  BY <1>3 DEF HealthyKept, Quiet, Kept

=============================================================================
