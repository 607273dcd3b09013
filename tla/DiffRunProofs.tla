----------------------------- MODULE DiffRunProofs -----------------------------
(***************************************************************************)
(* What `rgit diff` leaves behind, for any number of files, languages and  *)
(* goroutines: one server per language, none of them used after Close, no  *)
(* process when it returns, and the report a sequential loop would give:   *)
(* the merge follows the order of the files, and sorting rows by path      *)
(* gives one list whatever order they came in, as each path has one row.   *)
(***************************************************************************)
EXTENDS CatFileProofs, FiniteSetTheorems, WellFoundedInduction

(* The batch's processes, by where its caller is.                          *)
BatchLife ==
  /\ caller = "start" => git = "unstarted" /\ writer = "unstarted"
  /\ caller = "wait" => WriterEnded
  /\ caller \in {"retry", "returned"} =>
       git \in {"unstarted", "reaped"} /\ writer # "writing"
  /\ main # "prefetch" => caller = "returned"

FanTypes ==
  /\ language \in [Files -> Languages \cup {NoLanguage}]
  /\ launched \in Nat
  /\ worker \in [Files -> {"idle", "build", "dial", "locked", "handshake", "query",
                           "finish", "ended"}]
  /\ client \in [Languages -> {"none", "live", "degraded", "closed"}]
  /\ server \in [Languages -> {"none", "running", "exited", "reaped"}]
  /\ spawned \in [Languages -> Nat]
  /\ main \in {"prefetch", "tracked", "list", "untracked", "close", "returned"}

(* Which goroutines there are, by where Run is: a wave starts when the one *)
(* before has ended, and Close comes after the last one that was started.  *)
Waves ==
  /\ main = "prefetch" => launched = 0
  /\ main = "tracked" => launched <= Tracked
  /\ main = "list" => launched = Tracked
  /\ main = "untracked" => launched >= Tracked
  /\ \A i \in Files :
       /\ worker[i] = "idle" <=> i > launched
       /\ main \in {"list", "close", "returned"} => worker[i] \in {"idle", "ended"}
       /\ main = "untracked" /\ i <= Tracked => worker[i] = "ended"

InDial(i) == worker[i] \in {"locked", "handshake"}

(* Who holds the mutex, and what it knows of its language while it dials.  *)
Dialling ==
  \A i \in Files :
    /\ InDial(i) => mutex = i
    /\ worker[i] \in {"dial", "locked", "handshake", "query"} => language[i] \in Languages
    /\ worker[i] = "handshake" =>
         client[language[i]] = "none" /\ spawned[language[i]] = 1

(* What the session knows of a language says what was started for it.      *)
Accounted ==
  \A l \in Languages :
    /\ spawned[l] <= 1
    /\ client[l] \in {"degraded", "closed"} => server[l] \in {"none", "reaped"}
    /\ client[l] = "none" =>
         \/ spawned[l] = 0 /\ server[l] = "none"
         \/ \E i \in Files : worker[i] = "handshake" /\ language[i] = l
    /\ main = "returned" => client[l] # "live"

RunInv == BatchLife /\ FanTypes /\ Waves /\ Dialling /\ Accounted

-----------------------------------------------------------------------------
LEMMA InitInv == Init => RunInv
<1> SUFFICES ASSUME Init PROVE RunInv
  OBVIOUS
<1> USE DiffRunAssumption DEF Init, BatchInit, Files
<1>1. FanTypes
  BY DEF FanTypes
<1>2. BatchLife
  BY DEF BatchLife
<1>3. Waves
  BY DEF Waves
<1>4. Dialling
  BY DEF Dialling, InDial
<1>5. Accounted
  BY DEF Accounted
<1> QED BY <1>1, <1>2, <1>3, <1>4, <1>5 DEF RunInv

(* The batch leaves the goroutines alone, and they the batch.              *)
LEMMA PrefetchInv == RunInv /\ Prefetch => RunInv'
<1> SUFFICES ASSUME RunInv, Prefetch PROVE RunInv'
  OBVIOUS
<1>1. UNCHANGED fanVars /\ BatchNext /\ main = "prefetch"
  BY DEF Prefetch
<1>2. FanTypes' /\ Waves' /\ Dialling' /\ Accounted'
  BY <1>1 DEF RunInv, fanVars, FanTypes, Waves, Dialling, InDial, Accounted
<1>3. BatchLife'
  <2> USE <1>1 DEF RunInv, BatchLife, fanVars, WriterEnded, Reading
  <2>1. CASE WriterStep
    BY <2>1 DEF WriterStep, Format, Flush, CloseStdin
  <2>2. CASE GitStep
    BY <2>2 DEF GitStep, GitReads, GitWrites, GitExits
  <2>3. CASE GitDies
    BY <2>3 DEF GitDies
  <2>4. CASE CallerStep
    <3>1. CASE Start
      BY <3>1 DEF Start
    <3>2. CASE ReadHeader
      BY <3>2 DEF ReadHeader
    <3>3. CASE ReadContent \/ ReadEOF \/ AllRead
      BY <3>3 DEF ReadContent, ReadEOF, AllRead
    <3>4. CASE Join \/ Wait
      BY <3>4 DEF Join, Wait
    <3>5. CASE Retry
      BY <3>5 DEF Retry
    <3> QED BY <2>4, <3>1, <3>2, <3>3, <3>4, <3>5 DEF CallerStep
  <2> QED BY <2>1, <2>2, <2>3, <2>4 DEF BatchNext
<1> QED BY <1>2, <1>3 DEF RunInv

(* wg.Wait has seen every goroutine of the wave, and there is no other.    *)
LEMMA EndedWave ==
  ASSUME RunInv, main \in {"tracked", "untracked"}, WaveEnded
  PROVE  /\ \A i \in Files : worker[i] \in {"idle", "ended"}
         /\ main = "tracked" => launched = Tracked
<1> USE DiffRunAssumption DEF RunInv, FanTypes, Waves, Files, WaveEnded, Wave, WaveStart,
           WaveLength
<1>1. ASSUME main = "tracked"
      PROVE  \A i \in Files : worker[i] \in {"idle", "ended"}
  <2> SUFFICES ASSUME NEW i \in Files PROVE worker[i] \in {"idle", "ended"}
    OBVIOUS
  <2>1. CASE i <= Tracked
    BY <1>1, <2>1
  <2>2. CASE i > Tracked
    BY <1>1, <2>2
  <2> QED BY <2>1, <2>2
<1>3. CASE main = "tracked" /\ launched # Tracked
  <2>1. launched + 1 \in 1..Tracked
    BY <1>3
  <2>2. worker[launched + 1] = "ended" /\ worker[launched + 1] = "idle"
    BY <1>3, <2>1
  <2> QED BY <2>2
<1>2. CASE main = "untracked"
  BY <1>2
<1> QED BY <1>1, <1>2, <1>3

LEMMA MainInv == RunInv /\ MainStep => RunInv'
<1> SUFFICES ASSUME RunInv, MainStep PROVE RunInv'
  OBVIOUS
<1> USE DiffRunAssumption DEF RunInv
<1>0. \A i \in Files : i \in Nat /\ i > 0 /\ Tracked \in Nat
  BY DEF Files
<1>1. CASE Prefetched
  <2>0. /\ main = "prefetch" /\ main' \in {"tracked", "close"} /\ caller = "returned"
        /\ UNCHANGED <<batchVars, language, launched, worker, mutex, client, server, spawned>>
    BY <1>1 DEF Prefetched, Fails
  <2>1. BatchLife' /\ FanTypes'
    BY <2>0 DEF BatchLife, FanTypes, batchVars, WriterEnded
  <2>2. Waves'
    <3>1. launched = 0 /\ \A i \in Files : worker[i] = "idle"
      BY <1>0, <2>0 DEF Waves
    <3> QED BY <1>0, <2>0, <3>1 DEF Waves
  <2>3. Dialling' /\ Accounted'
    BY <2>0 DEF Dialling, InDial, Accounted
  <2> QED BY <2>1, <2>2, <2>3
<1>2. CASE Launch
  <2>1. BatchLife'
    BY <1>2 DEF Launch, BatchLife, batchVars, WriterEnded
  <2>5. FanTypes'
    <3>1. launched' \in Nat
      BY <1>2 DEF Launch, FanTypes
    <3>2. worker' \in [Files -> {"idle", "build", "dial", "locked", "handshake", "query",
                               "finish", "ended"}]
      BY <1>2 DEF Launch, FanTypes
    <3> QED BY <1>2, <3>1, <3>2 DEF Launch, FanTypes
  <2>6. /\ launched + 1 \in Files /\ launched \in Nat /\ launched' = launched + 1
        /\ \/ main = "tracked" /\ launched + 1 <= Tracked
           \/ main = "untracked" /\ launched >= Tracked
        /\ main' = main
        /\ worker' = [worker EXCEPT ![launched + 1] = "build"]
    BY <1>2 DEF Launch, Waves, FanTypes, Files, Wave, WaveStart, WaveLength
  <2>3. worker[launched + 1] = "idle"
    BY <2>6 DEF Waves
  <2>2. Waves'
    <3>1. ASSUME NEW i \in Files
          PROVE  /\ (worker[i] = "idle" <=> i > launched)'
                 /\ main' = "untracked" /\ i <= Tracked => worker'[i] = "ended"
      <4>1. CASE i = launched + 1
        BY <2>6, <4>1 DEF FanTypes
      <4>2. CASE i # launched + 1
        <5>1. worker'[i] = worker[i]
          BY <2>6, <4>2 DEF FanTypes
        <5>2. i > launched <=> i > launched'
          BY <2>6, <4>2 DEF Files
        <5> QED BY <2>6, <5>1, <5>2 DEF Waves
      <4> QED BY <4>1, <4>2
    <3> QED BY <2>6, <3>1 DEF Waves
  <2>4. Dialling' /\ Accounted'
    BY <1>2, <2>3 DEF Launch, Dialling, InDial, Accounted, FanTypes
  <2> QED BY <2>1, <2>2, <2>4, <2>5
<1>3. CASE Merge
  <2>0. /\ \A i \in Files : worker[i] \in {"idle", "ended"}
        /\ main = "tracked" => launched = Tracked
    BY <1>3, EndedWave DEF Merge
  <2>1. BatchLife' /\ FanTypes'
    BY <1>3 DEF Merge, Fails, BatchLife, FanTypes, batchVars, WriterEnded
  <2>2. Waves'
    BY <1>3, <2>0 DEF Merge, Fails, Waves, FanTypes, Files
  <2>3. Dialling' /\ Accounted'
    BY <1>3 DEF Merge, Fails, Dialling, InDial, Accounted
  <2> QED BY <2>1, <2>2, <2>3
<1>4. CASE ListUntracked
  <2>0. /\ main = "list" /\ main' \in {"untracked", "close"}
        /\ UNCHANGED <<batchVars, language, launched, worker, mutex, client, server, spawned>>
    BY <1>4 DEF ListUntracked, Fails
  <2>1. BatchLife' /\ FanTypes'
    BY <2>0 DEF BatchLife, FanTypes, batchVars, WriterEnded
  <2>2. Waves'
    <3> HIDE DiffRunAssumption
    <3> QED BY <1>0, <2>0 DEF Waves, FanTypes
  <2>3. Dialling' /\ Accounted'
    BY <2>0 DEF Dialling, InDial, Accounted
  <2> QED BY <2>1, <2>2, <2>3
<1>5. CASE Return
  <2>1. BatchLife' /\ FanTypes'
    BY <1>5 DEF Return, BatchLife, FanTypes, batchVars, WriterEnded
  <2>2. Waves'
    BY <1>5 DEF Return, Waves, FanTypes, Files
  <2>3. Dialling' /\ Accounted'
    BY <1>5 DEF Return, Dialling, InDial, Accounted
  <2> QED BY <2>1, <2>2, <2>3
<1>6. CASE \E l \in Languages : CloseClient(l)
  <2> PICK l \in Languages : CloseClient(l)
    BY <1>6
  <2>1. BatchLife' /\ FanTypes' /\ Waves'
    BY DEF CloseClient, BatchLife, FanTypes, batchVars, Waves, WriterEnded
  <2>2. Dialling'
    BY DEF CloseClient, Dialling, InDial, FanTypes
  <2>3. Accounted'
    BY DEF CloseClient, Accounted, FanTypes
  <2> QED BY <2>1, <2>2, <2>3
<1> QED BY <1>1, <1>2, <1>3, <1>4, <1>5, <1>6 DEF MainStep

(* A goroutine that takes a step is none that has ended, so neither has    *)
(* the wave: Run is at wg.Wait, or still launching.                        *)
LEMMA WorkerWaves ==
  ASSUME RunInv, NEW i \in Files, WorkerStep(i)
  PROVE  BatchLife' /\ Waves' /\ main \notin {"list", "close", "returned"}
<1>1. worker[i] \notin {"idle", "ended"}
  BY DEF WorkerStep, Build, Lock, Cached, SpawnFails, Spawn, HandshakeFails, HandshakeOK,
         Query, Finish
<1>2. /\ UNCHANGED <<batchVars, main, launched>>
      /\ \E w \in {"dial", "finish", "locked", "query", "handshake", "ended"} :
           worker' = [worker EXCEPT ![i] = w]
  BY DEF WorkerStep, Build, Lock, Cached, SpawnFails, Spawn, HandshakeFails, HandshakeOK,
         Query, Finish
<1>3. BatchLife'
  BY <1>2 DEF RunInv, BatchLife, batchVars, WriterEnded
<1>4. Waves' /\ main \notin {"list", "close", "returned"}
  BY <1>1, <1>2 DEF RunInv, Waves, FanTypes
<1> QED BY <1>3, <1>4

LEMMA WorkerInv ==
  ASSUME RunInv, NEW i \in Files, WorkerStep(i)
  PROVE  RunInv'
<1>0. BatchLife' /\ Waves' /\ main \notin {"list", "close", "returned"}
  BY WorkerWaves
<1> USE <1>0 DEF RunInv, FanTypes
<1>1. CASE Build(i) \/ Lock(i) \/ Query(i) \/ Finish(i)
  <2>1. CASE Build(i)
    BY <2>1 DEF Build, Dialling, InDial, Accounted
  <2>2. CASE Lock(i)
    <3>1. \A j \in Files : ~InDial(j)
      BY <2>2 DEF Lock, Dialling, Nobody, Files
    <3> QED BY <2>2, <3>1 DEF Lock, Dialling, InDial, Accounted
  <2>3. CASE Query(i) \/ Finish(i)
    BY <2>3 DEF Query, Finish, Dialling, InDial, Accounted
  <2> QED BY <1>1, <2>1, <2>2, <2>3
<1>2. CASE Cached(i)
  <2>1. FanTypes' /\ Dialling'
    BY <1>2 DEF Cached, Dialling, InDial
  <2>2. Accounted'
    BY <1>2 DEF Cached, Accounted
  <2> QED BY <2>1, <2>2
<1> DEFINE l == language[i]
<1>3. CASE SpawnFails(i)
  <2>1. l \in Languages /\ mutex = i /\ client[l] = "none"
    BY <1>3 DEF SpawnFails, Dialling, InDial, Known
  <2>2. \A j \in Files : worker[j] # "handshake"
    BY <1>3, <2>1 DEF SpawnFails, Dialling, InDial
  <2>3. FanTypes' /\ Dialling'
    BY <1>3, <2>1, <2>2 DEF SpawnFails, Dialling, InDial
  <2>4. Accounted'
    BY <1>3, <2>1, <2>2 DEF SpawnFails, Accounted
  <2> QED BY <2>3, <2>4
<1>4. CASE Spawn(i)
  <2>1. l \in Languages /\ mutex = i /\ client[l] = "none"
    BY <1>4 DEF Spawn, Dialling, InDial, Known
  <2>2. \A j \in Files : worker[j] # "handshake"
    BY <1>4, <2>1 DEF Spawn, Dialling, InDial
  <2>3. spawned[l] = 0
    BY <2>1, <2>2 DEF Accounted
  <2>4. FanTypes' /\ Dialling'
    BY <1>4, <2>1, <2>2, <2>3 DEF Spawn, Dialling, InDial
  <2>5. Accounted'
    BY <1>4, <2>1, <2>2, <2>3 DEF Spawn, Accounted
  <2> QED BY <2>4, <2>5
<1>5. CASE HandshakeFails(i) \/ HandshakeOK(i)
  <2>1. l \in Languages /\ mutex = i /\ worker[i] = "handshake" /\ spawned[l] = 1
    BY <1>5 DEF HandshakeFails, HandshakeOK, Dialling, InDial
  <2>2. \A j \in Files : j # i => ~InDial(j)
    BY <2>1 DEF Dialling
  <2>3. FanTypes'
    BY <1>5, <2>1 DEF HandshakeFails, HandshakeOK, Discarded
  <2>4. Dialling'
    BY <1>5, <2>1, <2>2 DEF HandshakeFails, HandshakeOK, Dialling, InDial
  <2>5. Accounted'
    BY <1>5, <2>1, <2>2 DEF HandshakeFails, HandshakeOK, Discarded, Accounted, InDial
  <2> QED BY <2>3, <2>4, <2>5
<1> QED BY <1>1, <1>2, <1>3, <1>4, <1>5 DEF WorkerStep

LEMMA DeathInv ==
  ASSUME RunInv, NEW l \in Languages, ServerDies(l)
  PROVE  RunInv'
<1> USE DEF RunInv, ServerDies
<1>1. BatchLife' /\ FanTypes' /\ Waves'
  BY DEF BatchLife, FanTypes, batchVars, Waves, WriterEnded
<1>2. Dialling' /\ Accounted'
  BY DEF Dialling, InDial, Accounted, FanTypes
<1> QED BY <1>1, <1>2

LEMMA NextInv == RunInv /\ [Next]_vars => RunInv'
<1> SUFFICES ASSUME RunInv, [Next]_vars PROVE RunInv'
  OBVIOUS
<1>1. CASE Prefetch
  BY <1>1, PrefetchInv
<1>2. CASE MainStep
  BY <1>2, MainInv
<1>3. CASE \E i \in Files : WorkerStep(i)
  BY <1>3, WorkerInv
<1>4. CASE \E l \in Languages : ServerDies(l)
  BY <1>4, DeathInv
<1>5. CASE UNCHANGED vars
  BY <1>5 DEF vars, fanVars, batchVars, RunInv, BatchLife, WriterEnded, FanTypes, Waves,
              Dialling, InDial, Accounted
<1> QED BY <1>1, <1>2, <1>3, <1>4, <1>5 DEF Next

LEMMA AlwaysInv == Spec => []RunInv
<1> QED BY InitInv, NextInv, PTL DEF Spec

-----------------------------------------------------------------------------
(* However many goroutines ask for it at once, a language's server is      *)
(* started once in an invocation, and not again after it failed            *)
(* (Session.Dial, session.go:52-73).                                       *)
THEOREM StartedOnce == Spec => []OneServer
<1>1. RunInv => OneServer
  BY DEF RunInv, Accounted, OneServer
<1> QED BY <1>1, AlwaysInv, PTL

(* Session.Close needs no lock (session.go:75-92): Run comes to it only    *)
(* when no goroutine is left that could use a client or dial one.          *)
THEOREM ClosedUnused == Spec => []UsedWhileOpen
<1>1. RunInv => UsedWhileOpen
  BY DEF RunInv, Waves, UsedWhileOpen
<1> QED BY <1>1, AlwaysInv, PTL

(* When Run returns, on a success or an error, git is reaped and its       *)
(* writer has ended (gitx.go:406-416), and every server that was started   *)
(* is reaped, the one whose handshake failed included (dial.go:352-362).   *)
THEOREM NothingLeft == Spec => []NothingOutlives
<1>1. RunInv => NothingOutlives
  BY DEF RunInv, BatchLife, Waves, Accounted, FanTypes, NothingOutlives
<1> QED BY <1>1, AlwaysInv, PTL
-----------------------------------------------------------------------------
(* A set of numbers that is not empty has a least one.                     *)
LEMMA LeastElement ==
  ASSUME NEW S \in SUBSET Nat, S # {}
  PROVE  \E m \in S : \A n \in S : m <= n
<1>1. \E m \in S : \A n \in S : <<n, m>> \notin OpToRel(<, Nat)
  BY NatLessThanWellFounded, WFMin
<1>2. \E m \in S : \A n \in S : ~(n < m)
  BY <1>1 DEF OpToRel
<1>3. PICK m \in S : \A n \in S : ~(n < m)
  BY <1>2
<1>4. \A n \in S : m <= n
  BY <1>3
<1> QED BY <1>4

(* What increases among as many numbers as it has places stays in place.   *)
LEMMA IncreasingIsIdentity ==
  ASSUME NEW N \in Nat, NEW g \in [1..N -> 1..N],
         \A j, k \in 1..N : j < k => g[j] < g[k]
  PROVE  \A k \in 1..N : g[k] = k
<1>1. \A k \in 1..N : g[k] >= k
  <2> DEFINE low == {k \in 1..N : g[k] < k}
  <2>1. SUFFICES ASSUME low # {} PROVE FALSE
    OBVIOUS
  <2>2. \E m \in low : \A n \in low : m <= n
    <3>1. low \in SUBSET Nat
      OBVIOUS
    <3> HIDE DEF low
    <3> QED BY <2>1, <3>1, LeastElement
  <2>3. PICK m \in low : \A n \in low : m <= n
    BY <2>2
  <2>4. m \in 1..N /\ g[m] \in 1..N /\ g[m] < m
    BY <2>3
  <2>5. g[g[m]] < g[m] /\ g[g[m]] \in 1..N
    BY <2>4
  <2>6. g[m] \in low
    BY <2>4, <2>5
  <2> QED BY <2>3, <2>4, <2>6
<1>2. \A k \in 1..N : g[k] <= k
  <2> DEFINE high == {n \in 0..N : \E k \in 1..N : n = N - k /\ g[k] > k}
  <2>1. SUFFICES ASSUME NEW k \in 1..N, g[k] > k PROVE FALSE
    OBVIOUS
  <2>2. N - k \in high
    BY <2>1
  <2>3. \E m \in high : \A n \in high : m <= n
    <3>1. high \in SUBSET Nat
      OBVIOUS
    <3> HIDE DEF high
    <3>2. high # {}
      BY <2>2
    <3> QED BY <3>1, <3>2, LeastElement
  <2>4. PICK m \in high : \A n \in high : m <= n
    BY <2>3
  <2>5. PICK j \in 1..N : m = N - j /\ g[j] > j
    BY <2>4
  <2>6. g[j] \in 1..N /\ g[g[j]] > g[j] /\ g[g[j]] \in 1..N
    BY <2>5
  <2>7. N - g[j] \in high
    BY <2>6
  <2>8. m <= N - g[j]
    BY <2>4, <2>7
  <2> QED BY <2>5, <2>6, <2>8
<1> QED BY <1>1, <1>2

(* A path has its place, and the rows by path are the paths in order.      *)
LEMMA RankInverts ==
  /\ \A i \in Files : Rank(i) \in Files /\ PathOrder[Rank(i)] = i
  /\ \A k \in Files : Rank(PathOrder[k]) = k
<1> USE DiffRunAssumption
<1>1. \A i \in Files : Rank(i) \in Files /\ PathOrder[Rank(i)] = i
  BY DEF Rank
<1>2. ASSUME NEW k \in Files PROVE Rank(PathOrder[k]) = k
  <2>1. PathOrder[k] \in Files
    OBVIOUS
  <2>2. Rank(PathOrder[k]) \in Files /\ PathOrder[Rank(PathOrder[k])] = PathOrder[k]
    BY <1>1, <2>1
  <2> QED BY <2>2
<1> QED BY <1>1, <1>2

LEMMA RowsByPath == ByPath([k \in Files |-> k]) = PathOrder
<1> DEFINE Increasing(s) == \A j, k \in Files : j < k => Rank(s[j]) < Rank(s[k])
           chosen == CHOOSE s \in [Files -> Files] : Increasing(s)
<1>1. PathOrder \in [Files -> Files] /\ Increasing(PathOrder)
  BY RankInverts, DiffRunAssumption
<1>2. chosen \in [Files -> Files] /\ Increasing(chosen)
  BY <1>1
<1>3. chosen = PathOrder
  <2> HIDE DEF chosen
  <2> DEFINE g == [k \in Files |-> Rank(chosen[k])]
  <2>1. g \in [Files -> Files]
    BY <1>2, RankInverts
  <2>2. \A j, k \in Files : j < k => g[j] < g[k]
    BY <1>2
  <2>3. Tracked + Untracked \in Nat /\ Files = 1..(Tracked + Untracked)
    BY DiffRunAssumption DEF Files
  <2>4. \A k \in Files : g[k] = k
    <3> HIDE DEF g
    <3> QED BY <2>1, <2>2, <2>3, IncreasingIsIdentity
  <2>5. \A k \in Files : chosen[k] = PathOrder[k]
    BY <1>2, <2>4, RankInverts
  <2> QED BY <1>2, <1>1, <2>5
<1>4. ByPath([k \in Files |-> k]) = chosen
  <2> DEFINE rows == [k \in Files |-> k]
  <2>1. DOMAIN rows = Files /\ {rows[k] : k \in Files} = Files
    OBVIOUS
  <2> HIDE DEF rows
  <2>2. ByPath(rows) = chosen
    BY <2>1 DEF ByPath
  <2> QED BY <2>2 DEF rows
<1> QED BY <1>3, <1>4
-----------------------------------------------------------------------------
(* The first n files, and what the two waves leave of them.                *)
Numbered(n) == [k \in 1..n |-> k]

Reported ==
  Report(Numbered(Tracked + Untracked), Numbered(Tracked + Untracked))

(* What a sequential loop would have come to.                              *)
SequentialOutcome ==
  \/ report.error = "prefetch"
  \/ report.error = "list" /\ failing \cap (1..Tracked) = {}
  \/ /\ report.error = "build" /\ report.file \in failing
     /\ \A j \in failing : report.file <= j
  \/ /\ failing = {}
     /\ report = Report(PathOrder, [i \in Files |-> i])

(* A goroutine's result is its file's, and the report holds the files of   *)
(* the waves that are over, none of which failed.                          *)
ReportInv ==
  /\ failing \in SUBSET Files
  /\ built \in [Files -> {"none", "ok", "error"}]
  /\ \A i \in Files : worker[i] = "ended" =>
       built[i] = IF i \in failing THEN "error" ELSE "ok"
  /\ main \in {"prefetch", "tracked"} => report = NoReport
  /\ main \in {"list", "untracked"} =>
       /\ report = Report(Numbered(Tracked), Numbered(Tracked))
       /\ failing \cap (1..Tracked) = {}
  /\ main \in {"close", "returned"} => SequentialOutcome

LEMMA ReportInit == Init => ReportInv
<1> SUFFICES ASSUME Init PROVE ReportInv
  OBVIOUS
<1>1. /\ failing \in SUBSET Files /\ main = "prefetch" /\ report = NoReport
      /\ worker = [i \in Files |-> "idle"] /\ built = [i \in Files |-> "none"]
  BY DEF Init
<1> QED BY <1>1 DEF ReportInv

(* The rows of the second wave go after those of the first.                *)
LEMMA NumberedOnto ==
  ASSUME NEW m \in Nat, NEW n \in Nat
  PROVE  Numbered(m) \o [k \in 1..n |-> m + k] = Numbered(m + n)
<1> DEFINE s == Numbered(m)
           t == [k \in 1..n |-> m + k]
           u == Numbered(m + n)
<1>1. /\ s \in Seq(Nat) /\ Len(s) = m /\ \A k \in 1..m : s[k] = k
      /\ t \in Seq(Nat) /\ Len(t) = n /\ \A k \in 1..n : t[k] = m + k
      /\ u \in Seq(Nat) /\ Len(u) = m + n /\ \A k \in 1..(m + n) : u[k] = k
  BY DEF Numbered
<1> HIDE DEF s, t, u
<1>2. s \o t \in Seq(Nat) /\ Len(s \o t) = m + n
  BY <1>1
<1>3. ASSUME NEW k \in 1..(m + n) PROVE (s \o t)[k] = u[k]
  <2>1. k <= m \/ k > m
    OBVIOUS
  <2>2. CASE k <= m
    BY <1>1, <2>2
  <2>3. CASE k > m
    BY <1>1, <2>3
  <2> QED BY <2>1, <2>2, <2>3
<1>4. s \o t = u
  BY <1>1, <1>2, <1>3
<1> QED BY <1>4 DEF s, t, u

LEMMA SortedReport == Sorted(Reported) = Report(PathOrder, [i \in Files |-> i])
<1>1. Numbered(Tracked + Untracked) = [k \in Files |-> k]
  BY DEF Numbered, Files
<1>2. ByPath(Numbered(Tracked + Untracked)) = PathOrder
  BY <1>1, RowsByPath
<1>3. Reported.files = Numbered(Tracked + Untracked)
  BY DEF Reported, Report
<1>4. Sorted(Reported) = [Reported EXCEPT !.files = PathOrder]
  BY <1>2, <1>3 DEF Sorted
<1> QED BY <1>1, <1>4 DEF Reported, Report

(* What a wave that ended knows of its files.                              *)
LEMMA WaveErrors ==
  ASSUME ReportInv, main \in {"tracked", "untracked"}, WaveEnded
  PROVE  /\ Wave \subseteq Files
         /\ Errors = failing \cap Wave
<1>1. Wave \subseteq Files
  BY DiffRunAssumption DEF Wave, WaveStart, WaveLength, Files
<1>2. \A i \in Wave : built[i] = IF i \in failing THEN "error" ELSE "ok"
  BY <1>1 DEF WaveEnded, ReportInv
<1> QED BY <1>1, <1>2 DEF Errors

LEMMA FirstOfErrors ==
  ASSUME ReportInv, Errors \subseteq Files, Errors # {}
  PROVE  FirstError(Errors) \in Errors /\ \A j \in Errors : FirstError(Errors) <= j
<1>1. Errors \in SUBSET Nat
  BY DiffRunAssumption DEF Files
<1>2. \E i \in Errors : \A j \in Errors : i <= j
  BY <1>1, LeastElement
<1> QED BY <1>2 DEF FirstError

(* The merge of a wave: the first error, or the rows.                      *)
LEMMA MergeReports == ReportInv /\ Merge => ReportInv'
<1> SUFFICES ASSUME ReportInv, Merge PROVE ReportInv'
  OBVIOUS
<1>1. /\ main \in {"tracked", "untracked"} /\ WaveEnded
      /\ UNCHANGED <<failing, worker, built>>
  BY DEF Merge
<1>2. Wave \subseteq Files /\ Errors = failing \cap Wave
  BY <1>1, WaveErrors
<1>3. CASE Errors # {} /\ Fails("build", FirstError(Errors))
  <2>1. main' = "close" /\ report'.error = "build" /\ report'.file = FirstError(Errors)
    BY <1>3 DEF Fails
  <2>2. FirstError(Errors) \in Errors /\ \A j \in Errors : FirstError(Errors) <= j
    BY <1>2, <1>3, FirstOfErrors
  <2>3. ASSUME NEW j \in failing PROVE FirstError(Errors) <= j
    <3>1. j \in Files /\ FirstError(Errors) \in Wave
      BY <1>2, <2>2 DEF ReportInv
    <3>2. CASE j \in Wave
      BY <1>2, <2>2, <3>2
    <3>3. CASE main = "tracked" /\ j \notin Wave
      BY <3>1, <3>3, DiffRunAssumption DEF Wave, WaveStart, WaveLength, Files
    <3>4. CASE main = "untracked" /\ j \notin Wave
      <4>1. j \in 1..Tracked
        BY <3>1, <3>4, DiffRunAssumption DEF Wave, WaveStart, WaveLength, Files
      <4> QED BY <3>4, <4>1 DEF ReportInv
    <3> QED BY <1>1, <3>2, <3>3, <3>4
  <2>4. SequentialOutcome'
    BY <1>1, <1>2, <2>1, <2>2, <2>3 DEF SequentialOutcome
  <2> QED BY <1>1, <2>1, <2>4 DEF ReportInv
<1>4. CASE Errors = {} /\ main = "tracked"
  <2>1. failing \cap (1..Tracked) = {}
    BY <1>2, <1>4, DiffRunAssumption DEF Wave, WaveStart, WaveLength
  <2>2. Merged = Report(Numbered(Tracked), Numbered(Tracked))
    <3>1. report.files = <<>> /\ report.warnings = <<>>
      BY <1>4 DEF ReportInv, NoReport, Report
    <3>2. WaveLength = Tracked /\ WaveStart = 0
      BY <1>4 DEF WaveLength, WaveStart
    <3>3. Numbered(0) \o [k \in 1..Tracked |-> 0 + k] = Numbered(0 + Tracked)
      BY NumberedOnto, DiffRunAssumption
    <3>4. Numbered(0) = <<>> /\ 0 + Tracked = Tracked
      BY DiffRunAssumption DEF Numbered
    <3> QED BY <3>1, <3>2, <3>3, <3>4 DEF Merged
  <2>3. CASE main' = "list" /\ report' = Merged
    BY <1>1, <2>1, <2>2, <2>3 DEF ReportInv
  <2>4. CASE Untracked = 0 /\ main' = "close" /\ report' = Sorted(Merged)
    <3>1. failing = {} /\ Tracked = Tracked + Untracked
      BY <2>1, <2>4, DiffRunAssumption DEF ReportInv, Files
    <3>2. report' = Sorted(Reported)
      BY <2>2, <2>4, <3>1 DEF Reported
    <3> QED BY <1>1, <2>4, <3>1, <3>2, SortedReport DEF ReportInv, SequentialOutcome
  <2> QED BY <1>4, <2>3, <2>4, DiffRunAssumption DEF Merge
<1>5. CASE Errors = {} /\ main = "untracked"
  <2>1. failing = {}
    <3>1. failing \cap (1..Tracked) = {}
      BY <1>5 DEF ReportInv
    <3> QED BY <3>1, <1>2, <1>5, DiffRunAssumption
           DEF ReportInv, Files, Wave, WaveStart, WaveLength
  <2>2. Merged = Reported
    <3>1. report.files = Numbered(Tracked) /\ report.warnings = Numbered(Tracked)
      BY <1>5 DEF ReportInv, Report
    <3>2. WaveLength = Untracked /\ WaveStart = Tracked
      BY <1>5 DEF WaveLength, WaveStart
    <3>3. Numbered(Tracked) \o [k \in 1..Untracked |-> Tracked + k]
            = Numbered(Tracked + Untracked)
      BY NumberedOnto, DiffRunAssumption
    <3> QED BY <3>1, <3>2, <3>3 DEF Merged, Reported
  <2>3. main' = "close" /\ report' = Sorted(Reported)
    BY <1>5, <2>2 DEF Merge
  <2> QED BY <1>1, <2>1, <2>3, SortedReport DEF ReportInv, SequentialOutcome
<1> QED BY <1>1, <1>3, <1>4, <1>5 DEF Merge

(* The goroutines leave the report alone, Run the results.                 *)
LEMMA ReportStep == RunInv /\ ReportInv /\ [Next]_vars => ReportInv'
<1> SUFFICES ASSUME RunInv, ReportInv, [Next]_vars PROVE ReportInv'
  OBVIOUS
<1>1. CASE UNCHANGED <<failing, built, worker, main, report>>
  BY <1>1 DEF ReportInv, SequentialOutcome
<1>2. CASE Prefetch \/ UNCHANGED vars
  BY <1>1, <1>2 DEF Prefetch, vars, fanVars
<1>3. CASE MainStep
  <2>1. CASE Prefetched \/ ListUntracked
    <3>1. UNCHANGED <<failing, built, worker>>
      BY <2>1 DEF Prefetched, ListUntracked
    <3>2. \/ main = "prefetch" /\ main' = "tracked" /\ report' = report
          \/ main = "list" /\ main' = "untracked" /\ report' = report
          \/ main = "prefetch" /\ main' = "close" /\ report'.error = "prefetch"
          \/ main = "list" /\ main' = "close" /\ report'.error = "list"
      BY <2>1 DEF Prefetched, ListUntracked, Fails
    <3> QED BY <3>1, <3>2 DEF ReportInv, SequentialOutcome
  <2>2. CASE Launch
    <3>1. /\ UNCHANGED <<failing, built, main, report>>
          /\ worker' = [worker EXCEPT ![launched + 1] = "build"]
      BY <2>2 DEF Launch
    <3>2. \A i \in Files : worker'[i] = "ended" => worker[i] = "ended"
      BY <3>1 DEF RunInv, FanTypes
    <3> QED BY <3>1, <3>2 DEF ReportInv, SequentialOutcome
  <2>3. CASE Merge
    BY <2>3, MergeReports
  <2>4. CASE Return
    BY <2>4 DEF Return, ReportInv, SequentialOutcome
  <2>5. CASE \E l \in Languages : CloseClient(l)
    BY <1>1, <2>5 DEF CloseClient
  <2> QED BY <1>3, <2>1, <2>2, <2>3, <2>4, <2>5 DEF MainStep
<1>4. ASSUME NEW i \in Files, WorkerStep(i) PROVE ReportInv'
  <2>1. UNCHANGED <<failing, main, report>>
    BY <1>4 DEF WorkerStep, Build, Lock, Cached, SpawnFails, Spawn, HandshakeFails,
                HandshakeOK, Query, Finish
  <2>2. CASE Finish(i)
    <3>1. /\ built' = [built EXCEPT ![i] = IF i \in failing THEN "error" ELSE "ok"]
          /\ worker' = [worker EXCEPT ![i] = "ended"]
      BY <2>2 DEF Finish
    <3> QED BY <2>1, <3>1 DEF ReportInv, SequentialOutcome, RunInv, FanTypes
  <2>3. CASE ~Finish(i)
    <3>1. /\ UNCHANGED built
          /\ \E w \in {"dial", "finish", "locked", "query", "handshake"} :
               worker' = [worker EXCEPT ![i] = w]
      BY <1>4, <2>3 DEF WorkerStep, Build, Lock, Cached, SpawnFails, Spawn,
                        HandshakeFails, HandshakeOK, Query
    <3>2. \A j \in Files : worker'[j] = "ended" => worker[j] = "ended"
      BY <3>1 DEF RunInv, FanTypes
    <3> QED BY <2>1, <3>1, <3>2 DEF ReportInv, SequentialOutcome
  <2> QED BY <2>2, <2>3
<1>5. CASE \E l \in Languages : ServerDies(l)
  BY <1>1, <1>5 DEF ServerDies
<1> QED BY <1>2, <1>3, <1>4, <1>5 DEF Next

(* Whichever goroutine ends first, Run returns what a sequential loop over *)
(* the files would have (parallelFileReports, run.go:133-139): the first   *)
(* file's error, or all the rows by path and the warnings by file.         *)
THEOREM OrderOfTheFiles == Spec => []SameAsSequential
<1>1. ReportInv => SameAsSequential
  BY DEF ReportInv, SequentialOutcome, SameAsSequential
<1> QED BY <1>1, ReportInit, ReportStep, AlwaysInv, PTL DEF Spec

-----------------------------------------------------------------------------
(* The pipes and the answers keep within their bounds.                     *)
BatchBounds ==
  /\ Len(buffer) <= BufferCap /\ Len(stdin) <= PipeCap
  /\ Len(unsent) <= 2 /\ Len(stdout) <= PipeCap
  /\ Len(answers) <= Requests
  /\ writer \in {"unstarted", "writing", "closed", "failed"}
  /\ git \in {"unstarted", "serving", "exited", "killed", "reaped"}

(* A place has a goroutine that has started and not ended: the slots count *)
(* those, and nobody else holds the mutex.                                 *)
Active == {i \in Files : worker[i] \notin {"idle", "ended"}}

FanBounds ==
  /\ launched <= Tracked + Untracked
  /\ slots = Cardinality(Active)
  /\ mutex \in Files \cup {Nobody}
  /\ \A i \in Files : mutex = i => InDial(i)

LEMMA BoundsInit == Init => BatchBounds /\ FanBounds
<1> SUFFICES ASSUME Init PROVE BatchBounds /\ FanBounds
  OBVIOUS
<1>1. BatchBounds
  BY BatchAssumption DEF Init, BatchInit, BatchBounds
<1>2. launched = 0 /\ slots = 0 /\ mutex = Nobody /\ \A i \in Files : worker[i] = "idle"
  BY DEF Init
<1>3. Active = {}
  BY <1>2 DEF Active
<1>4. 0 <= Tracked + Untracked /\ Nobody \notin Files
  BY DiffRunAssumption DEF Nobody, Files
<1> QED BY <1>1, <1>2, <1>3, <1>4, FS_EmptySet DEF FanBounds

(* The caller is never given more answers than it has requests: while it   *)
(* is at a content, that content's number is a request's.                  *)
LEMMA BatchBoundsStep ==
  ASSUME BatchTypes, AnswersInOrder, BatchBounds, BatchNext
  PROVE  BatchBounds'
<1> USE BatchAssumption DEF BatchTypes, BatchBounds
<1>1. CASE WriterStep
  <2>1. CASE Format
    BY <2>1 DEF Format
  <2>2. CASE Flush
    <3>1. CASE git = "serving"
      BY <2>2, <3>1 DEF Flush
    <3>2. CASE git # "serving"
      BY <2>2, <3>2 DEF Flush
    <3> QED BY <3>1, <3>2
  <2>3. CASE CloseStdin
    BY <2>3 DEF CloseStdin
  <2> QED BY <1>1, <2>1, <2>2, <2>3 DEF WriterStep
<1>2. CASE GitStep \/ GitDies
  <2>1. CASE GitReads
    <3>1. Head(stdin) \in 1..Requests /\ Len(stdin') <= PipeCap
      BY <2>1 DEF GitReads
    <3>2. Len(unsent') <= 2
      <4>1. (\E x, y : unsent' = <<x, y>>) \/ (\E x : unsent' = <<x>>)
        <5> HIDE BatchAssumption DEF BatchTypes, BatchBounds
        <5> QED BY <2>1 DEF GitReads, AnswerTo
      <4>2. CASE \E x, y : unsent' = <<x, y>>
        <5>1. PICK x, y : unsent' = <<x, y>>
          BY <4>2
        <5>2. Len(<<x, y>>) = 2
          OBVIOUS
        <5> QED BY <5>1, <5>2
      <4>3. CASE \E x : unsent' = <<x>>
        <5>1. PICK x : unsent' = <<x>>
          BY <4>3
        <5>2. Len(<<x>>) = 1
          OBVIOUS
        <5> QED BY <5>1, <5>2
      <4> QED BY <4>1, <4>2, <4>3
    <3> QED BY <2>1, <3>1, <3>2 DEF GitReads
  <2>2. CASE GitWrites
    BY <2>2 DEF GitWrites
  <2>3. CASE GitExits \/ GitDies
    BY <2>3 DEF GitExits, GitDies
  <2> QED BY <1>2, <2>1, <2>2, <2>3 DEF GitStep
<1>3. CASE ReadHeader
  <2>1. /\ stdout # <<>> /\ stdout' = Tail(stdout) /\ Len(answers) < Requests
        /\ answers' = Append(answers, Absent) \/ answers' = answers
        /\ UNCHANGED <<buffer, stdin, unsent, writer, git>>
    BY <1>3 DEF ReadHeader
  <2> QED BY <2>1 DEF Absent
<1>4. CASE ReadContent
  <2>1. /\ caller = "content" /\ stdout # <<>> /\ stdout' = Tail(stdout)
        /\ \E x : answers' = Append(answers, x)
        /\ UNCHANGED <<buffer, stdin, unsent, writer, git>>
    BY <1>4 DEF ReadContent
  <2>2. PICK o : Numbers(o)
    BY <2>1 DEF AnswersInOrder
  <2>3. Flying \in Nat /\ Flying > 0
    BY <2>1 DEF Flying
  <2>4. o[1] = Len(answers) + 1 /\ o[1] \in 1..Requests
    BY <2>2, <2>3 DEF Numbers
  <2>5. Len(answers') = Len(answers) + 1
    BY <2>1
  <2> QED BY <2>1, <2>4, <2>5
<1>5. CASE Retry
  <2>1. Len(answers') = Len(answers)
    BY <1>5 DEF Retry
  <2> QED BY <1>5, <2>1 DEF Retry
<1>6. CASE Start \/ ReadEOF \/ AllRead \/ Join \/ Wait
  <2>1. CASE Start
    BY <2>1 DEF Start
  <2>2. CASE ReadEOF \/ AllRead \/ Join
    BY <2>2 DEF ReadEOF, AllRead, Join
  <2>3. CASE Wait
    BY <2>3 DEF Wait
  <2> QED BY <1>6, <2>1, <2>2, <2>3
<1> QED BY <1>1, <1>2, <1>3, <1>4, <1>5, <1>6 DEF BatchNext, CallerStep

LEMMA ActiveFinite == IsFiniteSet(Active) /\ Cardinality(Active) \in Nat
<1>1. IsFiniteSet(Files)
  BY FS_Interval, DiffRunAssumption DEF Files
<1>2. Active \in SUBSET Files
  BY DEF Active
<1> QED BY <1>1, <1>2, FS_Subset, FS_CardinalityType

LEMMA LaunchBounds ==
  ASSUME RunInv, FanBounds, Launch
  PROVE  FanBounds'
<1>1. /\ launched + 1 \in Files /\ launched' = launched + 1
      /\ worker' = [worker EXCEPT ![launched + 1] = "build"]
      /\ slots' = slots + 1 /\ mutex' = mutex
  BY DiffRunAssumption DEF Launch, RunInv, FanTypes, Waves, Files, Wave, WaveStart, WaveLength
<1>2. worker[launched + 1] = "idle"
  BY <1>1 DEF RunInv, Waves, FanTypes
<1>3. Active' = Active \cup {launched + 1} /\ launched + 1 \notin Active
  BY <1>1, <1>2 DEF Active, RunInv, FanTypes
<1>4. Cardinality(Active') = Cardinality(Active) + 1
  BY <1>3, ActiveFinite, FS_AddElement
<1>5. launched' <= Tracked + Untracked
  BY <1>1, DiffRunAssumption DEF Files
<1>6. \A i \in Files : mutex' = i => InDial(i)'
  BY <1>1, <1>2 DEF FanBounds, InDial, RunInv, FanTypes
<1> QED BY <1>1, <1>4, <1>5, <1>6 DEF FanBounds

LEMMA WorkerBounds ==
  ASSUME RunInv, FanBounds, NEW i \in Files, WorkerStep(i)
  PROVE  FanBounds'
<1>1. launched' = launched /\ i # Nobody
  BY DiffRunAssumption DEF Nobody, Files, WorkerStep, Build, Lock, Cached, SpawnFails, Spawn,
                           HandshakeFails, HandshakeOK, Query, Finish
<1>2. CASE Finish(i)
  <2>1. /\ worker[i] = "finish" /\ worker' = [worker EXCEPT ![i] = "ended"]
        /\ slots' = slots - 1 /\ mutex' = mutex
    BY <1>2 DEF Finish, Released
  <2>2. Active' = Active \ {i} /\ i \in Active
    BY <2>1 DEF Active, RunInv, FanTypes
  <2>3. Cardinality(Active') = Cardinality(Active) - 1
    BY <2>2, ActiveFinite, FS_RemoveElement
  <2>4. \A j \in Files : mutex' = j => InDial(j)'
    BY <2>1 DEF FanBounds, InDial, RunInv, FanTypes
  <2> QED BY <1>1, <2>1, <2>3, <2>4 DEF FanBounds
<1>3. CASE ~Finish(i)
  <2>1. /\ slots' = slots /\ worker[i] \notin {"idle", "ended"}
        /\ \E w \in {"dial", "locked", "handshake", "query", "finish"} :
             worker' = [worker EXCEPT ![i] = w]
    BY <1>3 DEF WorkerStep, Build, Lock, Cached, SpawnFails, Spawn,
                HandshakeFails, HandshakeOK, Query
  <2>2. Active' = Active
    BY <2>1 DEF Active, RunInv, FanTypes
  <2>3. mutex' \in Files \cup {Nobody} /\ \A j \in Files : mutex' = j => InDial(j)'
    <3>1. CASE Build(i) \/ Query(i)
      BY <3>1 DEF Build, Query, FanBounds, InDial, RunInv, FanTypes
    <3>2. CASE Lock(i)
      BY <3>2 DEF Lock, FanBounds, InDial, RunInv, FanTypes
    <3>3. CASE Spawn(i)
      BY <3>3 DEF Spawn, FanBounds, InDial, RunInv, FanTypes
    <3>4. CASE Cached(i) \/ SpawnFails(i) \/ HandshakeFails(i) \/ HandshakeOK(i)
      <4>1. mutex' = Nobody
        BY <3>4 DEF Cached, SpawnFails, HandshakeFails, HandshakeOK
      <4>2. Nobody \notin Files
        BY DiffRunAssumption DEF Nobody, Files
      <4> QED BY <4>1, <4>2
    <3> QED BY <1>3, <3>1, <3>2, <3>3, <3>4 DEF WorkerStep
  <2> QED BY <1>1, <2>1, <2>2, <2>3 DEF FanBounds
<1> QED BY <1>2, <1>3

LEMMA BoundsStep ==
  RunInv /\ OrderInv /\ BatchBounds /\ FanBounds /\ [Next]_vars => BatchBounds' /\ FanBounds'
<1> SUFFICES ASSUME RunInv, OrderInv, BatchBounds, FanBounds, [Next]_vars
             PROVE  BatchBounds' /\ FanBounds'
  OBVIOUS
<1>1. ASSUME UNCHANGED batchVars PROVE BatchBounds'
  BY <1>1 DEF batchVars, BatchBounds
<1>2. ASSUME UNCHANGED <<launched, slots, worker, mutex>> PROVE FanBounds'
  BY <1>2 DEF FanBounds, Active, InDial
<1>3. CASE Prefetch
  <2>1. BatchNext /\ UNCHANGED fanVars
    BY <1>3 DEF Prefetch
  <2>2. BatchBounds'
    BY <2>1, BatchBoundsStep DEF OrderInv
  <2> QED BY <1>2, <2>1, <2>2 DEF fanVars
<1>4. CASE MainStep
  <2>1. UNCHANGED batchVars
    BY <1>4 DEF MainStep, Prefetched, Launch, Merge, ListUntracked, Return, CloseClient
  <2>2. CASE Launch
    BY <1>1, <2>1, <2>2, LaunchBounds
  <2>3. CASE ~Launch
    <3>1. UNCHANGED <<launched, slots, worker, mutex>>
      BY <1>4, <2>3 DEF MainStep, Prefetched, Merge, ListUntracked, Return, CloseClient
    <3> QED BY <1>1, <1>2, <2>1, <3>1
  <2> QED BY <2>2, <2>3
<1>5. ASSUME NEW i \in Files, WorkerStep(i) PROVE BatchBounds' /\ FanBounds'
  <2>1. UNCHANGED batchVars
    BY <1>5 DEF WorkerStep, Build, Lock, Cached, SpawnFails, Spawn, HandshakeFails,
                HandshakeOK, Query, Finish
  <2> QED BY <1>1, <1>5, <2>1, WorkerBounds
<1>6. CASE (\E l \in Languages : ServerDies(l)) \/ UNCHANGED vars
  <2>1. UNCHANGED batchVars /\ UNCHANGED <<launched, slots, worker, mutex>>
    BY <1>6 DEF ServerDies, vars, fanVars
  <2> QED BY <1>1, <1>2, <2>1
<1> QED BY <1>3, <1>4, <1>5, <1>6 DEF Next

(* The pipes hold what they have room for, a slot is taken for every       *)
(* goroutine there is and given back by every one that ends, with an error *)
(* or without (run.go:158-176), and the mutex is held by the one that      *)
(* looks its language up or dials it, and by no other (session.go:52-73).  *)
THEOREM TypeCorrect == Spec => []TypeOK
<1>1. RunInv /\ OrderInv /\ BatchBounds /\ FanBounds => TypeOK
  <2> SUFFICES ASSUME RunInv, OrderInv, BatchBounds, FanBounds PROVE TypeOK
    OBVIOUS
  <2>1. launched \in 0..(Tracked + Untracked)
    BY DiffRunAssumption DEF RunInv, FanTypes, FanBounds
  <2>2. \A i \in Files : worker[i] \in {"locked", "handshake"} <=> mutex = i
    BY DEF RunInv, Dialling, FanBounds, InDial
  <2> QED BY <2>1, <2>2 DEF OrderInv, BatchTypes, BatchBounds, RunInv, FanTypes, FanBounds,
                            Active, TypeOK
<1> QED BY <1>1, BoundsInit, BoundsStep, AlwaysInv, AlwaysOrder, PTL DEF Spec

=============================================================================
