---------------------------- MODULE LandLock_proofs ----------------------------
(* Proofs about the land lock: it is mutual exclusion with one maiTerm that  *)
(* may crash and recover, and with any number of them that do not.           *)
EXTENDS LandLock, TLAPS

(* A land of a dead process stands nowhere.                                 *)
Guarded == \A l \in Lands : Running(l) \/ pc[l] = "idle"

TypeInv == TypeOK /\ Guarded

\* Initially the types hold and every process runs.
LEMMA TypeInit == Init => TypeInv
  BY LandLockAssumption
  DEF Init, TypeInv, TypeOK, Guarded, Running, FileOrNone, States, InTake, InRelease

\* Every step of a land keeps the types and the mutex discipline.
LEMMA TypeLand ==
    ASSUME TypeInv, NEW l \in Lands, LandStep(l)
    PROVE  TypeInv'
<1> USE LandLockAssumption
    DEF TypeInv, TypeOK, Guarded, Running, FileOrNone, LockInfo, States, InTake,
        InRelease, Goto, Lock, Unlock
<1>1. CASE Enter(l)
  BY <1>1 DEF Enter
<1>2. CASE Create(l)
  <2>1. CASE tries[l] = 0
    BY <1>2, <2>1 DEF Create
  <2>2. CASE tries[l] # 0 /\ file = None
    <3>1. file' \in LockInfo
      <4>1. file' = [land |-> l, pid |-> pid[ProcOf[l]], whole |-> FALSE, old |-> FALSE]
        BY <1>2, <2>2 DEF Create
      <4>2. pid[ProcOf[l]] \in Pids
        BY <1>2 DEF Create
      <4> QED
        BY <4>1, <4>2
    <3>2. pc' \in [Lands -> States] /\ tries' \in [Lands -> 0..2]
      BY <1>2, <2>2 DEF Create
    <3> QED
      BY <1>2, <2>2, <3>1, <3>2 DEF Create
  <2>3. CASE tries[l] # 0 /\ file # None
    BY <1>2, <2>3 DEF Create
  <2> QED
    BY <2>1, <2>2, <2>3
<1>3. CASE Write(l)
  <2>1. file' \in FileOrNone
    BY <1>3 DEF Write
  <2> QED
    BY <1>3, <2>1 DEF Write
<1>4. CASE Read(l)
  BY <1>4 DEF Read, read_info
<1>5. CASE Judge(l)
  BY <1>5 DEF Judge
<1>6. CASE Remove(l)
  BY <1>6 DEF Remove
<1>7. CASE Retake(l)
  BY <1>7 DEF Retake
<1>8. CASE WriteFails(l)
  BY <1>8 DEF WriteFails
<1>9. CASE TimeOut(l)
  BY <1>9 DEF TimeOut
<1>10. CASE Release(l)
  BY <1>10 DEF Release
<1>11. CASE ReleaseRead(l)
  BY <1>11 DEF ReleaseRead
<1>12. CASE ReleaseRemove(l)
  BY <1>12 DEF ReleaseRemove
<1>13. CASE ReleaseWake(l)
  BY <1>13 DEF ReleaseWake
<1> QED
  BY <1>1, <1>2, <1>3, <1>4, <1>5, <1>6, <1>7, <1>8, <1>9, <1>10, <1>11, <1>12, <1>13
  DEF LandStep, Take, Unlocking

\* Every step of the environment keeps them too.
LEMMA TypeEnv ==
    ASSUME TypeInv, (\E p \in Procs : Crash(p) \/ Start(p)) \/ Age
    PROVE  TypeInv'
<1> USE LandLockAssumption
    DEF TypeInv, TypeOK, Guarded, Running, FileOrNone, LockInfo, States, InTake, InRelease
<1>1. CASE \E p \in Procs : Crash(p)
  BY <1>1 DEF Crash, Mine
<1>2. CASE \E p \in Procs : Start(p)
  BY <1>2 DEF Start
<1>3. CASE Age
  BY <1>3 DEF Age
<1> QED
  BY <1>1, <1>2, <1>3

\* The types and the mutex discipline hold in every reachable state, for any
\* processes, lands and pids.
THEOREM Typing == Spec => []TypeOK
<1>1. ASSUME TypeInv, [Next]_vars
      PROVE  TypeInv'
  <2>1. CASE UNCHANGED vars
    BY <1>1, <2>1 DEF vars, TypeInv, TypeOK, Guarded, Running
  <2> QED
    BY <1>1, <2>1, TypeLand, TypeEnv DEF Next
<1>2. TypeInv => TypeOK
  BY DEF TypeInv
<1> QED
  BY <1>1, <1>2, TypeInit, PTL DEF Spec

-------------------------------------------------------------------------------
(* One process.  The land that stands at the lock file finds it as it left  *)
(* it, and a file judged stale belongs to no land that holds the lock: both *)
(* because HELD's mutex keeps the process's other lands away meanwhile.     *)
Named(l) ==
    /\ file # None /\ file.land = l /\ file.whole
    /\ file.pid = pid[ProcOf[l]]
    /\ HELD[ProcOf[l]] = l

Possession ==
    \A l \in Lands :
        /\ pc[l] = "held" => Named(l)
        /\ pc[l] = "write" => file # None /\ file.land = l /\ ~file.whole
                              /\ file.pid = pid[ProcOf[l]]
        /\ pc[l] = "relRemove" => file # None /\ file.land = l /\ file.whole

NoHolder == \A m \in Lands : pc[m] # "held"

StaleIsFree ==
    \A l \in Lands :
        /\ pc[l] = "judge" /\ (seen[l] = None \/ stale(l, seen[l])) => NoHolder
        /\ pc[l] = "remove" => NoHolder

OneInv == TypeInv /\ Possession /\ StaleIsFree

\* A lock file is there: None is not one.
LEMMA FileIsNotNone == \A i \in LockInfo : i # None
  BY LandLockAssumption

\* Every step of a land keeps the one-process invariant.
LEMMA OneLand ==
    ASSUME NEW p, Procs = {p}, OneInv, NEW l \in Lands, LandStep(l)
    PROVE  (Possession /\ StaleIsFree)'
<1> USE LandLockAssumption
    DEF OneInv, TypeInv, TypeOK, Guarded, Running, FileOrNone, States, InTake,
        InRelease, Goto, Lock, Unlock, Possession, StaleIsFree, Named, NoHolder
<1>0. \A m \in Lands : ProcOf[m] = p
  OBVIOUS
<1>1. CASE Enter(l)
  BY <1>0, <1>1 DEF Enter, stale, aged, pid_alive
<1>2. CASE Create(l)
  <2>0. \A m \in Lands : m # l => pc[m] \notin InTake \cup InRelease
    BY <1>0, <1>2 DEF Create
  <2>1. CASE tries[l] = 0
    BY <1>0, <1>2, <2>0, <2>1 DEF Create
  <2>2. CASE tries[l] # 0 /\ file = None
    <3>1. file' = [land |-> l, pid |-> pid[ProcOf[l]], whole |-> FALSE, old |-> FALSE]
      BY <1>2, <2>2 DEF Create
    <3>2. pc' = [pc EXCEPT ![l] = "write"] /\ UNCHANGED <<pid, HELD, seen>>
      BY <1>2, <2>2 DEF Create
    <3>3. \A m \in Lands : pc[m] # "held"
      BY <2>2
    <3>4. file' \in LockInfo /\ file' # None
      <4>1. pid[ProcOf[l]] \in Pids
        BY <1>2 DEF Create
      <4>2. file' \in LockInfo
        BY <3>1, <4>1 DEF LockInfo
      <4> QED
        BY <4>2, FileIsNotNone
    <3>5. file'.land = l /\ ~file'.whole /\ file'.pid = pid[ProcOf[l]]
      BY <3>1
    <3>6. pc'[l] = "write" /\ \A m \in Lands : m # l => pc'[m] = pc[m]
      BY <3>2
    <3>7. Possession'
      BY <2>0, <3>2, <3>3, <3>4, <3>5, <3>6
    <3>8. StaleIsFree'
      BY <2>0, <3>6
    <3> QED
      BY <3>7, <3>8
  <2>3. CASE tries[l] # 0 /\ file # None
    BY <1>0, <1>2, <2>0, <2>3 DEF Create
  <2> QED
    BY <2>1, <2>2, <2>3
<1>3. CASE Write(l)
  <2>0. \A m \in Lands : m # l => pc[m] \notin InTake \cup InRelease
    BY <1>0, <1>3 DEF Write
  <2>1. file # None /\ file' = [file EXCEPT !.whole = TRUE, !.old = FALSE] /\ file.land = l
    BY <1>3 DEF Write
  <2>2. file' # None /\ file'.land = l /\ file'.whole /\ file'.pid = pid[ProcOf[l]]
    <3>1. file \in LockInfo /\ file.pid = pid[ProcOf[l]]
      BY <1>3, <2>1 DEF Write
    <3>2. /\ file' \in LockInfo
          /\ file'.land = l /\ file'.whole /\ file'.pid = pid[ProcOf[l]]
      BY <2>1, <3>1 DEF LockInfo
    <3> QED
      BY <3>2, FileIsNotNone
  <2>3. \A m \in Lands : pc[m] # "held"
    BY <1>3, <2>1 DEF Write
  <2> QED
    BY <1>0, <1>3, <2>0, <2>2, <2>3 DEF Write
<1>4. CASE Read(l)
  <2>1. /\ seen' = [seen EXCEPT ![l] = read_info] /\ pc' = [pc EXCEPT ![l] = "judge"]
        /\ pc[l] = "read" /\ UNCHANGED <<pid, file, HELD>>
    BY <1>4 DEF Read
  <2>2. \A m \in Lands : m # l => pc[m] \notin {"judge", "remove"}
    BY <1>0, <2>1
  <2>3. Possession'
    BY <2>1
  <2>4. read_info = None \/ stale(l, read_info) => NoHolder
    BY <1>0 DEF read_info, stale, aged, pid_alive
  <2>5. stale(l, seen[l])' => seen'[l] = None \/ stale(l, read_info)
    BY <2>1 DEF stale, pid_alive
  <2>6. StaleIsFree'
    BY <2>1, <2>2, <2>4, <2>5
  <2> QED
    BY <2>3, <2>6
<1>5. CASE Judge(l)
  BY <1>0, <1>5 DEF Judge
<1>6. CASE Remove(l)
  BY <1>0, <1>6 DEF Remove, stale, aged, pid_alive
<1>7. CASE Retake(l)
  BY <1>0, <1>7 DEF Retake, stale, aged, pid_alive, read_info
<1>8. CASE WriteFails(l)
  BY <1>0, <1>8 DEF WriteFails, stale, aged, pid_alive
<1>9. CASE TimeOut(l)
  BY <1>0, <1>9 DEF TimeOut, stale, aged, pid_alive
<1>10. CASE Release(l)
  BY <1>0, <1>10 DEF Release, stale, aged, pid_alive
<1>11. CASE ReleaseRead(l)
  BY <1>0, <1>11 DEF ReleaseRead, stale, aged, pid_alive, read_info
<1>12. CASE ReleaseRemove(l)
  BY <1>0, <1>12 DEF ReleaseRemove, stale, aged, pid_alive
<1>13. CASE ReleaseWake(l)
  BY <1>0, <1>13 DEF ReleaseWake, stale, aged, pid_alive
<1> QED
  BY <1>1, <1>2, <1>3, <1>4, <1>5, <1>6, <1>7, <1>8, <1>9, <1>10, <1>11, <1>12, <1>13
  DEF LandStep, Take, Unlocking

\* Every step of the environment keeps it: a crash leaves every land idle, and
\* a process that starts finds them so.
LEMMA OneEnv ==
    ASSUME NEW p, Procs = {p}, OneInv,
           (\E q \in Procs : Crash(q) \/ Start(q)) \/ Age
    PROVE  (Possession /\ StaleIsFree)'
<1> USE LandLockAssumption
    DEF OneInv, TypeInv, TypeOK, Guarded, Running, FileOrNone, LockInfo, States, InTake,
        InRelease, Possession, StaleIsFree, Named, NoHolder
<1>0. \A m \in Lands : ProcOf[m] = p
  OBVIOUS
<1>1. CASE \E q \in Procs : Crash(q)
  BY <1>0, <1>1 DEF Crash, Mine
<1>2. CASE \E q \in Procs : Start(q)
  BY <1>0, <1>2 DEF Start
<1>3. CASE Age
  <2>1. file \in LockInfo /\ file' = [file EXCEPT !.old = TRUE]
    BY <1>3 DEF Age
  <2>2. /\ file' \in LockInfo /\ file'.whole = file.whole
        /\ file'.land = file.land /\ file'.pid = file.pid
    BY <2>1
  <2>3. file' # None
    BY <2>2, FileIsNotNone
  <2>4. UNCHANGED <<pid, HELD, mutex, pc, seen, tries>>
    BY <1>3 DEF Age
  <2>5. StaleIsFree'
    BY <2>4 DEF stale, aged, pid_alive
  <2>6. Possession'
    BY <2>1, <2>2, <2>3, <2>4
  <2> QED
    BY <2>5, <2>6
<1> QED
  BY <1>1, <1>2, <1>3

\* One maiTerm over a repository: its lands are serialized, whenever it crashes,
\* under whatever pid it starts again, and however slow its writes are.
THEOREM OneProcessSerialized ==
    ASSUME NEW p, Procs = {p}
    PROVE  Spec => [](Serialized /\ HolderNamed)
<1>1. Init => OneInv
  BY TypeInit DEF Init, OneInv, Possession, StaleIsFree
<1>2. ASSUME OneInv, [Next]_vars
      PROVE  OneInv'
  <2>1. CASE UNCHANGED vars
    BY <1>2, <2>1
    DEF vars, OneInv, TypeInv, TypeOK, Guarded, Running, Possession, StaleIsFree,
        Named, NoHolder, stale, aged, pid_alive
  <2>2. CASE \E l \in Lands : LandStep(l)
    BY <1>2, <2>2, OneLand, TypeLand DEF OneInv
  <2>3. CASE (\E q \in Procs : Crash(q) \/ Start(q)) \/ Age
    BY <1>2, <2>3, OneEnv, TypeEnv DEF OneInv
  <2> QED
    BY <1>2, <2>1, <2>2, <2>3 DEF Next
<1>3. OneInv => Serialized /\ HolderNamed
  BY DEF OneInv, Possession, Named, Serialized, HolderNamed, Holders
<1> QED
  BY <1>1, <1>2, <1>3, PTL DEF Spec

\* With one maiTerm, the lock file on disk names whoever holds the lock: nobody
\* stole it, removed it or wrote over it.
COROLLARY OneProcessNamed ==
    ASSUME NEW p, Procs = {p}
    PROVE  Spec => []HolderNamed
<1>1. Spec => [](Serialized /\ HolderNamed)
  BY OneProcessSerialized
<1> QED
  BY <1>1, PTL

-------------------------------------------------------------------------------
(* Any number of processes that neither crash nor stall: the file at the    *)
(* path always belongs to a running land, so no reader judges it stale.     *)
Owned ==
    /\ \A p, q \in Procs : pid[p] # None /\ (pid[p] = pid[q] => p = q)
    /\ file # None /\ file.whole =>
           HELD[ProcOf[file.land]] = file.land /\ file.pid = pid[ProcOf[file.land]]
    /\ file # None => ~file.old /\ (~file.whole => pc[file.land] = "write")
    /\ \A l \in Lands : pc[l] = "relWake" /\ file # None => file.land # l

NeverStale ==
    \A l \in Lands : pc[l] # "remove" /\ (pc[l] = "judge" => ~stale(l, seen[l]))

QuietInv == TypeInv /\ Possession /\ Owned /\ NeverStale

\* Every step of a land keeps the invariant of processes that do not die.
LEMMA QuietLand ==
    ASSUME QuietInv, NEW l \in Lands, LandStep(l)
    PROVE  (Possession /\ Owned /\ NeverStale)'
<1> USE LandLockAssumption
    DEF QuietInv, TypeInv, TypeOK, Guarded, Running, FileOrNone, States, InTake,
        InRelease, Goto, Lock, Unlock, Possession, Owned, NeverStale, Named
<1>1. file # None => file \in LockInfo /\ file.land \in Lands
  BY DEF LockInfo
<1>2. CASE Enter(l)
  BY <1>1, <1>2 DEF Enter, stale, aged, pid_alive
<1>3. CASE Create(l)
  <2>0. \A m \in Lands : ProcOf[m] = ProcOf[l] /\ m # l => pc[m] \notin InTake \cup InRelease
    BY <1>3 DEF Create
  <2>1. CASE tries[l] = 0
    BY <1>1, <1>3, <2>0, <2>1 DEF Create, stale, aged, pid_alive
  <2>2. CASE tries[l] # 0 /\ file = None
    <3>1. file' = [land |-> l, pid |-> pid[ProcOf[l]], whole |-> FALSE, old |-> FALSE]
      BY <1>3, <2>2 DEF Create
    <3>2. pc' = [pc EXCEPT ![l] = "write"] /\ UNCHANGED <<pid, HELD, seen>>
      BY <1>3, <2>2 DEF Create
    <3>3. file' \in LockInfo /\ file' # None
      <4>1. pid[ProcOf[l]] \in Pids
        BY <1>3 DEF Create
      <4>2. file' \in LockInfo
        BY <3>1, <4>1 DEF LockInfo
      <4> QED
        BY <4>2, FileIsNotNone
    <3>4. file'.land = l /\ ~file'.whole /\ ~file'.old /\ file'.pid = pid[ProcOf[l]]
      BY <3>1
    <3>5. pc'[l] = "write" /\ \A m \in Lands : m # l => pc'[m] = pc[m]
      BY <3>2
    <3>6. Possession'
      BY <2>2, <3>2, <3>3, <3>4, <3>5
    <3>7. Owned'
      BY <2>2, <3>2, <3>3, <3>4, <3>5
    <3>8. NeverStale'
      BY <3>2, <3>4, <3>5 DEF stale, aged, pid_alive
    <3> QED
      BY <3>6, <3>7, <3>8
  <2>3. CASE tries[l] # 0 /\ file # None
    BY <1>1, <1>3, <2>0, <2>3 DEF Create, stale, aged, pid_alive
  <2> QED
    BY <2>1, <2>2, <2>3
<1>4. CASE Write(l)
  <2>1. file \in LockInfo /\ file' = [file EXCEPT !.whole = TRUE, !.old = FALSE]
        /\ file.land = l /\ file.pid = pid[ProcOf[l]] /\ ~file.whole
    BY <1>1, <1>4 DEF Write
  <2>2. /\ file' \in LockInfo /\ file'.land = l /\ file'.whole /\ ~file'.old
        /\ file'.pid = pid[ProcOf[l]]
    BY <2>1 DEF LockInfo
  <2>3. file' # None
    BY <2>2, FileIsNotNone
  <2>4. /\ HELD' = [HELD EXCEPT ![ProcOf[l]] = l]
        /\ pc' = [pc EXCEPT ![l] = "held"]
        /\ UNCHANGED <<pid, seen, tries>>
    BY <1>4 DEF Write
  <2>5. \A m \in Lands : m # l => pc[m] \notin {"held", "write", "relRemove"}
    BY <2>1
  <2>6. Possession'
    BY <2>2, <2>3, <2>4, <2>5
  <2>7. Owned'
    BY <1>4, <2>2, <2>3, <2>4 DEF Write
  <2>8. \A m \in Lands : pc'[m] = "judge" => pc[m] = "judge" /\ ProcOf[m] # ProcOf[l]
    BY <1>4, <2>4 DEF Write
  <2>9. NeverStale'
    BY <2>2, <2>4, <2>8 DEF stale, aged, pid_alive
  <2> QED
    BY <2>6, <2>7, <2>9
<1>5. CASE Read(l)
  BY <1>1, <1>5 DEF Read, stale, aged, pid_alive, read_info
<1>6. CASE Judge(l)
  BY <1>1, <1>6 DEF Judge, stale, aged, pid_alive
<1>7. CASE Remove(l)
  BY <1>1, <1>7 DEF Remove, stale, aged, pid_alive
<1>8. CASE Retake(l)
  BY <1>1, <1>8 DEF Retake, stale, aged, pid_alive, read_info
<1>9. CASE WriteFails(l)
  BY <1>1, <1>9 DEF WriteFails, stale, aged, pid_alive
<1>10. CASE TimeOut(l)
  BY <1>1, <1>10 DEF TimeOut, stale, aged, pid_alive
<1>11. CASE Release(l)
  BY <1>1, <1>11 DEF Release, stale, aged, pid_alive
<1>12. CASE ReleaseRead(l)
  BY <1>1, <1>12 DEF ReleaseRead, stale, aged, pid_alive, read_info
<1>13. CASE ReleaseRemove(l)
  BY <1>1, <1>13 DEF ReleaseRemove, stale, aged, pid_alive
<1>14. CASE ReleaseWake(l)
  BY <1>1, <1>14 DEF ReleaseWake, stale, aged, pid_alive
<1> QED
  BY <1>2, <1>3, <1>4, <1>5, <1>6, <1>7, <1>8, <1>9, <1>10, <1>11, <1>12, <1>13, <1>14
  DEF LandStep, Take, Unlocking

\* Any number of maiTerms, dev and prod builds alike: while none of them dies
\* and none stalls for 30 s over a lock file, the repository's lands are
\* serialized, and a land's lock is never taken from it.
THEOREM QuietProcessesSerialized ==
    ASSUME MayCrash = {}, MayStall = FALSE
    PROVE  Spec => [](Serialized /\ HolderNamed)
<1>1. Init => QuietInv
  BY TypeInit, LandLockAssumption
  DEF Init, QuietInv, Possession, Owned, NeverStale
<1>2. ASSUME QuietInv, [Next]_vars
      PROVE  QuietInv'
  <2>1. CASE UNCHANGED vars
    BY <1>2, <2>1
    DEF vars, QuietInv, TypeInv, TypeOK, Guarded, Running, Possession, Owned,
        NeverStale, Named, stale, aged, pid_alive
  <2>2. CASE \E l \in Lands : LandStep(l)
    BY <1>2, <2>2, QuietLand, TypeLand DEF QuietInv
  <2>3. ~ \E p \in Procs : Crash(p) \/ Start(p)
    BY <1>2 DEF Crash, Start, QuietInv, Owned
  <2>4. ~ Age
    BY <1>2 DEF Age, QuietInv, Owned
  <2> QED
    BY <1>2, <2>1, <2>2, <2>3, <2>4 DEF Next
<1>3. QuietInv => Serialized /\ HolderNamed
  BY DEF QuietInv, Possession, Named, Serialized, HolderNamed, Holders
<1> QED
  BY <1>1, <1>2, <1>3, PTL DEF Spec
===============================================================================
