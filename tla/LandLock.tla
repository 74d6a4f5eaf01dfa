------------------------------- MODULE LandLock -------------------------------
(***************************************************************************)
(* The land lock of one repository (src-tauri/src/hive/land/lock.rs): an   *)
(* O_EXCL file in the repository's git common directory that serializes    *)
(* the lands of every maiTerm process on the machine, the dev and prod     *)
(* builds among them.  Each process adds a mutex-guarded HELD entry of its *)
(* own.  The file calls (create, write, read, remove) are separate steps:  *)
(* another process may run between any two of them.                        *)
(***************************************************************************)
EXTENDS Naturals

CONSTANTS
    Procs,      \* maiTerm processes that share the repository
    Lands,      \* lands that want its lock
    ProcOf,     \* the process each land runs in
    Pids,       \* the pids the operating system hands out
    MayCrash,   \* the processes that may die (and start again)
    MayStall,   \* TRUE: 30 s can pass between two file calls of a live land
    DiskFails,  \* TRUE: writing or syncing a created lock file can fail
    MayTimeOut, \* TRUE: a waiting land's deadline can pass
    None        \* no process, land, pid or file

VARIABLES
    pid,    \* the pid of each process, None while it is not running
    file,   \* the lock file at its path, or None
    HELD,   \* per process: the land it believes holds the lock
    mutex,  \* per process: the land inside a section guarded by HELD's mutex
    pc,     \* where each land stands
    seen,   \* what a land that judges the lock file read from it
    tries   \* rounds of try_take's loop left to a land

vars == <<pid, file, HELD, mutex, pc, seen, tries>>

(* A lock file: the land and pid it names, whether its body is on disk yet *)
(* (not whole: it cannot be parsed), and whether its last write was 30 s   *)
(* ago.                                                                     *)
LockInfo == [land : Lands, pid : Pids, whole : BOOLEAN, old : BOOLEAN]

ASSUME LandLockAssumption ==
    /\ ProcOf \in [Lands -> Procs]
    /\ MayCrash \subseteq Procs
    /\ {MayStall, DiskFails, MayTimeOut} \subseteq BOOLEAN
    /\ None \notin Procs \cup Lands \cup Pids \cup LockInfo

States == {"idle", "create", "write", "read", "judge", "remove", "wait",
           "held", "relRead", "relRemove", "relWake"}

\* try_take and release run under the mutex of HELD from here to their return.
InTake    == {"create", "write", "read", "judge", "remove"}
InRelease == {"relRead", "relRemove", "relWake"}

Running(l) == pid[ProcOf[l]] # None
pid_alive(q) == \E p \in Procs : pid[p] = q
read_info == IF file = None THEN None ELSE IF file.whole THEN file ELSE None

Goto(l, s) == pc' = [pc EXCEPT ![l] = s]
Lock(l)    == mutex[ProcOf[l]] = None /\ mutex' = [mutex EXCEPT ![ProcOf[l]] = l]
Unlock(l)  == mutex' = [mutex EXCEPT ![ProcOf[l]] = None]

-------------------------------------------------------------------------------
(* Init: processes run, nobody asked, no lock file.                         *)
Init ==
    /\ pid \in [Procs -> Pids]
    /\ \A p, q \in Procs : pid[p] = pid[q] => p = q
    /\ file = None
    /\ HELD = [p \in Procs |-> None]
    /\ mutex = [p \in Procs |-> None]
    /\ pc = [l \in Lands |-> "idle"]
    /\ seen = [l \in Lands |-> None]
    /\ tries = [l \in Lands |-> 0]

(* try_take enters: it takes HELD's mutex and gets two rounds of the loop.  *)
(* Also what a waiter does when the condvar or the 2 s recheck wakes it.    *)
Enter(l) ==
    /\ Running(l) /\ pc[l] \in {"idle", "wait"}
    /\ Lock(l)
    /\ tries' = [tries EXCEPT ![l] = 2]
    /\ Goto(l, "create")
    /\ UNCHANGED <<pid, file, HELD, seen>>

(* A land that holds the lock asks again (a resumed land): taken as it is   *)
(* when the file still names it.                                            *)
Retake(l) ==
    /\ Running(l) /\ pc[l] = "held" /\ mutex[ProcOf[l]] = None
    /\ IF HELD[ProcOf[l]] = l /\ read_info # None /\ read_info.land = l
         THEN UNCHANGED <<mutex, tries, pc>>
         ELSE /\ Lock(l)
              /\ tries' = [tries EXCEPT ![l] = 2]
              /\ Goto(l, "create")
    /\ UNCHANGED <<pid, file, HELD, seen>>

(* create_new (O_EXCL): succeeds only when there is no file.                *)
Create(l) ==
    /\ pc[l] = "create"
    /\ IF tries[l] = 0
         THEN /\ Goto(l, "wait") /\ Unlock(l)      \* Busy after the loop
              /\ UNCHANGED <<file, tries>>
         ELSE /\ tries' = [tries EXCEPT ![l] = @ - 1]
              /\ UNCHANGED mutex
              /\ IF file = None
                   THEN /\ file' = [land |-> l, pid |-> pid[ProcOf[l]],
                                    whole |-> FALSE, old |-> FALSE]
                        /\ Goto(l, "write")
                   ELSE Goto(l, "read") /\ UNCHANGED file
    /\ UNCHANGED <<pid, HELD, seen>>

(* The body is written and synced.  A file somebody removed meanwhile is    *)
(* written where no path leads: the write still succeeds.                   *)
Write(l) ==
    /\ pc[l] = "write"
    /\ file' = IF file # None /\ file.land = l
               THEN [file EXCEPT !.whole = TRUE, !.old = FALSE] ELSE file
    /\ HELD' = [HELD EXCEPT ![ProcOf[l]] = l]
    /\ Goto(l, "held") /\ Unlock(l)
    /\ UNCHANGED <<pid, seen, tries>>

(* The write fails: whatever is at the path is removed, and the land fails. *)
WriteFails(l) ==
    /\ DiskFails /\ pc[l] = "write"
    /\ file' = None
    /\ Goto(l, "idle") /\ Unlock(l)
    /\ UNCHANGED <<pid, HELD, seen, tries>>

(* AlreadyExists: read what the file says now (None: gone or unparsable).   *)
Read(l) ==
    /\ pc[l] = "read"
    /\ seen' = [seen EXCEPT ![l] = read_info]
    /\ Goto(l, "judge")
    /\ UNCHANGED <<pid, file, HELD, mutex, tries>>

(* The file at the path by now has an age; a file that is gone has none.    *)
aged == file # None /\ file.old

staleDead(l, info) ==          \* slip: a pid that runs is a live holder, ours too
    IF info = None THEN aged ELSE ~pid_alive(info.pid)
stale(l, info) ==
    CASE info = None -> aged
      [] info # None /\ info.pid = pid[ProcOf[l]] -> HELD[ProcOf[l]] # info.land
      [] OTHER -> ~pid_alive(info.pid)

JudgeKeeps(l) ==               \* slip: Busy is answered with the guard kept
    /\ pc[l] = "judge"
    /\ Goto(l, IF stale(l, seen[l]) THEN "remove" ELSE "wait")
    /\ seen' = [seen EXCEPT ![l] = None]
    /\ UNCHANGED <<pid, file, HELD, mutex, tries>>
Judge(l) ==
    /\ pc[l] = "judge"
    /\ IF stale(l, seen[l])
         THEN Goto(l, "remove") /\ UNCHANGED mutex
         ELSE Goto(l, "wait") /\ Unlock(l)
    /\ seen' = [seen EXCEPT ![l] = None]
    /\ UNCHANGED <<pid, file, HELD, tries>>

(* The stale lock is removed by its path; a file already gone is fine.      *)
Remove(l) ==
    /\ pc[l] = "remove"
    /\ file' = None
    /\ Goto(l, "create")
    /\ UNCHANGED <<pid, HELD, mutex, seen, tries>>

(* take: the deadline passed while another land holds the lock.             *)
TimeOut(l) ==
    /\ MayTimeOut /\ Running(l) /\ pc[l] = "wait"
    /\ Goto(l, "idle")
    /\ UNCHANGED <<pid, file, HELD, mutex, seen, tries>>

(* release: read the file, remove it if it names this land, forget HELD.    *)
(* A land that does not hold the lock calls it too: the cleanup of a land   *)
(* that stopped, or the reconcile of one a crash interrupted.               *)
Release(l) ==
    /\ Running(l) /\ pc[l] \in {"held", "idle"}
    /\ Lock(l)
    /\ Goto(l, "relRead")
    /\ UNCHANGED <<pid, file, HELD, seen, tries>>

ReleaseReadAny(l) ==           \* slip: the file is removed whoever it names
    /\ pc[l] = "relRead"
    /\ Goto(l, IF read_info # None THEN "relRemove" ELSE "relWake")
    /\ UNCHANGED <<pid, file, HELD, mutex, seen, tries>>
ReleaseRead(l) ==
    /\ pc[l] = "relRead"
    /\ Goto(l, IF read_info # None /\ read_info.land = l THEN "relRemove" ELSE "relWake")
    /\ UNCHANGED <<pid, file, HELD, mutex, seen, tries>>

ReleaseRemove(l) ==
    /\ pc[l] = "relRemove"
    /\ file' = None
    /\ Goto(l, "relWake")
    /\ UNCHANGED <<pid, HELD, mutex, seen, tries>>

ReleaseWake(l) ==
    /\ pc[l] = "relWake"
    /\ HELD' = [HELD EXCEPT ![ProcOf[l]] = IF @ = l THEN None ELSE @]
    /\ Goto(l, "idle") /\ Unlock(l)
    /\ UNCHANGED <<pid, file, seen, tries>>

-------------------------------------------------------------------------------
(* The environment: processes die and start under any free pid (their own   *)
(* old one too), and files grow old.  Only an unreadable file's age is      *)
(* asked for: without stalls, only one its writer left unfinished gets old. *)
Mine(p) == {l \in Lands : ProcOf[l] = p}

Crash(p) ==
    /\ p \in MayCrash /\ pid[p] # None
    /\ pid' = [pid EXCEPT ![p] = None]
    /\ HELD' = [HELD EXCEPT ![p] = None]
    /\ mutex' = [mutex EXCEPT ![p] = None]
    /\ pc' = [l \in Lands |-> IF l \in Mine(p) THEN "idle" ELSE pc[l]]
    /\ seen' = [l \in Lands |-> IF l \in Mine(p) THEN None ELSE seen[l]]
    /\ UNCHANGED <<file, tries>>

Start(p) ==
    /\ pid[p] = None
    /\ \E q \in Pids : ~pid_alive(q) /\ pid' = [pid EXCEPT ![p] = q]
    /\ UNCHANGED <<file, HELD, mutex, pc, seen, tries>>

Age ==
    /\ file # None /\ ~file.old
    /\ MayStall \/ (~file.whole /\ pc[file.land] # "write")
    /\ file' = [file EXCEPT !.old = TRUE]
    /\ UNCHANGED <<pid, HELD, mutex, pc, seen, tries>>

Take(l)      == Create(l) \/ Write(l) \/ Read(l) \/ Judge(l) \/ Remove(l)
Unlocking(l) == ReleaseRead(l) \/ ReleaseRemove(l) \/ ReleaseWake(l)

LandStep(l) ==
    Enter(l) \/ Retake(l) \/ Take(l) \/ WriteFails(l) \/ TimeOut(l) \/ Release(l) \/ Unlocking(l)

Next ==
    \/ \E l \in Lands : LandStep(l)
    \/ \E p \in Procs : Crash(p) \/ Start(p)
    \/ Age

(* What the code goes on with by itself: a waiter polls every 2 s for as    *)
(* long as it waits (SF: the mutex it polls is held for file calls only,    *)
(* and no land calls release without end), and a section it began runs to   *)
(* its end.  Nobody has to ask, or to ask again: a land that timed out, or  *)
(* whose write failed, may never call.  A process that died is started      *)
(* again, time passes, and the disk is not full for ever.                   *)
Polls(l) == pc[l] = "wait" /\ Enter(l)

Fairness ==
    /\ \A l \in Lands : SF_vars(Polls(l)) /\ WF_vars(Take(l)) /\ WF_vars(Unlocking(l))
    /\ <>[][\A l \in Lands : ~WriteFails(l)]_vars
    /\ \A p \in Procs : WF_vars(Start(p))
    /\ WF_vars(Age)

Spec == Init /\ [][Next]_vars
FairSpec == Spec /\ Fairness

-------------------------------------------------------------------------------
(* Properties                                                               *)

FileOrNone == LockInfo \cup {None}

\* Types; and a land is inside a guarded section exactly while its process's
\* mutex names it (try_take and release hold the guard from entry to return).
TypeOK ==
    /\ pid \in [Procs -> Pids \cup {None}]
    /\ file \in FileOrNone
    /\ HELD \in [Procs -> Lands \cup {None}]
    /\ mutex \in [Procs -> Lands \cup {None}]
    /\ pc \in [Lands -> States]
    /\ seen \in [Lands -> FileOrNone]
    /\ tries \in [Lands -> 0..2]
    /\ \A l \in Lands : pc[l] \in InTake \cup InRelease <=> mutex[ProcOf[l]] = l

\* The lands that may be touching the repository now.
Holders == {l \in Lands : pc[l] = "held"}

\* "Lands are serialized per repository across steps 1 and 2" (lock.rs:1):
\* no two lands, of one process or of two, hold the lock at once.
Serialized == \A l, m \in Holders : l = m

\* A land that holds the lock is named by the file on disk, so the other
\* processes see it and it can be released: nobody stole or lost its lock.
HolderNamed ==
    \A l \in Holders : file # None /\ file.whole /\ file.land = l

\* The lands that try for the lock or wait to try again.
Asking == {l \in Lands : pc[l] \in InTake \cup {"wait"}}

\* A lock file whose holder is gone never blocks the lands for good (lock.rs:6):
\* once a land waits, some land gets the lock, unless all that ask give up at
\* their deadlines first, or another process dies.
SomeoneGets ==
    (\E l \in Lands : pc[l] = "wait") ~>
        (Holders # {} \/ Asking = {} \/ \E p \in Procs : pid[p] = None)
===============================================================================
