---------------------------------- MODULE Land ----------------------------------
(***************************************************************************)
(* Landing reviewed work on Base (src-tauri/src/hive/land/: mod, driver,   *)
(* approval, git::advance): the coordinator's hiveLand, the run of a land  *)
(* through its locks, step 1, land checks and step 2, the card that asks   *)
(* the human, holds, refusals, and the settling of an interrupted land at  *)
(* startup.                                                                *)
(*                                                                         *)
(* A commit is the set of the changes it contains: merging is union, and   *)
(* an ancestor is a subset.  Every write of worker.json (disk) is atomic   *)
(* (worker::update_worker); between two of them any other task may run, or *)
(* maiTerm may die.  The lock of a repository is LandLock's promise.       *)
(***************************************************************************)
EXTENDS Naturals, Sequences, FiniteSets

CONSTANTS
    Workers,        \* workers that reported done
    Folders,        \* the Hive's git repositories, in folder order
    Of,             \* the repositories each worker works in
    Checked,        \* the repositories with a land check
    Config,         \* the changes to files that configure agents or run code
    Orders,         \* the step 2 orders hiveLand may name
    AsksFirst,      \* Landing = Ask me: the card comes before step 1
    Callers,        \* who calls hiveLand: the queen, the human's Retry
    Races,          \* the orders of steps allowed, of "early end" (a check ends
                    \* before its land is saved as checking), "ends together" (a
                    \* check's end is heard while another's is acted on), "quick
                    \* human" (a card is answered before its land is saved), "call
                    \* while running" (hiveLand is called while a run still ends)
    Trouble,        \* TRUE: a git, queue, window or retirement call may fail, and
                    \* Base's checkout may hold uncommitted files
    MaxAttempts,    \* MAX_ATTEMPTS
    MaxLands,       \* bound: lands started
    MaxHuman,       \* bound: commits others make on each Base
    MaxWork,        \* bound: commits of each worker in each repository
    MaxCrashes,     \* bound: times maiTerm dies
    JobIds,         \* names for queued checks, reused once forgotten
    CardIds,        \* names for cards, reused once forgotten
    Human, None

Repos   == {Folders[i] : i \in DOMAIN Folders}
Changes == (Workers \X (1..MaxWork)) \cup ({Human} \X (1..MaxHuman))
Commits == SUBSET Changes
Slots   == Callers \cup {"card"} \cup JobIds
Tasks   == Workers \X Slots

ASSUME LandAssumption ==
    /\ Folders \in Seq(Repos) /\ Of \in [Workers -> SUBSET Repos]
    /\ Checked \subseteq Repos /\ Config \subseteq Changes
    /\ \A o \in Orders : o \in Seq(Repos)
    /\ {AsksFirst, Trouble} \subseteq BOOLEAN
    /\ Races \subseteq {"early end", "ends together", "quick human", "call while running"}
    /\ MaxAttempts \in Nat \ {0}
    /\ {MaxLands, MaxHuman, MaxWork, MaxCrashes} \subseteq Nat /\ MaxWork >= 1
    /\ Human \notin Workers
    /\ "card" \notin Callers \cup JobIds /\ Callers \cap JobIds = {}

VARIABLES
    up,        \* maiTerm runs
    base,      \* per repository: Base's tip
    branch,    \* per worker and repository: its branch's tip
    disk,      \* per worker: its worker.json (phase, land)
    task,      \* per task: where it stands and the land it carries in memory
    lock,      \* per repository: the land that holds its land lock
    jobs,      \* land checks the queue runs
    ends,      \* land checks that ended, not heard yet
    cards,     \* cards the human has not answered
    log,       \* the land log
    seq,       \* lands started
    crashes,   \* times maiTerm died
    passed,    \* history: the commits a land check passed on, per repository
    reviewed,  \* history: the commits hiveLand named
    approved   \* history: the config changes the human approved, per worker

env  == <<base, branch>>
hist == <<passed, reviewed, approved>>
vars == <<up, base, branch, disk, task, lock, jobs, ends, cards, log, seq, crashes,
          passed, reviewed, approved>>

-------------------------------------------------------------------------------
(* LandState and LandRepo.  fp is the config rule's catch from Base to      *)
(* tested: what the config files were and became, or <<>> when nothing of   *)
(* them changes.                                                            *)
Catches  == {<<>>} \cup ((SUBSET Config) \X (SUBSET Config))
caught(from, to) == IF from \cap Config = to \cap Config THEN <<>>
                    ELSE <<from \cap Config, to \cap Config>>

Statuses == {"pending", "checking", "tested", "advancing", "held", "landed"}
States   == {"locking", "checking", "advancing", "held", "awaiting_human", "landed"}

LandRepo == [status : Statuses, pinned : Commits, tested : Commits \cup {None},
             base_before : Commits \cup {None}, attempts : 0..MaxAttempts,
             job : JobIds \cup {None}, fp : Catches,
             config_approved : Catches \cup {None}]

LandState(w) == [id : 1..MaxLands, state : States, repos : [Of[w] -> LandRepo],
                 order : Orders, approved : BOOLEAN, request : CardIds \cup {None}]

Phases == {"reported", "landing", "landed", "retired"}

\* None is none of the values it stands in for.
ASSUME NoneAssumption ==
    /\ \A c \in Commits \cup Catches : c # None
    /\ None \notin Repos \cup JobIds \cup CardIds
    /\ None \notin 1..MaxLands
    /\ \A w \in Workers : None \notin LandState(w)

landed(l)     == {r \in DOMAIN l.repos : l.repos[r].status = "landed"}
unlanded(l)   == DOMAIN l.repos \ landed(l)
is_held(l)    == l # None /\ l.state = "held"
awaits_human(l) == l # None /\ l.state = "awaiting_human"
in_progress(l) == l # None /\ l.state \in {"locking", "checking", "advancing"}
never_approved(e) ==           \* slip: any approval does
    e.status # "landed" /\ e.fp # <<>> /\ e.config_approved = None
config_unapproved(e) == e.status # "landed" /\ e.fp # <<>> /\ e.config_approved # e.fp
Checking(l)    == \E r \in DOMAIN l.repos : l.repos[r].status = "checking"
AllTested(l)   == \A r \in DOMAIN l.repos : l.repos[r].status = "tested"     \* slip: a landed one waits
AllIn(l)       == \A r \in DOMAIN l.repos : l.repos[r].status # "checking"
held(w) == disk[w].phase = "landing" /\ (is_held(disk[w].land) \/ awaits_human(disk[w].land))

(* The first of a sequence of repositories that is in S: step 1 and the     *)
(* locks go in folder order, step 2 in the land's order.                    *)
First(seqOf, S) ==
    LET at == {i \in DOMAIN seqOf : seqOf[i] \in S}
    IN  seqOf[CHOOSE i \in at : \A j \in at : i <= j]

(* LandState::ordered, of which step 2 takes the first still to land: the   *)
(* named order comes before what it leaves out.                             *)
next_in_order(l) ==
    IF \E i \in DOMAIN l.order : l.order[i] \in unlanded(l)
    THEN First(l.order, unlanded(l)) ELSE First(Folders, unlanded(l))

SetRepo(l, r, e) == [l EXCEPT !.repos[r] = e]

-------------------------------------------------------------------------------
(* Tasks.  A task carries its own copy of the land (Rust's local variable)  *)
(* and saves it over the disk's when the land there is still the same one.  *)
Idle == [pc |-> "idle", land |-> None, todo |-> {}, repo |-> None, again |-> FALSE]

At(t, pc) == up /\ task[t].pc = pc
land(t)   == task[t].land
Busy(w)   == \E s \in Slots : task[<<w, s>>].pc # "idle"
Quiet(w)  == up /\ ~Busy(w)

Go(t, pc, l)  == task' = [task EXCEPT ![t] = [@ EXCEPT !.pc = pc, !.land = l]]
GoRepo(t, pc, l, r) == task' = [task EXCEPT ![t] = [@ EXCEPT !.pc = pc, !.land = l, !.repo = r]]
GoTodo(t, pc, l, S) == task' = [task EXCEPT ![t] = [@ EXCEPT !.pc = pc, !.land = l, !.todo = S]]
Stop(t)       == task' = [task EXCEPT ![t] = Idle]

Ours(w, l)  == disk[w].land # None /\ disk[w].land.id = l.id
Save(w, l)  == disk' = IF Ours(w, l) THEN [disk EXCEPT ![w].land = l] ELSE disk

(* Where a failure goes: refuse when nothing landed, else hold at a repo    *)
(* after what did not pass its step 1 and check is cleared.                 *)
FailRefuses(t, l) == Go(t, "refuse", l)   \* slip: what landed is dropped with the rest
Fail(t, l) ==
    LET clear == [l EXCEPT !.repos = [r \in DOMAIN @ |->
                    IF @[r].status \in {"landed", "tested"} THEN @[r]
                    ELSE [@[r] EXCEPT !.tested = None, !.base_before = None]]]
        stuck == {r \in unlanded(l) : l.repos[r].status # "tested"}
        at    == IF unlanded(l) = {} THEN None
                 ELSE First(Folders, IF stuck # {} THEN stuck ELSE unlanded(l))
    IN  IF landed(l) = {} THEN Go(t, "refuse", l)
        ELSE GoRepo(t, "hold", clear, at)

(* Names no record, task or queue still mentions.                           *)
FreshJobs(w) ==
    {j \in JobIds :
        /\ task[<<w, j>>].pc = "idle"
        /\ \A q \in jobs \cup {e.job : e \in ends} : q.id # j
        /\ \A v \in Workers : disk[v].land # None =>
             \A r \in Of[v] : disk[v].land.repos[r].job # j
        /\ \A t \in Tasks : land(t) # None =>
             \A r \in Of[t[1]] : land(t).repos[r].job # j}

FreshCards ==
    {c \in CardIds :
        /\ \A d \in cards : d.id # c
        /\ \A v \in Workers : disk[v].land # None => disk[v].land.request # c
        /\ \A t \in Tasks : land(t) # None => land(t).request # c}

-------------------------------------------------------------------------------
(* Init: every worker has reported done, nothing landed, no land was asked. *)
Init ==
    /\ up = TRUE
    /\ base = [r \in Repos |-> {}]
    /\ branch = [w \in Workers |-> [r \in Of[w] |-> {<<w, 1>>}]]
    /\ disk = [w \in Workers |-> [phase |-> "reported", land |-> None]]
    /\ task = [t \in Tasks |-> Idle]
    /\ lock = [r \in Repos |-> None]
    /\ jobs = {} /\ ends = {} /\ cards = {} /\ log = {}
    /\ seq = 0 /\ crashes = 0
    /\ passed = {} /\ approved = {}
    /\ reviewed = [w \in Workers |-> [r \in Of[w] |-> {}]]

-------------------------------------------------------------------------------
(* hiveLand (and the human's Retry, which passes a held land's own pins).   *)

(* refusal: what a call may name.  A repository a held land landed keeps    *)
(* its pin; one it still has to land keeps its pin or takes the branch's    *)
(* tip; without such a land every repository is named at its tip.           *)
Nameable(w, r) ==
    LET l == disk[w].land
    IN  IF ~is_held(l) \/ landed(l) = {} THEN {branch[w][r]}
        ELSE IF r \in landed(l) THEN {l.repos[r].pinned}
        ELSE {l.repos[r].pinned, branch[w][r]}

Landable(w) == disk[w].phase = "reported" \/ (disk[w].phase = "landing" /\ is_held(disk[w].land))

(* start_state: a held land resumed keeps its id and every repository whose *)
(* pin is named again; anything else is a new land.                         *)
Resumes(l, pins) ==
    /\ is_held(l)
    /\ \A r \in landed(l) : l.repos[r].pinned = pins[r]
    /\ landed(l) # {} \/ \A r \in DOMAIN pins : l.repos[r].pinned = pins[r]

NewRepo(pin) == [status |-> "pending", pinned |-> pin, tested |-> None, base_before |-> None,
                 attempts |-> 0, job |-> None, fp |-> <<>>, config_approved |-> None]

Reusable(e) == e.tested # None /\ e.base_before # None /\ e.status \in {"tested", "held", "advancing"}

KeptRepoAgain(e) ==            \* slip: a landed repository starts over
    [e EXCEPT !.attempts = 0, !.job = None, !.status = IF Reusable(e) THEN "tested" ELSE "pending"]
KeptRepo(e) ==
    IF e.status = "landed" THEN e
    ELSE [e EXCEPT !.attempts = 0, !.job = None, !.status = IF Reusable(e) THEN "tested" ELSE "pending"]

start_state(w, pins, order) ==
    LET l    == disk[w].land
        keep == IF Resumes(l, pins)
                THEN {r \in Of[w] : l.repos[r].status = "landed" \/ l.repos[r].pinned = pins[r]}
                ELSE {}
        same == Resumes(l, pins) /\ keep = Of[w]
    IN  [id       |-> IF Resumes(l, pins) THEN l.id ELSE seq + 1,
         state    |-> "locking",
         repos    |-> [r \in Of[w] |-> IF r \in keep THEN KeptRepo(l.repos[r])
                                                     ELSE NewRepo(pins[r])],
         order    |-> order,
         approved |-> same /\ l.approved,
         request  |-> IF same THEN l.request ELSE None]

Call(w, c) ==
    LET t == <<w, c>> IN
    /\ At(t, "idle") /\ Landable(w)
    /\ "call while running" \in Races \/ Quiet(w)
    /\ \E pins \in [Of[w] -> UNION {Nameable(w, r) : r \in Of[w]}], order \in Orders :
         /\ \A r \in Of[w] : pins[r] \in Nameable(w, r)
         /\ Resumes(disk[w].land, pins) \/ seq < MaxLands
         /\ seq' = IF Resumes(disk[w].land, pins) THEN seq ELSE seq + 1
         /\ Go(t, "called", start_state(w, pins, order))
    /\ UNCHANGED <<up, env, disk, lock, jobs, ends, cards, log, crashes, hist>>

(* The compare-and-set that starts the land, on worker.json as it is now.   *)
StartLand(t) ==
    LET w == t[1]  l == land(t) IN
    /\ At(t, "called")
    /\ IF Landable(w)
         THEN /\ disk' = [disk EXCEPT ![w] = [phase |-> "landing", land |-> l]]
              /\ reviewed' = [reviewed EXCEPT ![w] =
                               [r \in Of[w] |-> @[r] \cup {l.repos[r].pinned}]]
              /\ Go(t, IF AsksFirst /\ ~l.approved THEN "ask" ELSE "drive", l)
         ELSE Stop(t) /\ UNCHANGED <<disk, reviewed>>
    /\ UNCHANGED <<up, env, lock, jobs, ends, cards, log, seq, crashes, passed, approved>>

-------------------------------------------------------------------------------
(* drive: the record read again, the locks in folder order, step 1.         *)
Drive(t) ==
    LET l == disk[t[1]].land IN
    /\ At(t, "drive")
    /\ IF l # None /\ l.state = "locking"
         THEN task' = [task EXCEPT ![t] = [Idle EXCEPT !.pc = "lock", !.land = l,
                                                       !.todo = unlanded(l)]]
         ELSE Stop(t)
    /\ UNCHANGED <<up, env, disk, lock, jobs, ends, cards, log, seq, crashes, hist>>

FreeToAll(r, l) == TRUE         \* slip: a busy lock is taken over
Free(r, l) == lock[r] \in {None, l.id}

TakeLock(t) ==
    LET r == First(Folders, task[t].todo) IN
    /\ At(t, "lock") /\ task[t].todo # {}
    /\ Free(r, land(t))
    /\ lock' = [lock EXCEPT ![r] = land(t).id]
    /\ GoTodo(t, "lock", land(t), task[t].todo \ {r})
    /\ UNCHANGED <<up, env, disk, jobs, ends, cards, log, seq, crashes, hist>>

(* Busy past the wait: the locks taken so far go back, the wait is noted on *)
(* the record, and the run starts over (the tool's call hands it on to the  *)
(* background, which reads the record again).                               *)
LockBusy(t) ==
    LET r == First(Folders, task[t].todo)
        taken == unlanded(land(t)) \ task[t].todo
    IN
    /\ At(t, "lock") /\ task[t].todo # {}
    /\ ~Free(r, land(t))
    /\ lock' = [q \in Repos |-> IF q \in taken /\ lock[q] = land(t).id THEN None ELSE lock[q]]
    /\ Save(t[1], land(t))
    /\ Go(t, "drive", land(t))
    /\ UNCHANGED <<up, env, jobs, ends, cards, log, seq, crashes, hist>>

Locked(t) ==
    /\ At(t, "lock") /\ task[t].todo = {}
    /\ GoTodo(t, "prep", land(t), unlanded(land(t)))
    /\ UNCHANGED <<up, env, disk, lock, jobs, ends, cards, log, seq, crashes, hist>>

(* git::merge_base: a merge that is no fast-forward may conflict.           *)
merge(r, pin)     == base[r] \cup pin
conflicts(r, pin) == ~(base[r] \subseteq pin) /\ ~(pin \subseteq base[r])

(* step1: Base merged into the pinned commit, and the config rule on what   *)
(* that changes from Base.                                                  *)
step1OfTip(w, r, e) ==         \* slip: merges the branch as it is now
    LET to == merge(r, branch[w][r]) IN
    [e EXCEPT !.status = "pending", !.tested = to, !.base_before = base[r], !.fp = caught(base[r], to)]
step1StillTested(w, r, e) ==   \* slip: a repository tested before stays tested
    LET to == merge(r, e.pinned) IN
    [e EXCEPT !.tested = to, !.base_before = base[r], !.fp = caught(base[r], to)]
step1(w, r, e) ==
    LET to == merge(r, e.pinned) IN
    [e EXCEPT !.status = "pending", !.tested = to, !.base_before = base[r], !.fp = caught(base[r], to)]

(* prepare, one repository at a time: tested ones whose Base did not move   *)
(* are left.                                                                *)
Prepare(t) ==
    LET r == First(Folders, task[t].todo)
        l == land(t)
        e == l.repos[r]
        stands == e.status = "tested" /\ e.base_before = base[r]
    IN
    /\ At(t, "prep") /\ task[t].todo # {}
    /\ \/ GoTodo(t, "prep", IF stands THEN l ELSE SetRepo(l, r, step1(t[1], r, e)),
                task[t].todo \ {r})
       \/ ~stands /\ conflicts(r, e.pinned) /\ Fail(t, l)
    /\ UNCHANGED <<up, env, disk, lock, jobs, ends, cards, log, seq, crashes, hist>>

(* Step 1 done everywhere: the record has it (not after a moved Base).      *)
Prepared(t) ==
    LET l == land(t)
        todo == {r \in DOMAIN l.repos : l.repos[r].status = "pending" /\ l.repos[r].tested # None}
    IN
    /\ At(t, "prep") /\ task[t].todo = {}
    /\ IF task[t].again THEN UNCHANGED disk ELSE Save(t[1], l)
    /\ GoTodo(t, "check", l, todo)
    /\ UNCHANGED <<up, env, lock, jobs, ends, cards, log, seq, crashes, hist>>

-------------------------------------------------------------------------------
(* The land checks: start_checks, proceed, the queue, on_check_end.         *)
Job(j, w, l, r) == [id |-> j, worker |-> w, land |-> l.id, repo |-> r, tested |-> l.repos[r].tested]

StartCheck(t) ==
    LET w == t[1]
        l == land(t)
        r == First(Folders, task[t].todo)
        rest == task[t].todo \ {r}
    IN
    /\ At(t, "check") /\ task[t].todo # {}
    /\ \/ /\ r \notin Checked
          /\ GoTodo(t, "check", SetRepo(l, r, [l.repos[r] EXCEPT !.status = "tested"]), rest)
          /\ UNCHANGED jobs
       \/ /\ r \in Checked /\ FreshJobs(w) # {}
          /\ LET j == CHOOSE j \in FreshJobs(w) : TRUE IN
             /\ jobs' = jobs \cup {Job(j, w, l, r)}
             /\ GoTodo(t, "check",
                       SetRepo(l, r, [l.repos[r] EXCEPT !.status = "checking", !.job = j]), rest)
       \/ Trouble /\ r \in Checked /\ Fail(t, l) /\ UNCHANGED jobs
    /\ UNCHANGED <<up, env, disk, lock, ends, cards, log, seq, crashes, hist>>

(* A check runs: the land is saved as checking and the run ends here.  None *)
(* does: on to step 2.  (After a moved Base only that repository counts.)   *)
ChecksStarted(t) ==
    LET l     == land(t)
        await == IF task[t].again THEN l.repos[task[t].repo].status = "checking"
                 ELSE Checking(l)
    IN
    /\ At(t, "check") /\ task[t].todo = {}
    /\ IF await
         THEN Save(t[1], [l EXCEPT !.state = "checking"]) /\ Stop(t)
         ELSE Go(t, "gate", [l EXCEPT !.state = "advancing"]) /\ UNCHANGED disk
    /\ UNCHANGED <<up, env, lock, jobs, ends, cards, log, seq, crashes, hist>>

(* The queue: a check ends, passed or not (failed, timed out, interrupted). *)
Recorded(q) ==
    LET l == disk[q.worker].land
    IN  l # None /\ l.id = q.land /\ l.state = "checking"

CheckEnds(q) ==
    /\ up /\ q \in jobs
    /\ "early end" \in Races \/ Recorded(q)
    /\ jobs' = jobs \ {q}
    /\ \E ok \in BOOLEAN :
         /\ ends' = ends \cup {[job |-> q, passed |-> ok]}
         /\ passed' = IF ok THEN passed \cup {<<q.repo, q.tested>>} ELSE passed
    /\ UNCHANGED <<up, env, disk, task, lock, cards, log, seq, crashes, reviewed, approved>>

(* on_check_end: the mark on the record; a pass with none left running goes *)
(* on to step 2, a failure ends the land, an end of no matching check is    *)
(* dropped.                                                                 *)
MarkEnded(e) ==
    LET q == e.job
        w == q.worker
        t == <<w, q.id>>
        r == q.repo
        hit == /\ Recorded(q)
               /\ disk[w].land.repos[r].status = "checking" /\ disk[w].land.repos[r].job = q.id
        l == SetRepo(disk[w].land, r, [disk[w].land.repos[r] EXCEPT
                        !.status = IF e.passed THEN "tested" ELSE "pending"])
    IN
    /\ up /\ e \in ends /\ task[t].pc = "idle"
    /\ "ends together" \in Races \/ \A j \in JobIds : task[<<w, j>>].pc = "idle"
    /\ ends' = ends \ {e}
    /\ IF hit
         THEN /\ disk' = [disk EXCEPT ![w].land = l]
              /\ IF ~e.passed THEN Fail(t, l)
                 ELSE IF AllIn(l) THEN Go(t, "gate", [l EXCEPT !.state = "advancing"])
                 ELSE UNCHANGED task
         ELSE UNCHANGED <<disk, task>>
    /\ UNCHANGED <<up, env, lock, jobs, cards, log, seq, crashes, hist>>

-------------------------------------------------------------------------------
(* Step 2 in order: advance_inner, advance, log_repo.                       *)
Gate(t) ==
    LET l == land(t)
        r == next_in_order(l)
        e == l.repos[r]
        go == SetRepo(l, r, [e EXCEPT !.status = "advancing"])
    IN
    /\ At(t, "gate")
    /\ \/ /\ unlanded(l) = {}
          /\ Go(t, "finish", l) /\ UNCHANGED disk
       \/ /\ unlanded(l) # {} /\ e.status # "tested"
          /\ Fail(t, l) /\ UNCHANGED disk
       \/ /\ unlanded(l) # {} /\ e.status = "tested"
          /\ \E q \in unlanded(l) : config_unapproved(l.repos[q])
          /\ Go(t, "ask", l) /\ UNCHANGED disk
       \/ /\ unlanded(l) # {} /\ e.status = "tested"
          /\ \A q \in unlanded(l) : ~config_unapproved(l.repos[q])
          /\ Save(t[1], go)
          /\ IF Ours(t[1], l) THEN GoRepo(t, "cas", go, r) ELSE Fail(t, go)
    /\ UNCHANGED <<up, env, lock, jobs, ends, cards, log, seq, crashes, hist>>

(* git::advance: Base compare-and-swapped to exactly the tested commit      *)
(* (update-ref, or a fast-forward of Base's checkout).  A Base that moved   *)
(* sends this repository through step 1 and its check again.                *)
BaseMoved(r, e) == base[r] # e.base_before

Cas(t) ==
    LET l == land(t)
        r == task[t].repo
        e == l.repos[r]
        tried == [e EXCEPT !.attempts = @ + 1]
    IN
    /\ At(t, "cas")
    /\ \/ /\ ~BaseMoved(r, e)
          /\ base' = [base EXCEPT ![r] = e.tested]
          /\ Go(t, "log", l)
       \/ /\ BaseMoved(r, e) /\ tried.attempts >= MaxAttempts
          /\ Go(t, "hold", SetRepo(l, r, tried)) /\ UNCHANGED base
       \/ /\ BaseMoved(r, e) /\ tried.attempts < MaxAttempts
          /\ task' = [task EXCEPT ![t] = [@ EXCEPT !.pc = "prep", !.todo = {r}, !.again = TRUE,
                        !.land = SetRepo(l, r, [tried EXCEPT !.status = "pending"])]]
          /\ UNCHANGED base
       \/ Trouble /\ (Go(t, "hold", l) \/ Fail(t, l)) /\ UNCHANGED base
    /\ UNCHANGED <<up, branch, disk, lock, jobs, ends, cards, log, seq, crashes, hist>>

(* One line per land and repository, unless it has one.                     *)
HasLine(l, r) == \E e \in log : e.land = l.id /\ e.repo = r
log_repo(w, l, r) ==
    IF HasLine(l, r) THEN log
    ELSE log \cup {[land |-> l.id, repo |-> r, worker |-> w,
                    pinned |-> l.repos[r].pinned, tested |-> l.repos[r].tested]}

Log(t) ==
    LET l == land(t)  r == task[t].repo IN
    /\ At(t, "log")
    /\ log' = log_repo(t[1], l, r)
    /\ Go(t, "saveLanded", SetRepo(l, r, [l.repos[r] EXCEPT !.status = "landed"]))
    /\ UNCHANGED <<up, env, disk, lock, jobs, ends, cards, seq, crashes, hist>>

SaveLanded(t) ==
    /\ At(t, "saveLanded")
    /\ Save(t[1], land(t))
    /\ task' = [task EXCEPT ![t] = [@ EXCEPT !.pc = "gate", !.again = FALSE]]
    /\ UNCHANGED <<up, env, lock, jobs, ends, cards, log, seq, crashes, hist>>

-------------------------------------------------------------------------------
(* How a run ends: refused, held, or landed.                                *)

(* cleanup: checks still running are interrupted (which ends them, not      *)
(* passed), and every lock that names this land is released.                *)
Dropped(w, l) ==
    {q \in jobs : q.worker = w /\ \E r \in Of[w] : l.repos[r].status = "checking" /\ l.repos[r].job = q.id}
cleanupUnlanded(w, l) ==       \* slip: the locks of what landed are left
    /\ jobs' = jobs \ Dropped(w, l)
    /\ ends' = ends \cup {[job |-> q, passed |-> FALSE] : q \in Dropped(w, l)}
    /\ lock' = [r \in Repos |-> IF r \in unlanded(l) /\ lock[r] = l.id THEN None ELSE lock[r]]
cleanup(w, l) ==
    /\ jobs' = jobs \ Dropped(w, l)
    /\ ends' = ends \cup {[job |-> q, passed |-> FALSE] : q \in Dropped(w, l)}
    /\ lock' = [r \in Repos |-> IF r \in Of[w] /\ lock[r] = l.id THEN None ELSE lock[r]]
Cleaned(l) == [l EXCEPT !.repos = [r \in DOMAIN @ |-> [@[r] EXCEPT !.job = None]]]

Refuse(t) ==
    LET w == t[1] IN
    /\ At(t, "refuse")
    /\ disk' = IF disk[w].phase = "landing" /\ Ours(w, land(t))
               THEN [disk EXCEPT ![w] = [phase |-> "reported", land |-> None]] ELSE disk
    /\ Go(t, "clean", land(t))
    /\ UNCHANGED <<up, env, lock, jobs, ends, cards, log, seq, crashes, hist>>

RefuseClean(t) ==
    /\ At(t, "clean")
    /\ cleanup(t[1], land(t))
    /\ Stop(t)
    /\ UNCHANGED <<up, env, disk, cards, log, seq, crashes, hist>>

Hold(t) ==
    LET r == task[t].repo
        l == [land(t) EXCEPT !.state = "held", !.repos[r].status = "held"]
    IN
    /\ At(t, "hold")
    /\ Save(t[1], l)
    /\ Go(t, "holdClean", l)
    /\ UNCHANGED <<up, env, lock, jobs, ends, cards, log, seq, crashes, hist>>

HoldClean(t) ==
    /\ At(t, "holdClean")
    /\ cleanup(t[1], land(t))
    /\ Go(t, "holdSave", Cleaned(land(t)))
    /\ UNCHANGED <<up, env, disk, cards, log, seq, crashes, hist>>

HoldSave(t) ==
    /\ At(t, "holdSave")
    /\ Save(t[1], land(t)) /\ Stop(t)
    /\ UNCHANGED <<up, env, lock, jobs, ends, cards, log, seq, crashes, hist>>

(* finish: everything landed; the locks go first.                           *)
Finish(t) ==
    /\ At(t, "finish")
    /\ cleanup(t[1], land(t))
    /\ Go(t, "finishSave", Cleaned(land(t)))
    /\ UNCHANGED <<up, env, disk, cards, log, seq, crashes, hist>>

(* A land the human approved whose branch moved on since does not retire    *)
(* its worker.                                                              *)
FinishSave(t) ==
    LET w == t[1]
        moved == \E r \in Of[w] : branch[w][r] # land(t).repos[r].pinned
    IN
    /\ At(t, "finishSave")
    /\ Save(w, land(t))
    /\ Go(t, IF land(t).approved /\ moved THEN "unretire" ELSE "retire", land(t))
    /\ UNCHANGED <<up, env, lock, jobs, ends, cards, log, seq, crashes, hist>>

landed_unretired(t) ==
    LET w == t[1] IN
    /\ At(t, "unretire")
    /\ disk' = IF disk[w].phase = "landing" /\ Ours(w, land(t))
               THEN [disk EXCEPT ![w] = [phase |-> "reported",
                                         land |-> [land(t) EXCEPT !.state = "landed"]]]
               ELSE disk
    /\ Stop(t)
    /\ UNCHANGED <<up, env, lock, jobs, ends, cards, log, seq, crashes, hist>>

(* retire_worker moves the phase; when it fails with the worker still       *)
(* landing, the land is held for hiveLand to retire it.                     *)
RetireLanded(t) ==
    LET w == t[1] IN
    /\ At(t, "retire")
    /\ \/ /\ disk' = IF disk[w].phase = "landing" THEN [disk EXCEPT ![w].phase = "landed"] ELSE disk
          /\ Go(t, "saveEnd", [land(t) EXCEPT !.state = "landed"])
       \/ /\ Trouble /\ disk[w].phase = "landing"
          /\ Save(w, [land(t) EXCEPT !.state = "held"]) /\ Stop(t)
    /\ UNCHANGED <<up, env, lock, jobs, ends, cards, log, seq, crashes, hist>>

SaveEnd(t) ==
    /\ At(t, "saveEnd")
    /\ Save(t[1], land(t))
    /\ Go(t, "after", land(t))
    /\ UNCHANGED <<up, env, lock, jobs, ends, cards, log, seq, crashes, hist>>

(* after_land: the worker's branch to what landed, if it is at its pin.     *)
after_land(t) ==
    LET w == t[1] IN
    /\ At(t, "after")
    /\ branch' = [branch EXCEPT ![w] = [r \in Of[w] |->
                    LET e == land(t).repos[r] IN IF @[r] = e.pinned THEN e.tested ELSE @[r]]]
    /\ Stop(t)
    /\ UNCHANGED <<up, base, disk, lock, jobs, ends, cards, log, seq, crashes, hist>>

-------------------------------------------------------------------------------
(* The human's card (approval.rs).                                          *)

(* catch_before_step1: the config rule from the merge base to the pin where *)
(* step 1 does not stand.                                                   *)
CatchFirst(l) ==
    [l EXCEPT !.repos = [r \in DOMAIN @ |-> LET e == @[r] IN
       CASE e.status = "landed" -> e
         [] e.status = "tested" /\ e.tested # None /\ e.base_before # None
              -> [e EXCEPT !.fp = caught(e.base_before, e.tested)]
         [] OTHER -> [e EXCEPT !.fp = caught(base[r] \cap e.pinned, e.pinned)]]]

Card(c, w, l) ==
    [id |-> c, worker |-> w, land |-> l.id, pins |-> [r \in unlanded(l) |-> l.repos[r].pinned],
     fps |-> [r \in unlanded(l) |-> l.repos[r].fp]]

(* await_human: the locks go and one card is filed.  From the gate (the     *)
(* land is advancing) it asks about what step 1 caught; from hiveLand the   *)
(* catch is computed first.                                                 *)
Ask(t) ==
    LET w == t[1]
        c == CHOOSE c \in FreshCards : TRUE
        l == [IF land(t).state = "advancing" THEN Cleaned(land(t)) ELSE CatchFirst(Cleaned(land(t)))
                EXCEPT !.state = "awaiting_human"]
    IN
    /\ At(t, "ask") /\ FreshCards # {}
    /\ cleanup(w, land(t))
    /\ \/ /\ cards' = cards \cup {Card(c, w, l)}
          /\ Go(t, "asked", [l EXCEPT !.request = c])
       \/ Trouble /\ Fail(t, l) /\ UNCHANGED cards
    /\ UNCHANGED <<up, env, disk, log, seq, crashes, hist>>

(* Only then is the land saved as waiting; a save that is no longer ours    *)
(* takes the card back.                                                     *)
SaveAsk(t) ==
    LET l == land(t) IN
    /\ At(t, "asked")
    /\ Save(t[1], l)
    /\ IF Ours(t[1], l) THEN Stop(t) /\ UNCHANGED cards
       ELSE cards' = {d \in cards : d.id # l.request} /\ Fail(t, l)
    /\ UNCHANGED <<up, env, lock, jobs, ends, log, seq, crashes, hist>>

(* A card still fits its worker's record.                                   *)
Fits(d) ==
    LET l == disk[d.worker].land IN
    /\ disk[d.worker].phase = "landing" /\ l # None
    /\ l.id = d.land /\ awaits_human(l) /\ l.request = d.id
    /\ \A r \in unlanded(l) : r \in DOMAIN d.pins /\ d.pins[r] = l.repos[r].pinned

Answerable(d) ==
    /\ up /\ d \in cards /\ task[<<d.worker, "card">>].pc = "idle"
    /\ \/ "quick human" \in Races
       \/ \A t \in Tasks : task[t].pc = "asked" => land(t).request # d.id

(* approved: the land takes the approval and the config it covers, and runs *)
(* from where it stands.                                                    *)
Approve(d) ==
    LET w == d.worker
        say(r, e) == IF r \in DOMAIN d.fps /\ d.fps[r] # <<>>
                     THEN [e EXCEPT !.config_approved = d.fps[r]] ELSE e
        l == disk[w].land
        ok == [l EXCEPT !.state = "locking", !.approved = TRUE,
                        !.repos = [r \in DOMAIN @ |-> say(r, @[r])]]
    IN
    /\ Answerable(d)
    /\ cards' = cards \ {d}
    /\ IF Fits(d)
         THEN /\ disk' = [disk EXCEPT ![w].land = ok]
              /\ approved' = approved \cup {<<w, r, d.fps[r]>> : r \in DOMAIN d.fps}
              /\ Go(<<w, "card">>, "drive", ok)
         ELSE UNCHANGED <<disk, approved, task>>
    /\ UNCHANGED <<up, env, lock, jobs, ends, log, seq, crashes, passed, reviewed>>

(* closed: denied, or lapsed after 24 hours; it fails the land as it was    *)
(* read.                                                                    *)
Deny(d) ==
    /\ Answerable(d)
    /\ cards' = cards \ {d}
    /\ IF Fits(d) THEN Fail(<<d.worker, "card">>, disk[d.worker].land) ELSE UNCHANGED task
    /\ UNCHANGED <<up, env, disk, lock, jobs, ends, log, seq, crashes, hist>>

-------------------------------------------------------------------------------
(* The others: people and workers commit; a worker whose land is held or    *)
(* waits on the human reports again or is retired, which withdraws its card *)
(* and holds a land that partly landed.                                     *)
HumanCommit(r) ==
    /\ \E n \in 1..MaxHuman :
         /\ \A q \in Repos : <<Human, n>> \notin base[q]
         /\ base' = [base EXCEPT ![r] = @ \cup {<<Human, n>>}]
    /\ UNCHANGED <<up, branch, disk, task, lock, jobs, ends, cards, log, seq, crashes, hist>>

(* A worker commits, on its branch as it is or merged with Base.            *)
WorkerCommit(w, r) ==
    /\ up /\ r \in Of[w] /\ disk[w].phase \in {"reported", "landing"}
    /\ \E n \in 2..MaxWork, from \in {{}, base[r]} :
         /\ <<w, n>> \notin branch[w][r] /\ <<w, n - 1>> \in branch[w][r]
         /\ branch' = [branch EXCEPT ![w][r] = @ \cup from \cup {<<w, n>>}]
    /\ UNCHANGED <<up, base, disk, task, lock, jobs, ends, cards, log, seq, crashes, hist>>

hold_if_partial(l) ==
    IF awaits_human(l) /\ landed(l) # {} THEN [l EXCEPT !.state = "held"] ELSE l

WithdrawLeaves(w, phase) ==    \* slip: its card stays
    /\ disk' = [disk EXCEPT ![w] = [phase |-> phase, land |-> hold_if_partial(@.land)]]
    /\ UNCHANGED <<up, env, cards, task, lock, jobs, ends, log, seq, crashes, hist>>
Withdraw(w, phase) ==
    /\ disk' = [disk EXCEPT ![w] = [phase |-> phase, land |-> hold_if_partial(@.land)]]
    /\ cards' = IF awaits_human(disk[w].land)
                THEN {d \in cards : d.id # disk[w].land.request} ELSE cards
    /\ UNCHANGED <<up, env, task, lock, jobs, ends, log, seq, crashes, hist>>

Report(w) == up /\ held(w) /\ Withdraw(w, "reported")

Retire(w) ==
    /\ up
    /\ disk[w].phase = "reported" \/ held(w)
    /\ Withdraw(w, "retired")

(* maiTerm dies: runs, queue and cards are in memory.  Its lock files name  *)
(* a dead process, which LandLock shows to be no lock.                      *)
Crash ==
    /\ up /\ crashes < MaxCrashes
    /\ up' = FALSE /\ crashes' = crashes + 1
    /\ task' = [t \in Tasks |-> Idle]
    /\ lock' = [r \in Repos |-> None]
    /\ jobs' = {} /\ ends' = {} /\ cards' = {}
    /\ UNCHANGED <<env, disk, log, seq, hist>>

(* reconcile: a land caught running is held, what it was doing in each      *)
(* repository read from Base; a land that waits on the human is filed again *)
(* (refile_in).                                                             *)
Interrupted(w) ==
    disk[w].phase = "landing" /\ (in_progress(disk[w].land) \/ disk[w].land.state = "landed")

InBaseAlways(e, r) == TRUE     \* slip: taken for landed unseen
InBaseNever(e, r)  == FALSE    \* slip: Base is not read
InBase(e, r) == e.tested # None /\ e.tested \subseteq base[r]

reconcile(l) ==
    [l EXCEPT !.state = "held", !.repos = [r \in DOMAIN @ |-> LET e == @[r] IN
        CASE e.status = "advancing" -> [e EXCEPT !.status = IF InBase(e, r) THEN "landed" ELSE "tested"]
          [] e.status = "checking"  -> [e EXCEPT !.status = "pending", !.job = None]
          [] OTHER -> e]]

RefiledNone == {}              \* slip: no card is filed again
Refiled ==
    {Card(disk[w].land.request, w, disk[w].land) :
        w \in {v \in Workers : disk[v].phase = "landing" /\ awaits_human(disk[v].land)}}

Restart ==
    /\ ~up /\ up' = TRUE
    /\ disk' = [w \in Workers |->
                 IF Interrupted(w) THEN [disk[w] EXCEPT !.land = reconcile(@)] ELSE disk[w]]
    /\ log' = log \cup UNION {
         UNION {log_repo(w, disk[w].land, r) :
                r \in {q \in Of[w] : LET e == disk[w].land.repos[q] IN
                                      e.status = "advancing" /\ InBase(e, q)}} :
         w \in {v \in Workers : Interrupted(v)}}
    /\ cards' = Refiled
    /\ UNCHANGED <<env, task, lock, jobs, ends, seq, crashes, hist>>

-------------------------------------------------------------------------------
TaskStep(t) ==
    \/ StartLand(t) \/ Drive(t) \/ TakeLock(t) \/ LockBusy(t) \/ Locked(t)
    \/ Prepare(t) \/ Prepared(t) \/ StartCheck(t) \/ ChecksStarted(t)
    \/ Gate(t) \/ Cas(t) \/ Log(t) \/ SaveLanded(t)
    \/ Refuse(t) \/ RefuseClean(t) \/ Hold(t) \/ HoldClean(t) \/ HoldSave(t)
    \/ Finish(t) \/ FinishSave(t) \/ landed_unretired(t) \/ RetireLanded(t)
    \/ SaveEnd(t) \/ after_land(t) \/ Ask(t) \/ SaveAsk(t)

Others ==
    \/ \E w \in Workers, c \in Callers : Call(w, c)
    \/ \E d \in cards : Approve(d) \/ Deny(d)
    \/ \E r \in Repos : HumanCommit(r)
    \/ \E w \in Workers, r \in Repos : WorkerCommit(w, r)
    \/ \E w \in Workers : Report(w) \/ Retire(w)

Next ==
    \/ \E t \in Tasks : TaskStep(t)
    \/ \E q \in jobs : CheckEnds(q)
    \/ \E e \in ends : MarkEnded(e)
    \/ Others
    \/ Crash \/ Restart

(* maiTerm's own steps are taken: a spawned run goes on, the queue ends     *)
(* every check (a job has a timeout), each end is heard, and maiTerm is     *)
(* started again.  People, the queen and the workers owe nothing.           *)
Fairness ==
    /\ \A t \in Tasks : WF_vars(TaskStep(t))
    /\ WF_vars(\E q \in jobs : CheckEnds(q))
    /\ WF_vars(\E e \in ends : MarkEnded(e))
    /\ WF_vars(Restart)

Spec == Init /\ [][Next]_vars
FairSpec == Spec /\ Fairness

-------------------------------------------------------------------------------
(* Properties                                                               *)

PCs == {"idle", "called", "drive", "lock", "prep", "check", "gate", "cas", "log", "saveLanded",
        "refuse", "clean", "hold", "holdClean", "holdSave", "finish", "finishSave", "unretire",
        "retire", "saveEnd", "after", "ask", "asked"}

JobSet  == [id : JobIds, worker : Workers, land : 1..MaxLands, repo : Repos, tested : Commits]

Types ==
    /\ up \in BOOLEAN
    /\ base \in [Repos -> Commits]
    /\ \A w \in Workers : branch[w] \in [Of[w] -> Commits]
    /\ \A w \in Workers : /\ disk[w].phase \in Phases
                          /\ disk[w].land \in LandState(w) \cup {None}
    /\ \A t \in Tasks : /\ task[t].pc \in PCs
                        /\ task[t].land \in LandState(t[1]) \cup {None}
                        /\ task[t].todo \subseteq Of[t[1]]
                        /\ task[t].repo \in Of[t[1]] \cup {None}
                        /\ task[t].pc # "idle" => task[t].land \in LandState(t[1])
    /\ lock \in [Repos -> (1..MaxLands) \cup {None}]
    /\ jobs \subseteq JobSet /\ {e.job : e \in ends} \subseteq JobSet
    /\ seq \in 0..MaxLands /\ crashes \in 0..MaxCrashes

\* Types; and the pools of names never run dry, so no bound on them hides a step.
TypeOK ==
    /\ Types
    /\ FreshCards # {}
    /\ \A w \in Workers : Checked \cap Of[w] # {} => FreshJobs(w) # {}

Work(w) == {c \in Changes : c[1] = w}

\* Step 2 of task t moves Base in this step.
Moves(t) == task[t].pc = "cas" /\ task'[t].pc = "log"

\* "pinned to the commit you reviewed" (mod.rs:260): what Base holds of a
\* worker's work is exactly some commit hiveLand named, never a later tip.
LandedIsReviewed ==
    \A w \in Workers : \A r \in Of[w] :
        LET mine == base[r] \cap Work(w)
        IN  mine # {} => \E pin \in reviewed[w][r] : pin \cap Work(w) = mine

\* "fast-forwards Base to exactly the tested commit": in a repository with a
\* land check, Base only ever moves to a commit its check passed on.
ChecksPass ==
    [][\A t \in Tasks : Moves(t) /\ task[t].repo \in Checked =>
          <<task[t].repo, base'[task[t].repo]>> \in passed]_vars

\* The config rule: a land that changes config from where Base stands moves
\* Base only when the human approved exactly that change, in that repository.
ConfigApproved ==
    [][\A t \in Tasks : Moves(t) =>
          LET r == task[t].repo  change == caught(base[r], base'[r])
          IN  change # <<>> => <<t[1], r, change>> \in approved]_vars

\* With nothing of it running, a lock belongs to a land whose check runs.
NoLockLeak ==
    \A r \in Repos : up /\ lock[r] # None =>
        \/ \E t \in Tasks : task[t].land # None /\ land(t).id = lock[r]
        \/ \E w \in Workers : /\ disk[w].phase = "landing" /\ disk[w].land.id = lock[r]
                              /\ disk[w].land.state = "checking"

\* "Lands are serialized per repository across steps 1 and 2" (lock.rs:1): from
\* its locks to its last step 2 a run holds every repository it still has to
\* land, and so does a check of it in the queue; and with nothing of it running,
\* a lock belongs to a land whose check runs.
Running == {"prep", "check", "gate", "cas", "log", "saveLanded"}
LockHeld ==
    /\ NoLockLeak
    /\ \A t \in Tasks : task[t].pc \in Running =>
          \A r \in unlanded(land(t)) : lock[r] = land(t).id
    /\ \A q \in jobs : lock[q.repo] = q.land

\* What landed, by the record or by the log's line, stays landed at its pin: its
\* land is never refused, forgotten or replaced, and no resume or late save lands
\* it again, until the land is over and its worker starts another.
LandedKept ==
    [][\A w \in Workers : \A r \in Of[w] :
          LET l == disk[w].land  m == disk'[w].land
          IN  l # None /\ (l.repos[r].status = "landed" \/ HasLine(l, r)) =>
              \/ l.state = "landed" /\ m # None /\ m.id # l.id
              \/ /\ m # None /\ m.id = l.id /\ m.repos[r].pinned = l.repos[r].pinned
                 /\ m.repos[r].status \in {l.repos[r].status, "landed"}]_vars

\* Once nothing of a worker runs, everything of its work that Base holds is in
\* the land log under the commit that was reviewed, across crashes too; and no
\* line of the log is of a commit Base doesn't hold.
LandsLogged ==
    /\ \A e \in log : e.tested \subseteq base[e.repo]
    /\ \A w \in Workers : Quiet(w) =>
        \A r \in Of[w] : base[r] \cap Work(w) \subseteq
            UNION {e.pinned : e \in {e \in log : e.worker = w /\ e.repo = r}}

\* "every repo's merge and check pass before any lands" (mod.rs:267): when a
\* land first moves a Base, every repository of it has its tested commit.
AllPassFirst ==
    [][\A t \in Tasks : Moves(t) /\ landed(land(t)) = {} =>
          \A q \in DOMAIN land(t).repos : q # task[t].repo => land(t).repos[q].status = "tested"]_vars

\* A land that waits on the human, and nothing of it running, has the card it
\* waits on: else nobody can ever answer it (and hiveLand is refused).
AwaitingHasCard ==
    \A w \in Workers : Quiet(w) /\ disk[w].phase = "landing" /\ awaits_human(disk[w].land) =>
        \E d \in cards : Fits(d) /\ d.worker = w

\* "its end carries the land on" (driver.rs:7): a land in progress comes to an
\* end, or to a state someone can act on.
InProgress(w) == disk[w].phase = "landing" /\ in_progress(disk[w].land)
LandEnds == \A w \in Workers : InProgress(w) ~> ~InProgress(w)
===============================================================================
