# maiTerm's Hive: a TLA+ verification development

maiTerm is a terminal whose *Hive* runs many coding agents (workers) on one
project: each worker has its own worktree and branch per repository, reports
when it is done, and its reviewed commit is *landed* on `Base` by maiTerm
itself. This directory holds TLA+ models of the parts of the Hive (the Rust
code under `src-tauri/src/hive/`) whose correctness depends on order, failure
and concurrency, the TLC configurations that check them, and the theorems TLAPS
proves about them. Paths below are relative to the repository unless they name
a file of this directory. `land/` is `src-tauri/src/hive/land/`.

1. [Inventory](#1-inventory)
2. [The modules](#2-the-modules)
3. [What the runs check and show](#3-what-the-runs-check-and-show)
4. [Bounds, fairness, deadlock](#4-bounds-fairness-deadlock)
5. [What is proved](#5-what-is-proved)
6. [What disagrees with the code's own words](#6-what-disagrees-with-the-codes-own-words)
7. [What is abstracted and what is not modelled](#7-what-is-abstracted-and-what-is-not-modelled)
8. [What is left](#8-what-is-left)

## 1. Inventory

The Hive's state lives in three places: files that survive a restart
(`worker.json` per worker, the land log, git itself, the land lock files), the
process's memory (queue, cards, `HELD`, reservations, poll state), and the
window (tabs, PTYs), which Rust reaches by rpc. Handlers are async: every
`await`, every spawned task and every write of `worker.json` is a point where
something else can run, and maiTerm may die at any of them.

| Component | Source | State | Operations | Hard behaviour | Properties that make it correct |
|---|---|---|---|---|---|
| Land lock | `land/lock.rs` | one O_EXCL file per repository, `HELD` + condvar per process | `take`, `try_take`, `release` | several processes, crashes, reused pids, half-written files, file calls that are not atomic together | mutual exclusion; a holder is named by its file; a dead holder never blocks the rest |
| Landing | `land/mod.rs`, `driver.rs`, `approval.rs`, `git.rs`, `config_rule.rs` | `worker.json`'s phase and land record; runs in memory; Base refs | `hiveLand`/Retry, the run (locks, step 1, check, step 2), hold, refuse, finish, card filed/approved/denied/withdrawn, reconcile at startup | runs that carry copies of the record over awaits, two check ends at once, moved Bases, crashes between Base's move and its record | only reviewed, checked, approved commits reach Base; what landed is logged once and stays landed; a land ends |
| Land log | `land/log.rs` | append-only lines | `append`, `fold` | reverts of reverts, a line cut off by a crash | a repository's standing is what its lines say |
| Batch queue | `land/batch.rs` | per repository: members (by their records), a runner, an in-flight chain and its check | `try_join`, `run`, `land_batch`, `build`, `land_set`, `land_members`, `land_alone` | members join and leave while a batch is built and checked; split on failure; rebuild on a moved Base | each member is in one pair of hands and ends; nobody is blamed for another; Base only moves to a checked set |
| Undo, post-land check | `land/undo.rs`, `land/base_check.rs` | a file per undo, the log, cards, the one check that runs per repository | start, drive, check end, approved, denied, finish, reconcile, refile; `run`, `ended` | lands and commits between the human's look and the revert; crash between Base's move and its line | a land is taken back once, as the human saw it, and settled after any restart; a target that fails names what broke it |
| Run queue | `queue.rs`, the job and lease half of `src/lib/stores/stack.svelte.ts` | jobs, resources and copies they hold, actions held for a copy, a PTY per started job, the ticker's flag | `enqueue`, `schedule`, `start_job`, `osc`/`complete`, `pty_closed`, `interrupt`, `hold`, `override_lease`, `finish`, the ticker | five ways a job ends, racing; marks read off the reader's thread; Ds a job prints; a start prepared off the lock; a ticker that ends itself | what is held is what started jobs need; one end, one finish; a pass is the shell's; what waits for a copy goes next; a ticker is up while a job is active |
| Agent requests | `agent_requests.rs` | pending cards | `file`, `decide`, `sweep`, `withdraw` | an answer to a card already withdrawn or lapsed | answered at most once |
| Worker record | `worker.rs`, `report.rs`, `retire.rs`, `control.rs` | `worker.json` | compare-and-set updates; report, retire, stop | stop's rollback after an await | a phase moves along its lattice |
| Worker launch, stop | `tools.rs`, `control.rs` | `worker.json`, the board | `spawn_worker`, `launch_worker`, `file_waiting`, `Undo::run`; `stop_worker`, `restart_worker`, `rewait`, `put_back` | a launch taken back, a stop in the middle of one, a stop whose signal is refused | a stop stands; a launch taken back leaves what it found |
| Waiters | `waiters.rs`, `pressure.rs` | `POLLING`, `BACKOFF`, `SCHEDULED`, the memory watch | `poll`, `poll_soon`, `poll_when_memory_frees`, the breaker's poll | coalesced polls; a watch that ends while somebody is refused | no change missed; whoever was told to wait is told when it is over |
| Fuses | `fuses.rs` | reservations, spawn counts, breaker, pause | `reserve`, `commit`, drop, expiry, trip, pause, resume | count read from disk while a reservation turns into a worker | the cap is never passed |
| Delivery, owed notices | `deliver.rs`, `owed.rs` | what each agent is owed | owe, claim, typed | restart between claim and typing | nothing owed is lost |
| The rest | run tool, goals, finish, tools, briefs, gallery, media, mailink, terminal, frontend, website | | | mostly validation, text, I/O | |

How they interact: `hiveLand` (tool call) spawns a run; the run takes **land
locks**, merges, enqueues land checks on the **run queue** and ends; each check's
end calls back on a task of its own (`driver.rs:1109`) and the last one in goes
on to step 2; a run that needs the human files an **agent request** and ends, and
the answer starts another run; the finish **retires** the worker; startup's
reconcile settles what a crash cut off. A land that finds its repository busy joins
the **batch queue**, which lands its members as one or hands them back to land alone.
An **undo** is a land of a revert: same lock, config rule, check, compare-and-swap and
log. A land or undo that goes wrong has the target **checked alone**, and folding the
**log** says which lines are suspect. Whatever ends (a land, a stop, a task done, a
pause) asks the **waiters** for a poll, which launches workers through the **fuses**.

## 2. The modules

| Module | Models | Extends |
|---|---|---|
| `LandLock` | `land/lock.rs`, every file call a step, for any set of processes | |
| `LandLock_proofs` | theorems about it | `LandLock`, TLAPS |
| `Land` | `land/mod.rs`, `driver.rs`, `approval.rs` and what they use | |
| `Land_proofs` | theorems about it | `Land`, TLAPS |
| `LandRun_proofs` | theorems about one run at a time of a land | `Land_proofs` |
| `MCLandLockOne`, `MCLandLockTwo` | constants: one process with three lands; two processes | `LandLock` |
| `MCLand` | constants: workers, repositories, orders | `Land` |
| `Landings` | what a repository's lands promise, alone or in batches, abstractly | |
| `Batch` | `land/batch.rs`: the queue of one repository, its run and its chains | instance of `Landings` |
| `Batch_proofs` | theorems about it, and that it implements `Landings` | `Batch`, TLAPS |
| `MCBatch` | constants: three workers, a pair that fails together, one that fails with a human's commit | `Batch` |
| `LandLog` | `land/log.rs`: what the fold of the lines says | |
| `Undo` | `land/undo.rs`, `land/base_check.rs` | `LandLog` |
| `Undo_proofs` | theorems about it | `Undo`, TLAPS |
| `MCUndo` | constants: a land that brings config and a break, one that repairs it | `Undo` |
| `Spawn` | `fuses.rs`, `waiters.rs`, and launch, stop and restart of `tools.rs`, `control.rs` | |
| `Spawn_proofs` | theorems about it | `Spawn`, TLAPS |
| `MCSpawn` | constants: two workers that wait for a third | `Spawn` |
| `JobLife` | what a job of the run queue goes through, abstractly | |
| `RunJob` | one job of `queue.rs` in full: start, shell, end, finish | instance of `JobLife` |
| `RunJob_proofs` | theorems about it, and that it implements `JobLife` | `RunJob`, TLAPS |
| `RunQueue` | `queue.rs` over all jobs: resources, leases, stops, held actions, ticker | |
| `RunQueue_proofs` | theorems about it | `RunQueue`, TLAPS |
| `MCRunQueue` | constants: three jobs of two Hives | `RunQueue` |

### LandLock

| Model | Code |
|---|---|
| `file` | the file at `lock_path`: whose it is, whether its JSON is written, whether its mtime is `UNREADABLE_STALE` behind |
| `HELD`, `mutex` | the process-wide map and its mutex, held from the entry of `try_take`/`release` to their return |
| `pid` | `std::process::id()` of each running maiTerm |
| `Enter`, `Retake` | `try_take`'s entry: already ours, or into the loop of two rounds |
| `Create`, `Write`, `WriteFails` | `create_new`, then `write_all` + `sync_all`, then `held.insert`; or the removal after a failed write |
| `Read`, `Judge`, `Remove` | `read_info`, `stale`, `remove_file`: three system calls, three steps |
| `TimeOut` | `take`'s deadline |
| `Release`, `ReleaseRead`, `ReleaseRemove`, `ReleaseWake` | `release`, also called by a land that does not hold the lock |
| `Crash`, `Start`, `Age` | the world: processes die, start under any free pid, time passes |

`stale(l, info)` is the code's match: unreadable files are judged by their age *at
that moment*, our own pid's by `HELD`, any other by `kill(pid, 0)`. A write into a
file somebody removed meanwhile goes where no path leads, as it does on Unix.

### Land

A commit is the set of changes it contains: a merge is a union, "is an ancestor
of" is inclusion. That keeps everything the properties distinguish (what reached
Base, what was tested, what was reviewed) and drops the hashes.

| Model | Code |
|---|---|
| `disk[w]` | `worker.json`: the phase and the `LandState` record; each write is one `update_worker` compare-and-set |
| `task[<<w, s>>]` | one async task working on `w`'s land: a tool call, the card's answer, a check's end. It carries *its own copy* of the land (Rust's `&mut LandState`), which `Save` writes over the disk's if the id is still the same (`driver.rs:199-216`) |
| `base`, `branch` | the refs |
| `lock` | what `LandLock` promises: per repository, one land or none |
| `jobs`, `ends` | checks in the queue; ends on their way to `on_check_end` |
| `cards` | pending land requests (in memory only) |
| `log` | the land log's lines |
| `passed`, `reviewed`, `approved` | history: what checks passed on, what `hiveLand` named, what the human approved |

The actions follow a run. `Call` and `StartLand` are `land_tool_with` on each side
of its awaits (validate and build the record; then compare-and-set it). `Drive`,
`TakeLock`, `LockBusy`, `Locked` are `drive` and `take_locks` in folder order.
`Prepare`/`Prepared` are step 1 per repository; `StartCheck`/`ChecksStarted` are
`start_checks` and `proceed`; `CheckEnds` and `MarkEnded` the queue and
`on_check_end`. `Gate`, `Cas`, `Log`, `SaveLanded` are one turn of
`advance_inner`'s loop, cut where something else can run: before Base moves, after
it moved and before the log has the line, after the line and before the record
says landed. A lost compare-and-swap sends one repository through step 1 again
(`again`), at most `MaxAttempts` times. `Refuse`/`RefuseClean`,
`Hold`/`HoldClean`/`HoldSave`, `Finish`/`FinishSave`/`landed_unretired`/
`RetireLanded`/`SaveEnd`/`after_land` are the three ways it ends, one action per
write. `Ask`/`SaveAsk` file the card and then save the land as waiting;
`Approve`, `Deny`, `Report`, `Retire` are what can happen to it. `Crash` loses
everything in memory, `Restart` is `reconcile` and `refile_in`.

`Races` names the orders of steps a run admits beyond the usual ones, so that a
passing run says precisely under which orders its properties hold, and a
violation run shows the one order that breaks one:

| Race | Order |
|---|---|
| `early end` | a check ends before the run that queued it saved the land as checking |
| `ends together` | one check's end is heard while the task of another's is still acting |
| `quick human` | a card is answered before the land is saved as waiting on it |
| `call while running` | `hiveLand` or Retry comes while a run of the land is still finishing its writes |

`Undo` and `Spawn` have a constant of the same name and purpose: `Undo` knows `early end`,
`quick human` and `late verdict` (a check of the target alone is logged after its tip
moved), `Spawn` knows `refused stop` (the slot a stop freed is taken before the stop is
taken back), `late launch` (a launch or restart whose slot expired writes its worker live
over a cap full by then) and `resume in a poll`. Their passing runs have none, section 6
says what each does.

### The run queue: RunJob and RunQueue

`queue.rs` keeps every job under one mutex, but a job's fate is decided by tasks
that run off it. `RunJob` follows one job through all of those; `RunQueue` has all
the jobs and what they compete for, and of one job only that it starts, runs, ends
somehow and finishes. The two meet at `end`: in `RunJob` it is the state, the PTY's
mapping and the finish to come, in `RunQueue` the resources, the leases and what
waited for them. `JobLife` is what a reader may rely on of one job.

| `RunJob` | Code |
|---|---|
| `state`, `began`, `armed`, `code` | `Job`'s `state`, `began`, whether `pty_id` is set, `exit_code` |
| `mapped` | `by_pty` has the job's PTY |
| `start`, `fin` | where the tasks `start_job` and `finish` stand |
| `shell` | the tab in the window (`startJob`), then its shell |
| `mark`, `reads` | the mark files in the run's folder; the blocking tasks that are to read them, one per D heard |
| `Prepare`, `SetRow`, `Confirm`, `GiveUp` | `start_job`, cut at its awaits and locks |
| `arm`, `Type` | `stack_job_arm` and the write to the PTY; a refused arm closes the tab |
| `osc_B`, `osc_D`, `Complete`, `pty_closed` | `on_osc133` and `on_pty_closed` with the `Queue` methods they call |
| `interrupt` | every stop: a human's, a worker's release, a suspend, an override, an exposed port, an idle app, the timeout |
| `FinClean`, `FinLog`, `FinStop` | `finish`, cut at its awaits |

A D is the shell's (`Own`, after its line ended) or one the job itself prints
(`Forged`, any number of them); `Complete` reads the marks and completes in one
step, which is sound because the marks only grow while the line runs.

| `RunQueue` | Code |
|---|---|
| `holders`, `leases`, `held`, `handoff`, `parked` | the `Queue` fields of those names |
| `todo` | where `schedule`'s loop stands; nothing else runs while it is not empty, as the mutex is held |
| `kicked`, `caller` | a `schedule_and_start` that is to run; callers of `enqueue` that have still to `kick` |
| `acting` | what windows do with freed copies: `onLeaseFreed`, `stopAnyway`, up to their `stackLeaseDone` |
| `TICKING`, `ticker` | the flag, and where each ticker task stands in `ensure_ticker`'s loop |

`end(S, now)` ends a set of jobs: `S` is one job but for a suspend and an override.

### Batch and Landings

A commit is again a set of changes, one per worker; `Breaks` says which sets fail the
check together, so a batch may fail though each member passes alone. `Landings` is
what the queen may rely on whichever way a land goes: it comes back refused, held or
done, Base only gains checked work, and work in Base is never answered as refused.

| `Batch` | Code |
|---|---|
| `rec[w]` | the record's land: state, repository status, tested commit |
| `RUNNERS`, `ACTIVE`, `slot`, `job` | whether the repository's queue has a run; what `await_check` may hear; `ENDS`; the check in the run queue |
| `pc`, `set`, `todo`, `alone`, `chain`, `attempts`, `outs`, `end` | the run's locals, `pc` naming the await it stands at |
| `Call`, `Join`, `Straight` | `hiveLand`: `try_join` under the runners' lock, or a land alone |
| `SoloLocks` ... `SoloRetires` | a land alone beside the queue, in two steps: its own are `Land`'s subject |
| `Scan`, `Last`, `TakeLock`, `LockFails`, `Gather`, `Release` | `run`: the look, the second look under the lock, the wait for the land lock |
| `Pop` ... `Advance` and the members' `land`, `refuse`, `hold` | `land_set`: build the chain, one check on its tip, split in half, rebuild when Base moved, fast-forward; `land_members` |
| `LandAlone`, `Driven`, `NoneAlone` | `land_alone`, `drive_to_end` |

### Undo and LandLog

The target is the sequence of its commits, each a tree (a set of changes) and who
made it; a revert is the inverse of what its line changed, applied to the tip's tree.

| `Undo` | Code |
|---|---|
| `undo[u]` | `logs/undos/<U-...>.json`, written whole by `save` |
| `task[u]` | the one async call working on it, with *its own copy* of the state: a tool call, a click, the card's answer, a check's end |
| `log`, `LandLog` | `logs/lands.jsonl` and its fold |
| `shown`, `card`, `seen` | the confirmation open in the land log's dialog; pending cards; history: what the human agreed to |
| `RUNNING` | `base_check`'s map: the tip whose check of the target alone runs |
| `CoordinatorUndoes`, `Preview`, `HumanUndoes` | `start` from `hiveUndoLand`; `preview` and the click on it |
| `Drive`, `Tip`, `Queue`, `Queued`, `Advance`, `Cas` | `drive`, cut at its awaits: lock, revert and config rule, check, "persisted before the target moves", compare-and-swap |
| `CheckEnds`, `CheckHeard` | the queue, `on_check_end` |
| `Log`, `Mark`, `Done`, `Post` | `finish`, cut where maiTerm may die or others move the target |
| `Close`, `Ask`, `Asked`, `Approve`, `Deny` | `refuse` and `hold`; `await_human`, `approved`, `closed` |
| `LandMoves`, `LandLogged`, `LandFails`, `Commit` | lands of the same repository, as far as they meet an undo; people |
| `Crash`, `Restart`, `Settle`, `Refile` | death; `reconcile_in` per undo, line before file, and `refile_in` |

### Spawn

| `Spawn` | Code |
|---|---|
| `phase`, `launched`, `row`, `done` | `worker.json`'s phase and `launched_at`; the board's tasks |
| `task` | the coordinator's spawn, its restart, and the poll, each at an await of `launch_worker` (`sample` ... `commit`, or `back`, `drop`, `put` when it is taken back) |
| `pending`, `spawns`, `breaker`, `active` | `FuseBook`: reservations, the hour's count, the usage-limit breaker; the Hive's pause |
| `gate`, `WATCH`, `REFUSED`, `wake` | memory pressure; the one watch that waits for it to ease; whom it tells |
| `POLLING`, `reading`, `list`, `seen`, `asked` | the coalesced poll: "one more run"; what it read; the Hive its caller had |
| `Sample`, `Reserve`, `Refuse`, `Throttled`, `Expire`, `Commit`, `Drop` | `Fuses::reserve`, `Reservation::commit` and `drop`, `prune`, which may give a slot back under its launch at any of its steps |
| `Write`, `Slotted` | the launch's record written launching, which in the code asks nothing of the slot |
| `SpawnWorker`, `File`, `RestartWorker`, `Rewait`, `Move`, `Back`, `PutBack` | `spawn_worker`, `file_waiting`, `restart_worker`, and their rollbacks |
| `StopWorker`, `Signalled`, `SignalRefused` | `stop_worker` on each side of its await |
| `Enter`, `Read`, `Try`, `Again`, `PollEnds` | `poll`, `poll_once` |
| `Mark`, `Begin`, `SeesOpen`, `WatchEnds`, `Taken`, `Wake` | `poll_when_memory_frees` and its watch |

## 3. What the runs check and show

| Run | Configuration | Properties | Distinct states |
|---|---|---|---|
| `MCLandLockOne` | one process that may die anywhere, two pids (so its own comes back), three lands, stalls, failing writes, timeouts | `TypeOK`, `HolderNamed`, `SomeoneGets` | 25 thousand |
| `MCLandCrash` | two repositories (one checked), both orders, Landing = Ask me, config changes, failing calls, two foreign commits, one crash anywhere | `TypeOK`, `LandsLogged`, `LandedKept`, `ConfigApproved` | 315 thousand |
| `MCLandTwo` | two workers on one checked repository, Landing = Ask me, commits after the review, three lands; Base moves by the other's land | `LockHeld`, `LandedIsReviewed` | 691 thousand |
| `MCLandEnds` | two checked repositories, config changes, one crash, fairness | `AwaitingHasCard`, `ChecksPass`, `LandEnds` | 29 thousand |
| `MCBatch` | three workers, a pair that fails together, a human's commit that breaks the third, another Hive's land, one restart, checks that are spoiled or don't finish, fairness | `TypeOK`, `OneDriver`, `LogIsTrue`, `Innocent`, `Lands`, `QueuedEnds` | 294 474 |
| `MCUndo` | two lands, the second repairing the first's break, both touching config; two undos by either party, two mishaps (a failed call, a death, a commit, a failed land) | `TypeOK`, `Settled`, `OnceUndone`, `RevertSeen`, `RevertClean`, `CulpritNamed` | 1.1 million |
| `MCSpawn` | three workers, two waiting for the first, cap 1, two spawns an hour, two troubles | `TypeOK`, `CapHeld`, `NoneMissed`, `MemoryTold`, `StopStands` | 1.5 million |
| `MCRunJob` | one job, fairness | `TypeOK`, `EndsOnce`, `PassIsReal`, `ExitCounts`, `LifeSpec` | 1 thousand |
| `MCRunQueue` | three jobs of two Hives, two of them on one pool slot, two on one copy; one act that may wait; two ticker tasks | `TypeOK`, `Possession`, `Capacity`, `Ticking`, `HeldUntilFree`, `HeldGoesFirst` | 1.8 million |
| `MCLandLockRace` | two processes, one may die | `Serialized` **violated** | |
| `MCLandAllPass` | two checks whose ends come together | `AllPassFirst` **violated** | |
| `MCSpawnCap` | launches whose slot expires, and stops whose signal is refused after their slot was taken | `CapHeld` **violated** | |

What the properties say:

* `HolderNamed`: whoever holds a repository's lock is named by the file on disk, i.e.
  nobody stole or overwrote it; since the file names one land, no two hold it
  (`Serialized`). `SomeoneGets`: once a land waits, some land gets the lock, unless all
  that ask give up at their deadlines first or a process dies. A half-written or orphaned
  file never blocks for good those that go on asking.
* `LandedIsReviewed`: of a worker's own work, Base holds exactly some commit
  `hiveLand` named, though the branch moves on at any time.
* `ChecksPass`: where there is a land check, each move of Base is to a commit the
  check passed on. This is what reuse of a tested repository after a hold, a
  moved Base and the "through step 1 again" path could break.
* `ConfigApproved`: a move that changes agent-configuration files is one the human
  approved, as that change, in that repository. An approval of an earlier state of
  the file does not count.
* `LandsLogged`: with nothing of a worker running, Base's share of its work and the
  log agree, crashes between the two writes included.
* `LandedKept`: what landed, by the record or already by the log, stays landed at its
  pin: its land is never refused, forgotten or replaced, and never lands it again, until
  it is over and its worker starts another.
* `LockHeld`: the lock is held across the queue's check and the change of task, and
  no path out of a run leaves one behind.
* `AwaitingHasCard`, `LandEnds`: a land in `awaiting_human` can be answered; a land
  in progress stops being in progress.

* `OneDriver`: every land of the batch queue is in some hands that will end it, a join
  that races the run's end included, and in one pair: never driven alone while a
  chain lands it. `QueuedEnds`: so each waiting member is answered.
* `Innocent`: a member refused for a check that failed on what it tested fails it
  alone on the Base its chain was built on, whatever other members, splits and rebuilds
  there were. A check that ran past its time or moved the commit it tested counts as
  failed too (`spoiled`, `batch.rs` 797-802): it splits a chain like any other, and may
  refuse a lone member that breaks nothing, of which `Innocent` says nothing.
* `LogIsTrue` (of `Batch`): one line per land in Base, none for others, though a
  restart falls between a chain's fast-forward and its members' lines. `Lands`: the
  queue implements `Landings`.
* `Settled`: at rest, after any restart, an undo's file, its revert in the target, its
  line, the worker's mark, its lock, its check and its card agree. `OnceUndone`: one
  undo of a land is open at a time, one revert of it is in the target.
* `RevertSeen`: a revert changes exactly the config the human agreed to, though
  lands and commits moved the target since they looked. `RevertClean`: it takes back
  what its land did and nothing that came later, to a tree that passes.
* `CulpritNamed`: when the target fails alone, each line that brought what it fails
  with is a suspect, reverts of repairs included.
* `CapHeld`: live workers by their records and slots by their reservations never
  pass the cap while reservations expire, commit and are taken back, as long as a record
  is written live only into a slot that is still its launch's own, or into room. The
  code does not look: `MCSpawnCap` has what comes of that.
* `NoneMissed`: a waiter that could launch has a poll, a watch or a schedule coming.
  `MemoryTold`: whoever was told that memory is short has somebody to tell them it
  no longer is. `StopStands`: no launch under way, and none taken back, writes over a
  stop.

* `EndsOnce`: of the exit, the closed PTY, the refusal, the timeout and the stops
  that may all reach one job, one ends it, and its line is logged once. `LifeSpec`
  says the same of its whole life: never back to a state it left, never another end.
* `PassIsReal`: whatever a job prints, exit 0 means its shell left the pass mark.
  `ExitCounts` is the other side: no printed D makes the queue deaf to the real one,
  so a line that ends ends its job.
* `Possession`, `Capacity`: the books over resources and copies are exactly what
  the started jobs need, through every way a job ends, and no pool is over-booked.
* `HeldUntilFree`, `HeldGoesFirst`: a stop that waits for a copy is sent in the step
  that frees it, neither earlier nor later, and no job leases the copy before that.
* `Ticking`: the ticker ends itself without a lock, and still there is never a
  second one and, once a caller has kicked, never none while a job is active.

Each property of a passing run has a mutant (or two) in `PROJECT.json`: a changed
definition (marked `slip` in the modules) under which TLC finds it violated.

## 4. Bounds, fairness, deadlock

**Bounds.** `MaxLands` (2 or 3) lets a land be refused and started over, and two
workers compete and one of them return. `MaxHuman` (1 or 2; in `MCLandTwo` the
other's lands move Base) moves it before step
1, between step 1 and step 2, and again on the second attempt. `MaxAttempts` 2
(the code's is 3) reaches both the retry and the give-up. `MaxWork` 2 gives a worker
a commit after the review. `MaxCrashes` 1 puts one death between any two steps;
reconcile itself is one atomic step here. `JobIds` and `CardIds` are pools whose
names come back once no record mentions them; `TypeOK` asserts the pools never
run dry, so their size hides nothing (it holds with the constants of `MCLandTwo` and
`MCLandEnds` too). Three lands in `LandLock` are the
smallest number with a holder, a reader of its file and a third to take advantage;
one pid more than there are processes lets a successor run under another pid or its
predecessor's. The run of one process is enough for writes that fail and waits that
time out: across processes that neither die nor stall, serialization is proved (5).

Of the run queue: one job is all `RunJob` needs, since jobs meet in `RunQueue` only;
its counters are bounded by the job's life. Three jobs let one hold, one wait and
one end; capacity 1 is a pool at its limit; two of them share a copy, so that it is
free only when the second ends. Two ticker tasks are the old one that is about to
end itself and its successor; `OneTicker` asserts there are never two that tick, and
a third would have to start while two are in their last steps.

Of the batch queue: three workers are a chain that splits unevenly, so that a pair
that only fails together, a lone culprit and an innocent member meet; `MaxLands` 3
has each call once or one of them come back; `MaxAttempts` 2 reaches the rebuild and
the give-up; another Hive's land takes the lock once, and maiTerm restarts once.

Of undoing: two lands give a revert that later work sits on, a repair whose revert
brings the break back, and two config changes a confirmation can tell apart.
`MaxMishaps` 2 is one budget for what goes wrong (a call that fails, a death, a
person's commit, a land's failed check, a second undo begun), so any two of these
meet, two deaths included. `MaxAttempts` 2 reaches the retry and the give-up.

Of launching: under a cap of one every second worker is one too many; two workers that
wait for the same one are what a poll chooses between (and symmetric, so TLC takes
them as one); an hour's limit of two is reached; `MaxTrouble` 2 lets any two failures,
expiries, stops or restarts meet.

**Fairness of LandLock.** A thread inside `try_take` or `release` goes on (weak
fairness), a dead process is started again, time passes. A waiter polls every
2 s (`RECHECK`) for as long as it waits: strong fairness of that poll alone
(`Polls`), since the mutex it needs is busy for file calls only and is free again and
again. Nobody has to ask, nor to ask again: `take` answers Busy at the deadline
(`lock.rs` 156-173), a failed write ends the call, and what comes after is the caller's.

A disk does not fail for ever: writes into a lock file finally succeed.

**Fairness of RunJob.** Spawned tasks run (`start_job`, `finish`, the reading of
marks), an rpc is answered or times out, and the PTY reader reads what an ended
line leaves. A line need not end, a window need not type, and nobody need stop a
job. The properties of `RunQueue`, `Spawn` and `Undo` are safety alone.

**Fairness of Batch.** The run's task, each call and each land alone go on, the queued
check ends (a job has a timeout) and another Hive's land gives its lock back. Nobody
has to call.

**Fairness of Land.** Weak fairness of each task's next step (tokio polls what is
ready), of the queue ending a check (every job has a timeout), of its end being
heard, and of maiTerm being started again. People, the queen, Retry and the
workers owe nothing: `LandEnds` counts a land that is held or waits on the human as
ended, because there someone can act.

**Deadlock.** The `MCLand` configurations say `CHECK_DEADLOCK FALSE`: the system
really stops once every worker has landed or retired and the bounded counters are
used up. The `LandLock` runs check deadlock.
`MCRunJob` and `MCRunQueue` say it too: each job lives once, and the queue then idles;
so do `MCBatch`, `MCUndo` and `MCSpawn`, whose lands, undos and troubles are used up.

## 5. What is proved

`LandLock_proofs` holds for every set of processes, lands and pids, from
`LandLockAssumption` alone (each land runs in one process; `None` is none of them).

* `Typing`: `Spec => []TypeOK`. The second half of `TypeOK` is the mutex
  discipline: a land is between entry and return of `try_take`/`release` exactly
  while its process's mutex names it.
* `OneProcessSerialized`: with one process, `Spec => [](Serialized /\ HolderNamed)`,
  whatever crashes, restarts under a reused pid, slow or failing writes. The
  invariant is `OneInv`: the types, `Possession` (where each land stands, what
  must be on disk: whole and naming it while it holds, not whole while it writes,
  still its own when it is about to remove it) and `StaleIsFree` (a land that
  judged the file stale, or read nothing from it, does so while no land holds).
  `Serialized` alone is not inductive: a state with a land at `remove` and another
  at `held` satisfies it, and the next step breaks it. `StaleIsFree` excludes that
  state, and needs the mutex discipline to survive the steps of the other lands.
* `QuietProcessesSerialized`: with any number of processes, none of which dies or
  stalls, the same. `QuietInv` replaces `StaleIsFree` by `Owned` (the file at the
  path always belongs to a land of a running process that stands where its file
  says) and `NeverStale` (so no reader ever judges it stale).

The two theorems meet exactly at the counterexample of `MCLandLockRace`: more than
one process *and* a death is where the lock is not mutual exclusion.

`RunJob_proofs` needs only that `None` is not a value of the code's.

* `OneEnd`, `RealPass`, `StillHeard`: `Spec => []EndsOnce`, `[]PassIsReal`, `[]Heard`;
  `Heard` (a running job whose tab is armed has its PTY mapped) is proved only, as what
  `ExitCounts` rests on.
  None is inductive. `Inv` adds that a running job began (or a late refusal would
  end it again), that marks come only once the line left `runs` (or a done job's
  marks could still change), and that nothing has a shell or a PTY before its start.
* `Lives`: `Spec => LifeSpec`, the refinement: each step of `RunJob` is a step of
  `JobLife`'s or a stutter, because `EndsOnce` keeps late steps off an ended job.

`RunQueue_proofs` holds for any jobs, Hives, needs, shares, capacities and copies,
from `RunQueueAssumption`.

* `Types`, `Held`, `WithinCapacity`: `Spec => []TypeOK`, `[]Possession`, `[]Capacity`.
  The inductive invariant is their conjunction: a queued job holds nothing
  (`Possession`), so a start adds one holder to a pool that has room (`Capacity`), and
  what an end gives back is what its job needed. That `todo` holds queued jobs
  only (`TypeOK`) is why no job is started twice.
* `AlwaysTicking`: `Spec => []Ticking`, for any number of ticker tasks. `TickInv` adds to
  `Ticked` where the flag and the one task that ticks stand: the flag is down only
  while the old ticker is between its store and its swap, or none is up.
* `HeldInTime`, `HeldNext`: the two action properties of held actions, from `Waits`
  (what is held waits for a copy somebody leases). `HeldNext` is about what is still held:
  an action that was let go and is being done in a window no longer keeps a job away.

`RunJob_proofs` also has `JobTypes`, `LandLock_proofs` `OneProcessNamed`.

`Spawn_proofs` holds for any workers, dependencies, cap and limits.

* `Types`: `Spec => []TypeOK`. A count and a set of flags in one goal is beyond the
  provers, so it is proved in parts: `Core` (phases, tasks), `Sets`, `Words`,
  `Switches`, and the counts.
* `WithinCap`: `Spec => []CapHeld` when `Races` has neither `refused stop` nor
  `late launch` (`InSlot`), the two orders with either of which the code passes the cap
  (`MCSpawnCap`). So it says that these are all there are: whatever else expires,
  commits, is stopped, restarted or taken back, in any order, the cap holds. The
  invariant adds `Slots` (which task may have a reservation, and what its worker's record
  says then) and `Hour`: a launch between its write and its commit is counted once, by its
  record or by its reservation (`pending_for`).
* `StopKept`: `Spec => StopStands`, the refused stop included.
* `MemoryIsTold`: `Spec => []MemoryTold`. It is inductive with `Core`, as only a task's
  own `Begin` takes it from where it waits to start the watch (`OnlyBegin`).
* `NoneIsMissed`: `[]NoneMissed` when `Races` has no `resume in a poll` (`PollsAsNow`;
  section 6 has what that order breaks). `NoneMissed` compares what a waiter could do
  with what anybody is about to do, so by itself it says nothing of a poll in the
  middle of its work. `Heard` does: unless room came by itself (`silent`), whoever
  waits has a poll coming (`Polled`: one that still has them on its list, or that will
  run once more), somebody who will ask for one (`Called`), or no room (`Filled`). Room
  is counted in `Seats`: whoever is live, reserved, or held by a stop whose signal is
  out. `Board` (whose record says what, and what the rows of the board allow) and
  `Flags` (gate, watch and poll agree with the tasks that run them) say who will ask.
  A step that asks for a poll keeps `Heard` at once; so does one that leaves a poll
  with the waiter on its list. Only a *quiet* one is left, and a quiet step takes back no
  seat: what was full stays full. TLC checked `Heard`, `Board` and `Flags` at caps 1 to 3
  before they were proved, beyond the bounds of `MCSpawn`.

`Batch_proofs` holds for any workers, commits, sets that break the check and bounds,
from `BatchAssumption`.

* `BatchTypes`, `AlwaysInHand`, `LogAgrees`, `OnlyTheCulprit`: `Spec => []TypeOK`,
  `[]OneDriver`, `[]LogIsTrue`, `[]Innocent`, from one inductive invariant. Beside the
  types and `Innocent` it says what the run holds at each of its steps (`Stage`: the lock,
  its set, its chain, those outside it), what a verdict in hand is of (`Verdict`: a tested
  chain fails or passes as `Fails` says), that the sets still to land are apart from each
  other and from the one in hand (`Apart`), and of each worker how its record, Base and
  the log agree (`Book`), whether a call drives it alone (`Away`), and where in the run it
  is (`Within`). `OneDriver` by itself is not inductive: that nobody left in a state of
  the run's is forgotten needs `Within`, and that a halved set's members are still
  waiting needs `Apart`; `LogIsTrue` needs `Book`, as a land in Base is logged one step
  later; and a single member left is the culprit only by `Verdict` on its own chain.
* `QueueLands`: `Spec => Lands`, the refinement of `Landings`, step by step: a call asks;
  a refusal or a hold takes back what was asked; `Advance` moves the target by all of a
  chain at once and `SoloLands` by one; the retirements make what was moved done; a
  restart holds whatever was under way; people's commits are the abstract ones; every
  other step stutters.

`Undo_proofs` holds for any lands, undos, changes, config files and breaking changes, any
number of attempts and mishaps, from `UndoAssumption`.

* `AlwaysInv`: `Spec => []Inv`, whatever the order of steps. `Inv` says of each undo what
  its file, its call's copy of it, its check, its card and the lock may be at each pc of the
  call (`FileOf`, `CopyOf`, `CallOf`, `LockOf`, `JobOf`, `CardOf`), and of its commit, its
  line and its worker's mark how far they are (`LandedOf`). `Sound` is what makes a copy
  worth acting on: the revert is the inverse of its land on the tree of its tip, a `checked`
  one passes, and every approval in it is one the human gave. That survives all that
  happens around it because the target and the log only grow (`Grows`, `SoundKept`), so each
  step is proved for its own undo and the others are left (`Becomes`, `Left`).
* `TakenBackOnce`: `[]OnceUndone`. By itself it is not inductive: that no second undo of
  a land begins after the first is done needs that a done one has its line (`LandedOf`),
  that a line names what its undo undoes (`LineOf`), and, for one caught between its commit
  and its line, that its file is still open until a restart finds the commit (`Alone`).
* `WhatWasSeen`, `TakenBackClean`: `RevertSeen` and `RevertClean`, from what `Inv` says of
  the copy at the compare-and-swap: its tip is the target's, so the config change on which
  the human agreed, and the tree that was checked, are those of the step.
* `AtRest`: `[]Settled` when `Races` has neither `early end` nor `quick human`, the two
  orders of steps that break it in the code (section 6). It adds `Usual`: a check or a
  card that an undo is saved as waiting for is still there.
* `CulpritIsNamed`: `[]CulpritNamed` when `Races` has no `late verdict` (section 6).
  `LandLog` folds the log: a failed check of the target alone makes suspects of the
  lines since one that passed. What a fold computes for every log is
  induction over data, which the library's induction theorems take as an operator
  that no prover here can instantiate. It is done by hand: the set of positions at
  which a suspect is lost has a least one, if it is not empty (`Upwards`), and at that
  one the fold made a step. `Ordered` is what the model adds: as far as a pass absolves,
  the order of lines is that of commits, so no line that passed after the culprit's
  is of a commit before it.
* `UndoTypes`: `[]TypeOK`.

`Inv`, `Usual` and `Ordered` were checked by TLC on `MCUndo`'s constants before they were proved.

`Land_proofs` holds for any workers, repositories, orders, checks and config files, for
every choice of `Races` and any bounds, from `LandAssumption` and `NoneAssumption`.

* `LandInv`: `Spec => []Inv`. A copy of a land, on disk or in a task's hands, is measured
  against `World`: Base, what was named, what checks passed on, what the human agreed to,
  and the checks queued. All of it only grows (`Grows`), so what a copy says stays true
  however long the task that carries it sleeps (`Onward`), and a step is proved for the one
  copy it changes. `Entry` is what a copy may say of a repository: its tested commit is
  Base as step 1 found it with the commit named (`Merged`), its commit is the worker's own
  and otherwise only what Base has (`Tip`), and its status claims no more than happened
  (`Claims`: a tested, advancing or held one passed its check, a landed one is in Base, a
  checking one has queued a check of this very commit). `TaskOf` says, by pc, which copies
  a task may hold: what it saves, sweeps or finishes.
* `LandsWhatWasReviewed`: `[]LandedIsReviewed`. It is inductive only with `Own`: a worker's
  commits on a branch are its first `n`, for some `n`. So where a later land merges a Base
  that has an earlier one of the same worker, the union is the larger of the two, and no
  mixture of reviewed commits.
* `ChecksPassFirst`, `ConfigIsApproved`: `ChecksPass` and `ConfigApproved`, since only the
  compare-and-swap moves Base (`MovesIsCas`), from an advancing entry whose `base_before`
  Base still is (`MovedWhat`).
* `LandTypes`: `[]Types`, the part of `TypeOK` that is about values.
* `NamesLeft`: all of `[]TypeOK`, with finitely many workers and no end of card and check
  ids (`Endless`; in the code a card's is a UUID, `agent_requests.rs:458`, and a check's the
  first eight digits of one, `queue.rs:369`: billions, against the few there ever are). What
  is left of `TypeOK` is that a name is always free for the next card and the next check,
  and it holds because what mentions one is always finite (`Finitely`: the tasks at work,
  the checks queued or ended, the cards open), a restart's re-filed cards included.

TLC checked `Inv` on the constants of `MCLandTwo` and `MCLandEnds`, and on a part of
`MCLandCrash`'s states, before it was proved.

`LandRun_proofs` is about how the copies of one land stand to each other. It holds for any
workers, repositories and bounds while one run at a time acts on a land (`OneRun`):
`Races` has no `call while running`, and has `ends together` only where a worker has at
most one repository with a check. Both are orders the code has and nothing in it
excludes; with either a property fails (section 6), so each is a hypothesis named in
the theorem and not in the model.

* `Control`: one task of a worker's is at work at a time (`Alone`); what its record says
  landed its copy does, at the same pin (`Carries`); and the record's phase and state are
  those its pc allows (`States_of`), which is how a call or a card's answer knows that
  nobody else is at work (`Turn`). Steps fall into six classes: a task's own (`Runs`), one
  that wakes a task (`Starts`), one that wakes none (`Rests`), a withdrawal, `Crash` and
  `Restart`. Each class keeps the invariant once, and each action is proved to be in one.
* `NothingLandsTwice`: `Spec => LandedKept`, from `Control`, from `Ids`, by which a
  land's number is one worker's and not given again, and from `Logged` (below), by which
  who would refuse a land knows of its lines. `Spares` is what keeps a land from being
  given up: a task refuses only what landed nothing (`GivesUp`), a call starts another
  land only where the one there landed nothing or is over, and for that a land withdrawn
  while it waited on the human must be held if any of it landed (`Waived`).
* `EveryLandIsLogged`: `[]LandsLogged`. It holds only once nothing of the worker runs, so
  `Logged` says what is true meanwhile: who knows of each line (`TasksKnow`, `DisksKnow`)
  and, of each commit in Base, whether it is logged, is the one a task stands before
  logging, or is one the record has as tested and `Restart` will find (`WorkShown`).
* `WaitingLandHasCard`: `[]AwaitingHasCard` when `Races` has no `quick human` either.
  `Carded` adds that a card's name is one worker's (`Apart`), so no other land's answer or
  end removes it, and that the card is there from its filing on, before the record says
  so (`AskedHas`).
* `LandsSerialized`: `[]LockHeld` when a worker has at most one checked repository, or has
  two and both are checked (`FewChecks`). With a third, one check can outlive its land's
  locks (section 6), so this too is a hypothesis of the theorem and not of the model.
  `LockHeld` alone is not inductive: a step that frees the locks must know that no check
  of its land is left, and a check's end must know that its land still has them all.
  `Locks` says so, of each owner in turn: a task that runs has the locks of what its land
  still has to land and knows how far it is with each repository (`Steps`), and a check
  in the queue is one that its land's entry names (`InHands`); with no task at work, the
  record takes the task's place (`AtRests`); a lock is of a land in somebody's hands or
  of one whose check runs (`Owned`); a run about to lock has no check behind it (`NotYet`);
  a check is heard once (`JobsApart`); and what is down has neither (`Down`).

TLC checked `Control`, `Logged`, `Spares`, `Carded` and all of `Locks` but `Down` on all
states of `MCLandTwo`'s constants, and of `MCLandCrash`'s without `quick human`, with
crashes and trouble in them, before they were proved.

That `None` is no card's name and no land's number was added to `NoneAssumption` for these:
in the code an absent request, and a lock nobody holds, is an `Option` that is `None`,
which equals no id.

Only model-checked: liveness (`SomeoneGets`, `LandEnds`, `ExitCounts`, `QueuedEnds`), which
rests on `ENABLED` under fairness and is out of these provers' reach. Every invariant and
every action property of a passing run is also a theorem.

## 6. What disagrees with the code's own words

Each is a run of its own with one violated property; `PROJECT.json` quotes lines.

1. **A stale lock can be removed from under its new holder** (`MCLandLockRace`).
   Read, judge and remove are three calls. Two processes judge the same orphaned
   file; one removes it and creates its own; the other's remove deletes that.
2. **Step 2 may start although a check failed** (`MCLandAllPass`). A failed check
   marks its repository `pending` and refuses later; a passed one, heard in
   between on its own task, sees none still `checking` and moves its Base.
3. **The cap is passed by who writes without asking again** (`MCSpawnCap`), where
   `src/docs/hive.md:2073` says it can't be. Two orders do it, each by itself (with one of
   them alone in `Races` the run finds it violated after as many steps).
   *A launch whose slot expired.* It asks for a slot once, before its worktrees are made.
   Past `RESERVATION_TTL` the slot is given to the next launch, and the first still
   writes its worker launching (`tools.rs:1303`), as a restart does (`control.rs:266`).
   The commit refuses later, which takes a spawn back if maiTerm lives on and its agent
   has not started (`tools.rs:1059`), and a restart never.
   *A refused stop.* `hiveStopWorker` saves the worker stopped before it signals, which
   frees its slot; when the signal is refused it writes the old phase back
   (`control.rs` 136-147), though another worker may have the slot by then.

Eight more orders break a property; they have no run of their own, but constants or a
property of an existing configuration show each:

* **A check that ends early is never heard** (`MCLandEnds` with `Races = {"early end"}`:
  `LandEnds`). Its end is dropped because the record is not `checking` yet
  (`driver.rs:1125`); the land then waits for ever, with its locks. Undo's `on_check_end`
  has the same window (`undo.rs:962`; `MCUndo` likewise: `Settled`).
* **A resumed land is overwritten** (`MCLandCrash` with `{"call while running"}`:
  `LandedKept`). `hold` saves twice with a cleanup between; the record is resumable
  after the first.
* **A card answered at once strands its land** (`MCLandEnds` with `{"quick human"}`:
  `AwaitingHasCard`), or its undo (`MCUndo` likewise: `Settled`). The card is filed
  before the record says it waits, and the early answer is stale.
* **A land in Base without a line** (`MCLandAllPass` with `MaxCrashes = 1`: `LandsLogged`).
  With two checks, the refusal for the failed one clears the record while the other's task,
  heard a moment earlier, moves its Base; a crash before the log line leaves nothing
  from which `reconcile` could tell that the worker's commit landed.
* **A check outlives its land's locks** (`MCLandAllPass`'s constants with a third repository,
  `Of` all three, the last two checked, `Races = {}`, `Trouble = TRUE`, `MaxLands = 1`,
  `MaxHuman = 2`: `LockHeld`). A held land that landed the first is resumed with two to check
  again; the check of the second is queued, that of the third fails to start. `fail`
  (`driver.rs:717`) blames the first repository neither landed nor tested, the second,
  whose status becomes held (`driver.rs:775`), and `cleanup` interrupts only those still
  checking (`driver.rs:257`): the check runs on while the lock goes.
* **A job stopped while it is prepared leaves its row and ports** (`MCRunJob` with
  `RowsGone`). `start_job` prepares off the lock and books without looking again;
  `finish` has been there already, and nobody comes after.
* **A verdict on an old target counts as one on the new** (`MCUndo` with
  `{"late verdict"}`: `CulpritNamed`). The check of the target alone reads its tip when
  it starts and is logged when it ends; a land whose check passed meanwhile has cleared
  the lines it would name, so the repository is suspect and nothing is named.
* **A Hive resumed while a poll runs** (`MCSpawn` with `{"resume in a poll"}`:
  `NoneMissed`). The poll coalesced into the running one works with that one's Hive,
  which was paused, and launches nobody.

## 7. What is abstracted and what is not modelled

Abstracted in `Land`: commits are change sets, so a merge commit and its parents'
union are the same; conflicts are a choice wherever a merge is not a fast-forward;
the config rule's catch is the pair of what the config changes were and
become; worktrees, windows and pushes of the step 1 merge leave no state; a failing
git, window, retirement or request call is a choice under `Trouble`; nobody
rewinds Base; the land log and `worker.json` writes do not fail; `reconcile` is one
step; a crash frees the process's locks, which is what `LandLock` shows its dead
files amount to.

Not modelled in `Land`: integration mode (`land_pr`), the push and the post-land check
after a land (the latter is in `Undo`), Stop's withdrawal of a land (`control.rs`), workers
without repositories, and batching (on by default, `record.rs:287`), which is `Batch`'s.

Abstracted in `Batch`: which half of a set comes first, and who of a set merges first,
is open; the steps of a land alone; `hold`'s and `refuse`'s two writes as one; reads and
writes that fail and so skip a member (one that fails in `try_join` is not: the land then
lands alone beside the queue); a land alone that finds the lock taken waits for it; the
check of Base alone after a culprit; the
scan and the taking of the lock, polled in the code, as one wait; a member is
eligible when its repository is pending. Another Hive's lands and people are external.

Abstracted in `Undo`: one repository, so an undo is one revert and its line one per undo;
conflicts are a choice once the target moved past the land; two reads or writes with no
await between them that anyone could meet are one step (the tree read and the line
written, the cleanup and the save of a refusal, the cleanup and the filing of a card);
a done Hive is a choice; what a check of the target alone tests is read where it is
asked for, and a request while one runs is dropped, as in the code. The append to the
log and the last write of `finish` do not fail (both only warn in the code, and the
next startup settles the second). Two file calls that fail are left out, too: the read with
which `drive` begins (`undo.rs:404`), which leaves the undo `locking` with nobody at work
on it, and the save with which `refuse` or `hold` ends (`undo.rs` 577, 597), which only
warns and leaves the file as it was. Either way the file says that the undo runs until
the next startup holds it, and `Settled` is not claimed of it until then. The push, the read copy, the decisions and notices
that follow are left out.

Abstracted in `Spawn`: phases from working to landing are one, as the fuses count them
alike; a suspend is a pause; the day's limit, reviewers, other Hives' spawns, wait
reasons and who hears them, dropped tasks and undone lands as dependencies. A land of a
worker whose launch is still under way is excluded. Room that comes by itself (a launch
taken back, an expired slot, an hour gone by, a backoff over) asks for no poll in the
code, though `waiters.rs:340` says it "tries again in a few minutes"; the model records
it as `silent`, and `NoneMissed` is about all other room. A restart whose commit fails
leaves its spawn uncounted. A new worker's name is one that nobody still works on, as
ids are UUIDs (`tools.rs:794`). A relaunch's slot may count beside its worker while it
is under way.

Abstracted in `RunJob` and `RunQueue`: the order of `schedule` (jobs are offered in
any order, so what holds does for every priority and `move_job`); the smaller pools
under critical memory pressure, when nothing starts anyway; the pruning of ended
jobs, which keeps those a PTY still maps to; a suspend's park and release as one
step, since a parked job can only end in between; D codes other than 0 as one; a run
log write that fails, or that is skipped because the Hive was deleted; `emit` of freed
actions at the end of `finish`, which a window's arbitrary delay covers.

Not modelled at all: see the components list in `PROJECT.json`, with the reasons, and section 8.

## 8. What is left

In the order of what it would add; each module is written to be proved
about (parameters as constants with named assumptions, one action per operation).

1. `Landings` as the promise of `Land` too, with the log in it.
2. `Owed` (`owed.rs` 244-286), which needs the agents' sessions as a component.
3. Liveness of `RunQueue`, `Spawn` and `Undo`: at the bounds their safety needs, TLC's
   liveness check takes too long, so it would be for smaller instances.
4. Integration mode, the push, several repositories per undo.

The set of runs stays small: new modules get one passing run each; violation runs
are kept only for the disagreements that matter most.
