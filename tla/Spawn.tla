------------------------------- MODULE Spawn -------------------------------
(***************************************************************************)
(* How a Hive's workers start, and how few.  A launch (hive/tools.rs) takes *)
(* a slot from the fuses (hive/fuses.rs), makes worktrees, writes its       *)
(* record, has the window mount a tab and commits the slot, or takes all of *)
(* it back.  It begins as the coordinator's spawn, as its restart of a      *)
(* stopped worker (hive/control.rs), or in the poll over the workers that   *)
(* wait (hive/waiters.rs).                                                  *)
(*                                                                         *)
(* One Hive.  A task is an async call working on one worker; an await ends *)
(* a step of it.  Working, blocked, reported and landing workers count     *)
(* alike: "running" here.                                                  *)
(***************************************************************************)
EXTENDS Integers, FiniteSets

CONSTANTS Workers,    \* the workers its coordinator may spawn
          Deps,       \* worker -> the workers it depends on
          Cap,        \* the Hive's cap
          Limit,      \* PER_HOUR: spawns in an hour
          Races,      \* the orders of steps admitted beyond the usual ones
          MaxTrouble, \* bound: things that go wrong, and stops and restarts
          None

ASSUME SpawnAssumption ==
  /\ Cap \in Nat /\ Limit \in Nat /\ MaxTrouble \in Nat
  /\ IsFiniteSet(Workers) /\ None \notin Workers
  /\ Deps \in [Workers -> SUBSET Workers]
  /\ Races \subseteq {"refused stop", "late launch", "resume in a poll"}

Tasks == {"poll", "spawn", "restart"}

VARIABLES
  phase,              \* worker -> its record's phase; "none" without a record
  launched,           \* workers whose record has launched_at
  row, done,          \* workers with a task on the board; whose task is done
  task,               \* where each task stands, on which worker
  pending, spawns,    \* the fuses: tasks with a reservation; the hour's spawns
  breaker, SCHEDULED, \* the usage-limit breaker; a poll scheduled for its end
  active,             \* the Hive is active, not paused
  gate,               \* memory pressure: whether it lets workers start
  WATCH,              \* the memory watch: PRESSURE_WATCH, and what it saw
  REFUSED,            \* PRESSURE_REFUSED: the coordinator is to hear it eased
  wake,               \* a watch that ended has still to tell and poll
  asked,              \* a poll_soon that hasn't come to POLLING yet
  POLLING, reading,   \* no poll, one, or one asked to run again; it is to read
  list, seen,         \* the poll's: workers it has to try; the Hive it was called with
  BACKOFF,            \* workers no launch is tried of before a time
  stopping,           \* hiveStopWorker between its record and its signal
  silent,             \* room has come since the last poll read that nobody polls for
  trouble             \* what MaxTrouble counts

records == <<phase, launched, row, done>>
book == <<pending, spawns>>
limits == <<breaker, SCHEDULED, active, gate>>
watch == <<WATCH, REFUSED, wake>>
poll == <<POLLING, reading, list, seen>>
rest == <<BACKOFF, stopping, trouble>>
vars == <<records, task, book, limits, watch, asked, poll, rest, silent>>

Phases == {"none", "waiting", "launching", "running", "stopped", "failed", "retired"}
Places == {"off", "sample", "reserve", "mark", "watch", "file", "rewait",
           "made", "move", "window", "commit", "back", "drop", "put"}
TaskState == [pc : Places, w : Workers \cup {None}, was : Phases, shut : BOOLEAN, hive : BOOLEAN]
Idle == [pc |-> "off", w |-> None, was |-> "none", shut |-> FALSE, hive |-> TRUE]

TypeOK ==
  /\ phase \in [Workers -> Phases]
  /\ launched \subseteq Workers /\ row \subseteq Workers /\ done \subseteq Workers
  /\ task \in [Tasks -> TaskState]
  /\ \A t \in Tasks : task[t].pc = "off" <=> task[t].w = None
  /\ pending \subseteq Tasks /\ spawns \in 0 .. Limit
  /\ breaker \in BOOLEAN /\ SCHEDULED \in BOOLEAN /\ active \in BOOLEAN
  /\ gate \in {"open", "shut"} /\ WATCH \in {"off", "sampling", "open"}
  /\ REFUSED \in BOOLEAN /\ wake \in BOOLEAN /\ asked \in BOOLEAN
  /\ POLLING \in {"off", "on", "again"} /\ reading \in BOOLEAN
  /\ list \subseteq Workers /\ seen \in BOOLEAN
  /\ BACKOFF \subseteq Workers
  /\ stopping \in [w : Workers \cup {None}, was : Phases]
  /\ silent \in BOOLEAN /\ trouble \in 0 .. MaxTrouble

Init ==
  /\ phase = [w \in Workers |-> "none"]
  /\ launched = {} /\ row = {} /\ done = {}
  /\ task = [t \in Tasks |-> Idle]
  /\ pending = {} /\ spawns = 0
  /\ breaker = FALSE /\ SCHEDULED = FALSE /\ active = TRUE /\ gate = "open"
  /\ WATCH = "off" /\ REFUSED = FALSE /\ wake = FALSE
  /\ asked = FALSE /\ POLLING = "off" /\ reading = FALSE /\ list = {} /\ seen = TRUE
  /\ BACKOFF = {} /\ stopping = [w |-> None, was |-> "none"]
  /\ silent = FALSE /\ trouble = 0

----------------------------------------------------------------------------
(* The fuses. *)

\* Workers in LIVE_PHASES, by their records.
live == {w \in Workers : phase[w] \in {"launching", "running"}}

\* The workers a reservation counts: a restart's own slot is the one it takes.
Counted(t) == IF t = "restart" THEN live \ {task[t].w} ELSE live

\* Reservations whose worker isn't counted live already.
pending_for(l) == {t \in pending : task[t].w \notin l}

FullLate(l) == Cardinality(l) >= Cap          \* slip: reservations aren't counted
Full(l)     == Cardinality(l) + Cardinality(pending_for(l)) >= Cap
Spent == spawns + Cardinality(pending) >= Limit

\* What `reserve` answers, in the order it looks, for the Hive as its caller
\* was read: memory pressure last.
Answer(t) ==
  LET hive == task[t].hive IN
    CASE ~hive                 -> "paused"
      [] hive /\ breaker       -> "breaker"
      [] hive /\ ~breaker /\ Full(Counted(t)) -> "cap"
      [] hive /\ ~breaker /\ ~Full(Counted(t)) /\ Spent -> "fuse"
      [] OTHER                 -> IF task[t].shut THEN "throttled" ELSE "slot"

\* What goes wrong, counted.
Troubles == trouble < MaxTrouble /\ trouble' = trouble + 1

Goto(t, l) == task' = [task EXCEPT ![t].pc = l]
End(t)     == task' = [task EXCEPT ![t] = Idle]
Set(w, p)  == phase' = [phase EXCEPT ![w] = p]

\* Memory pressure is sampled before the book is locked.
Sample(t) ==
  /\ task[t].pc = "sample"
  /\ task' = [task EXCEPT ![t].pc = "reserve", ![t].shut = gate = "shut"]
  /\ UNCHANGED <<records, book, limits, watch, asked, poll, rest, silent>>

Reserve(t) ==
  /\ task[t].pc = "reserve" /\ Answer(t) = "slot"
  /\ pending' = pending \cup {t}
  /\ task' = [task EXCEPT ![t].pc = IF t = "restart" THEN "move" ELSE "made", ![t].shut = FALSE]
  /\ UNCHANGED <<records, spawns, limits, watch, asked, poll, rest, silent>>

\* Refused, a waiter keeps waiting, a new worker is taken back, and a restart
\* is told.
Refuse(t) ==
  /\ task[t].pc = "reserve" /\ Answer(t) \in {"paused", "breaker", "cap", "fuse"}
  /\ End(t)
  /\ IF t = "spawn" THEN Set(task[t].w, "none") ELSE UNCHANGED phase
  /\ UNCHANGED <<launched, row, done, book, limits, watch, asked, poll, rest, silent>>

\* For memory pressure alone: on the watch, a new worker once it is filed.
Throttled(t) ==
  /\ task[t].pc = "reserve" /\ Answer(t) = "throttled"
  /\ Goto(t, IF t = "spawn" THEN "file" ELSE "mark")
  /\ UNCHANGED <<records, book, limits, watch, asked, poll, rest, silent>>

\* Over RESERVATION_TTL: the slot is given back under its launch, at any step.
Expire(t) ==
  /\ t \in pending
  /\ pending' = pending \ {t} /\ silent' = TRUE /\ Troubles
  /\ UNCHANGED <<records, task, spawns, limits, watch, asked, poll, BACKOFF, stopping>>

InTimeAny(t) == TRUE                          \* slip: an expired reservation commits
InTime(t)    == t \in pending

\* The count is saved; expired, or not saved, the launch is taken back, but a
\* restarted worker already runs.
Commit(t) ==
  /\ task[t].pc = "commit" /\ InTime(t)
  /\ spawns' = spawns + 1 /\ pending' = pending \ {t}
  /\ End(t) /\ asked' = (asked \/ t = "restart")
  /\ silent' = (silent \/ task[t].w \notin live)
  /\ UNCHANGED <<records, limits, watch, poll, rest>>

CommitRefused(t) ==
  /\ task[t].pc = "commit"
  /\ IF InTime(t) THEN Troubles ELSE UNCHANGED trouble
  /\ pending' = pending \ {t}
  /\ IF t = "restart" THEN End(t) /\ asked' = TRUE /\ UNCHANGED silent
                      ELSE Goto(t, "back") /\ silent' = TRUE /\ UNCHANGED asked
  /\ UNCHANGED <<records, spawns, limits, watch, poll, BACKOFF, stopping>>

----------------------------------------------------------------------------
(* A launch (`launch_worker`) and its way back (`Undo::run`). *)

\* A record is written launching without asking again for the slot: one that
\* expired meanwhile may be another's by now (a "late launch").
Slotted(t) ==
  t \in pending \/ task[t].w \in live \/ ~Full(live) \/ "late launch" \in Races

\* The worktrees made, the record is written over a waiting one only: stopped
\* meanwhile, the coordinator's word stands.
Write(t) ==
  /\ t # "restart" /\ task[t].pc = "made"
  /\ IF phase[task[t].w] = "waiting"
       THEN /\ Slotted(t) /\ Set(task[t].w, "launching")
            /\ launched' = launched \cup {task[t].w} /\ row' = row \cup {task[t].w}
            /\ Goto(t, "window")
       ELSE Goto(t, "back") /\ UNCHANGED <<phase, launched, row>>
  /\ UNCHANGED <<done, book, limits, watch, asked, poll, rest, silent>>

MakeFails(t) ==
  /\ t # "restart" /\ task[t].pc = "made"
  /\ Goto(t, "back") /\ Troubles
  /\ UNCHANGED <<records, book, limits, watch, asked, poll, BACKOFF, stopping, silent>>

\* The window takes row and tab; its board is written, which asks for a poll.
WindowTakes(t) ==
  /\ task[t].pc = "window"
  /\ Goto(t, "commit") /\ asked' = TRUE
  /\ UNCHANGED <<records, book, limits, watch, poll, rest, silent>>

WindowRefuses(t) ==
  /\ task[t].pc = "window"
  /\ Goto(t, "back") /\ asked' = TRUE
  /\ IF t = "restart" THEN UNCHANGED trouble ELSE Troubles
  /\ UNCHANGED <<records, book, limits, watch, poll, BACKOFF, stopping, silent>>

OursAny(w) == TRUE                            \* slip: a stop meanwhile is overwritten
Ours(w)    == phase[w] \in {"waiting", "launching"}

\* A waiter's record goes back to waiting, a new worker's goes, row and all.
Back(t) ==
  /\ t # "restart" /\ task[t].pc = "back"
  /\ LET w == task[t].w IN
       IF t = "spawn"
         THEN /\ Set(w, "none") /\ launched' = launched \ {w}
              /\ row' = row \ {w}
         ELSE /\ IF Ours(w) THEN Set(w, "waiting") /\ launched' = launched \ {w}
                            ELSE UNCHANGED <<phase, launched>>
              /\ UNCHANGED row
  /\ Goto(t, "drop") /\ silent' = TRUE
  /\ UNCHANGED <<done, book, limits, watch, asked, poll, rest>>

\* Its slot is given back last; a waiter isn't tried again for a while.
Drop(t) ==
  /\ t # "restart" /\ task[t].pc = "drop"
  /\ pending' = pending \ {t} /\ End(t) /\ silent' = TRUE
  /\ BACKOFF' = IF t = "poll" THEN BACKOFF \cup {task[t].w} ELSE BACKOFF
  /\ UNCHANGED <<records, spawns, limits, watch, asked, poll, stopping, trouble>>

----------------------------------------------------------------------------
(* The coordinator's tools. *)

\* hiveSpawnWorker: registered as waiting under an id of its own, not on the
\* board yet; launched, or filed to wait for its dependencies.
SpawnWorker(w) ==
  /\ phase[w] = "none" /\ task["spawn"].pc = "off"
  /\ stopping.w # w /\ w \notin list /\ \A t \in Tasks : task[t].w # w
  /\ \A d \in Deps[w] : phase[d] # "none"
  /\ Set(w, "waiting")
  /\ task' = [task EXCEPT !["spawn"] =
                [Idle EXCEPT !.pc = IF Deps[w] \subseteq done THEN "sample" ELSE "file",
                             !.w = w, !.hive = active]]
  /\ UNCHANGED <<launched, row, done, book, limits, watch, asked, poll, rest, silent>>

\* `file_waiting`: its row to the board, which asks for a poll; then, if it was
\* memory pressure, the watch.
File ==
  /\ task["spawn"].pc = "file"
  /\ row' = row \cup {task["spawn"].w} /\ asked' = TRUE
  /\ IF task["spawn"].shut THEN Goto("spawn", "mark") ELSE End("spawn")
  /\ UNCHANGED <<phase, launched, done, book, limits, watch, poll, rest, silent>>

FileFails ==
  /\ task["spawn"].pc = "file"
  /\ Set(task["spawn"].w, "none") /\ End("spawn") /\ asked' = TRUE /\ Troubles
  /\ UNCHANGED <<launched, row, done, book, limits, watch, poll, BACKOFF, stopping, silent>>

\* hiveRestartWorker.
RestartWorker(w) ==
  /\ phase[w] \in {"failed", "stopped", "running"} /\ task["restart"].pc = "off" /\ Troubles
  /\ task' = [task EXCEPT !["restart"] =
                [Idle EXCEPT !.pc = IF w \in launched THEN "sample" ELSE "rewait",
                             !.w = w, !.was = phase[w], !.hive = active]]
  /\ UNCHANGED <<records, book, limits, watch, asked, poll, BACKOFF, stopping, silent>>

\* Never launched, it waits again (`rewait`).
Rewait ==
  /\ task["restart"].pc = "rewait" /\ End("restart")
  /\ LET w == task["restart"].w IN
       IF phase[w] = task["restart"].was /\ w \notin launched
         THEN Set(w, "waiting") /\ asked' = TRUE
         ELSE UNCHANGED <<phase, asked>>
  /\ UNCHANGED <<launched, row, done, book, limits, watch, poll, rest, silent>>

\* Its record moves to launching, if it is as it was read.
Move ==
  /\ task["restart"].pc = "move"
  /\ LET w == task["restart"].w IN
       IF phase[w] = task["restart"].was
         THEN /\ Slotted("restart") /\ Set(w, "launching") /\ Goto("restart", "window")
              /\ UNCHANGED <<pending, silent>>
         ELSE /\ End("restart") /\ pending' = pending \ {"restart"} /\ silent' = TRUE
              /\ UNCHANGED phase
  /\ UNCHANGED <<launched, row, done, spawns, limits, watch, asked, poll, rest>>

\* A refused relaunch gives its slot back, then its record (`put_back`): one
\* that ran, whose window didn't answer, goes back as failed.
DropRestart ==
  /\ task["restart"].pc = "back"
  /\ pending' = pending \ {"restart"} /\ Goto("restart", "put") /\ silent' = TRUE
  /\ UNCHANGED <<records, spawns, limits, watch, asked, poll, rest>>

PutBack ==
  /\ task["restart"].pc = "put" /\ End("restart")
  /\ IF phase[task["restart"].w] = "launching"
       THEN \E p \in {task["restart"].was} \cup (IF task["restart"].was = "running" THEN {"failed"} ELSE {}) :
              Set(task["restart"].w, p)
       ELSE UNCHANGED phase
  /\ silent' = TRUE
  /\ UNCHANGED <<launched, row, done, book, limits, watch, asked, poll, rest>>

\* hiveStopWorker: stopped on record before its agent is signalled.
StopWorker(w) ==
  /\ phase[w] \in {"waiting", "launching", "running", "failed"} /\ stopping.w = None
  /\ stopping' = [w |-> w, was |-> phase[w]]
  /\ Set(w, "stopped") /\ Troubles
  /\ UNCHANGED <<launched, row, done, task, book, limits, watch, asked, poll, BACKOFF, silent>>

Signalled ==
  /\ stopping.w # None
  /\ stopping' = [w |-> None, was |-> "none"] /\ asked' = TRUE
  /\ UNCHANGED <<records, task, book, limits, watch, poll, BACKOFF, silent, trouble>>

\* Something else holds its terminal: the record is put back as it was.
SignalRefused ==
  /\ stopping.w # None /\ stopping.was \in {"launching", "running"}
  /\ ~Full(live) \/ "refused stop" \in Races
  /\ stopping' = [w |-> None, was |-> "none"]
  /\ IF phase[stopping.w] = "stopped" THEN Set(stopping.w, stopping.was) ELSE UNCHANGED phase
  /\ UNCHANGED <<launched, row, done, task, book, limits, watch, asked, poll, BACKOFF, silent, trouble>>

----------------------------------------------------------------------------
(* The poll. *)

\* Every dependency's task is done, or its row gone, and none failed
\* (`standing`).
Ready(w) == \A d \in Deps[w] : d \in done \/ (d \notin row /\ phase[d] # "failed")

\* One poll at a time: asked for meanwhile, it goes once more.
Enter ==
  /\ asked /\ asked' = FALSE
  /\ IF POLLING = "off"
       THEN POLLING' = "on" /\ reading' = TRUE /\ seen' = active
       ELSE POLLING' = "again" /\ UNCHANGED <<reading, seen>>
  /\ UNCHANGED <<records, task, book, limits, watch, list, rest, silent>>

\* `poll_once` reads board and records.
Read ==
  /\ reading /\ reading' = FALSE
  /\ list' = {w \in row \ done : phase[w] = "waiting" /\ Ready(w)}
  /\ silent' = FALSE
  /\ UNCHANGED <<records, task, book, limits, watch, asked, POLLING, seen, rest>>

\* Each in turn: one not backed off launches.
Try(w) ==
  /\ POLLING # "off" /\ ~reading /\ task["poll"].pc = "off"
  /\ w \in list /\ list' = list \ {w}
  /\ IF w \in BACKOFF THEN UNCHANGED task
       ELSE task' = [task EXCEPT !["poll"] = [Idle EXCEPT !.pc = "sample", !.w = w, !.hive = seen]]
  /\ UNCHANGED <<records, book, limits, watch, asked, POLLING, reading, seen, rest, silent>>

AgainNever == FALSE                           \* slip: what was asked meanwhile is dropped
Again      == POLLING = "again"

\* "No more asked" is read and the poll taken off under one lock.
PollEnds ==
  /\ POLLING # "off" /\ ~reading /\ task["poll"].pc = "off" /\ list = {}
  /\ IF Again THEN POLLING' = "on" /\ reading' = TRUE /\ UNCHANGED seen
              ELSE POLLING' = "off" /\ reading' = FALSE /\ seen' = TRUE
  /\ UNCHANGED <<records, task, book, limits, watch, asked, list, rest, silent>>

----------------------------------------------------------------------------
(* The memory watch (`poll_when_memory_frees`). *)

Mark(t) ==
  /\ task[t].pc = "mark" /\ Goto(t, "watch")
  /\ REFUSED' = TRUE
  /\ UNCHANGED <<records, book, limits, WATCH, wake, asked, poll, rest, silent>>

Begin(t) ==
  /\ task[t].pc = "watch" /\ End(t)
  /\ WATCH' = IF WATCH = "off" THEN "sampling" ELSE WATCH
  /\ UNCHANGED <<records, book, limits, REFUSED, wake, asked, poll, rest, silent>>

TakenFirst(l) == IF l = "open" THEN FALSE ELSE REFUSED    \* slip: taken before the watch ends
Taken(l)      == IF l = "ended" THEN FALSE ELSE REFUSED

SeesOpen ==
  /\ WATCH = "sampling" /\ gate = "open"
  /\ WATCH' = "open" /\ REFUSED' = Taken("open")
  /\ UNCHANGED <<records, task, book, limits, wake, asked, poll, rest, silent>>

\* Ended before it polls: a refusal from now on starts a watch of its own.
WatchEnds ==
  /\ WATCH = "open" /\ WATCH' = "off" /\ wake' = TRUE
  /\ UNCHANGED <<records, task, book, limits, REFUSED, asked, poll, rest, silent>>

Wake ==
  /\ wake /\ wake' = FALSE
  /\ REFUSED' = Taken("ended") /\ asked' = TRUE
  /\ UNCHANGED <<records, task, book, limits, WATCH, poll, rest, silent>>

----------------------------------------------------------------------------
(* What happens to workers, Hive and machine. *)

\* Its session starts, the launch's slot committed or not.
AgentStarts(w) ==
  /\ phase[w] = "launching"
  /\ Set(w, "running")
  /\ UNCHANGED <<launched, row, done, task, book, limits, watch, asked, poll, rest, silent>>

\* A crash, or its terminal closed (`mark_failed`).
AgentFails(w) ==
  /\ phase[w] \in {"launching", "running"} /\ Set(w, "failed") /\ asked' = TRUE /\ Troubles
  /\ UNCHANGED <<launched, row, done, task, book, limits, watch, poll, BACKOFF, stopping, silent>>

\* Landed and retired, long after its launch: its task is done.
Lands(w) ==
  /\ phase[w] = "running" /\ \A t \in Tasks : task[t].w # w
  /\ Set(w, "retired")
  /\ done' = done \cup {w} /\ asked' = TRUE
  /\ UNCHANGED <<launched, row, task, book, limits, watch, poll, rest, silent>>

Pause ==
  /\ active /\ active' = FALSE /\ Troubles
  /\ UNCHANGED <<records, task, book, breaker, SCHEDULED, gate, watch, asked, poll, BACKOFF, stopping, silent>>

Resume ==
  /\ ~active /\ active' = TRUE /\ asked' = TRUE
  /\ POLLING = "off" \/ "resume in a poll" \in Races
  /\ UNCHANGED <<records, task, book, breaker, SCHEDULED, gate, watch, poll, rest, silent>>

\* A usage limit: `trip_breaker`, and a poll scheduled for its end.
Trip ==
  /\ ~breaker /\ breaker' = TRUE /\ SCHEDULED' = TRUE /\ Troubles
  /\ UNCHANGED <<records, task, book, active, gate, watch, asked, poll, BACKOFF, stopping, silent>>

BreakerEnds ==
  /\ breaker /\ breaker' = FALSE
  /\ UNCHANGED <<records, task, book, SCHEDULED, active, gate, watch, asked, poll, rest, silent>>

\* A second after the breaker's end (`poll_all_at`).
ScheduledPoll ==
  /\ SCHEDULED /\ ~breaker
  /\ SCHEDULED' = FALSE /\ asked' = TRUE
  /\ UNCHANGED <<records, task, book, breaker, active, gate, watch, poll, rest, silent>>

Pressure ==
  /\ gate = "open" /\ gate' = "shut" /\ Troubles
  /\ UNCHANGED <<records, task, book, breaker, SCHEDULED, active, watch, asked, poll, BACKOFF, stopping, silent>>

Eases ==
  /\ gate = "shut" /\ gate' = "open"
  /\ UNCHANGED <<records, task, book, breaker, SCHEDULED, active, watch, asked, poll, rest, silent>>

HourPasses ==
  /\ spawns > 0 /\ spawns' = spawns - 1 /\ silent' = TRUE
  /\ UNCHANGED <<records, task, pending, limits, watch, asked, poll, rest>>

BackoffEnds(w) ==
  /\ w \in BACKOFF /\ BACKOFF' = BACKOFF \ {w} /\ silent' = TRUE
  /\ UNCHANGED <<records, task, book, limits, watch, asked, poll, stopping, trouble>>

\* maiTerm stops and starts: what is in memory goes, the breaker's poll is
\* scheduled again, and the coordinator's session start asks for a poll.
Restart ==
  /\ Troubles
  /\ task' = [t \in Tasks |-> Idle] /\ pending' = {}
  /\ SCHEDULED' = breaker
  /\ WATCH' = "off" /\ REFUSED' = FALSE /\ wake' = FALSE
  /\ asked' = TRUE /\ POLLING' = "off" /\ reading' = FALSE /\ list' = {} /\ seen' = TRUE
  /\ BACKOFF' = {} /\ stopping' = [w |-> None, was |-> "none"] /\ silent' = FALSE
  /\ UNCHANGED <<records, spawns, breaker, active, gate>>

----------------------------------------------------------------------------

TaskSteps(t) ==
  \/ Sample(t) \/ Reserve(t) \/ Refuse(t) \/ Throttled(t) \/ Commit(t) \/ CommitRefused(t)
  \/ Write(t) \/ MakeFails(t) \/ WindowTakes(t) \/ WindowRefuses(t) \/ Back(t) \/ Drop(t)
  \/ Mark(t) \/ Begin(t)

Tools ==
  \/ File \/ FileFails \/ Rewait \/ Move \/ DropRestart \/ PutBack \/ Signalled \/ SignalRefused
  \/ \E w \in Workers : SpawnWorker(w) \/ RestartWorker(w) \/ StopWorker(w)

Polls == Enter \/ Read \/ PollEnds \/ \E w \in Workers : Try(w)

World ==
  \/ SeesOpen \/ WatchEnds \/ Wake
  \/ \E w \in Workers : AgentStarts(w) \/ AgentFails(w) \/ Lands(w) \/ BackoffEnds(w)
  \/ \E t \in Tasks : Expire(t)
  \/ Pause \/ Resume \/ Trip \/ BreakerEnds \/ ScheduledPoll \/ Pressure \/ Eases \/ HourPasses
  \/ Restart

Next == (\E t \in Tasks : TaskSteps(t)) \/ Tools \/ Polls \/ World

Spec == Init /\ [][Next]_vars

----------------------------------------------------------------------------
(* What is promised. *)

taken == live \cup {task[t].w : t \in pending}

\* The cap is never passed, counting workers by their records and slots by
\* their reservations, whatever expires, commits, is stopped or taken back in
\* between (fuses.rs:399-433), as long as neither a stop refused nor a launch
\* whose slot expired writes its worker live over a cap full by then; nor is
\* the hour's limit.
CapHeld ==
  /\ Cardinality(taken) <= Cap
  /\ spawns + Cardinality(pending) <= Limit

\* Stopped is the coordinator's word: no launch under way, nor one taken back,
\* writes over it; only its own restart does, or the stop itself, when its
\* signal is refused (tools.rs:1066, 1301).
StopStands ==
  [][\A w \in Workers : phase[w] = "stopped" /\ phase'[w] # "stopped" =>
       \/ task["restart"].w = w \/ stopping.w = w
       \/ task["spawn"].w = w /\ phase'[w] = "none"]_vars

\* What still stands between a waiter and its launch, but for memory pressure.
Room ==
  /\ active /\ ~breaker /\ ~Full(live) /\ ~Spent

Unheard(w) ==
  /\ phase[w] = "waiting" /\ w \in row /\ Ready(w) /\ w \notin BACKOFF
  /\ Room
  /\ ~asked /\ POLLING = "off" /\ WATCH = "off" /\ ~wake /\ ~SCHEDULED
  /\ task["spawn"].pc \notin {"mark", "watch"} /\ stopping.w = None
  /\ task["restart"].pc \notin {"move", "window", "commit", "back"}

\* "So no change is missed" (waiters.rs:12): a waiter that could launch has a
\* poll coming, a watch or a schedule that will ask for one.  Room that comes
\* by itself, as a launch is taken back, a slot expires, an hour or a backoff
\* passes, is nobody's change (`silent`); a relaunch under way, whose slot may
\* count beside its worker, asks for a poll as it ends.
NoneMissed == \A w \in Workers : Unheard(w) => silent

\* The coordinator told that memory pressure refused it hears when it eases:
\* whoever is to be told has a watch, or one that just ended, still to tell it
\* (waiters.rs:102).
MemoryTold ==
  REFUSED => WATCH # "off" \/ wake \/ \E t \in Tasks : task[t].pc = "watch"

=============================================================================
