---------------------------- MODULE Spawn_proofs ----------------------------
(***************************************************************************)
(* What Spawn promises for any workers, dependencies, caps and limits: its  *)
(* types, that the cap and the hour's limit are never passed while a        *)
(* refused stop and a launch that outlived its slot find one free, that no  *)
(* launch writes over a stop, that whoever waits for memory hears of it,    *)
(* and that no waiter is forgotten.                                         *)
(***************************************************************************)
EXTENDS Spawn, FiniteSetTheorems, TLAPS

\* The variables the cap is about.
Core ==
  /\ phase \in [Workers -> Phases]
  /\ task \in [Tasks -> TaskState]
  /\ stopping \in [w : Workers \cup {None}, was : Phases]
  /\ pending \subseteq Tasks

\* Who has a slot: a launch from its reservation to its end, unless it expired.
Slots ==
  \A t \in Tasks :
    /\ task[t].pc = "off" <=> task[t].w = None
    /\ t \in pending => task[t].pc \in {"made", "move", "window", "commit", "back", "drop"}
    /\ task[t].pc = "move" => t = "restart"
    /\ task[t].pc = "made" => t # "restart"
    /\ task[t].pc = "file" => t = "spawn"

(* How a task, a phase change.                                              *)
LEMMA IdleState == Idle \in TaskState
  BY DEF Idle, TaskState, Places, Phases

\* A reservation that stays is its worker's.
Kept == \A u \in pending \cap pending' : task'[u].w = task[u].w

\* A task goes on at l, its record and worker the same, or ends.
Moved(t, l) ==
  /\ task' \in [Tasks -> TaskState]
  /\ task'[t].pc = l /\ task'[t].w = task[t].w /\ task'[t].was = task[t].was
  /\ task'[t].hive = task[t].hive
  /\ \A u \in Tasks \ {t} : task'[u] = task[u]

Ended(t) ==
  /\ task' \in [Tasks -> TaskState]
  /\ task'[t].pc = "off" /\ task'[t].w = None /\ task'[t].hive
  /\ \A u \in Tasks \ {t} : task'[u] = task[u]

LEMMA GotoStep ==
  ASSUME task \in [Tasks -> TaskState], NEW t \in Tasks, NEW l \in Places, Goto(t, l)
  PROVE  Moved(t, l)
  <1> DEFINE r == [task[t] EXCEPT !.pc = l]
  <1>1. r \in TaskState /\ r.pc = l /\ r.w = task[t].w /\ r.was = task[t].was /\ r.hive = task[t].hive
    BY DEF TaskState
  <1>2. task' = [task EXCEPT ![t] = r]
    BY DEF Goto
  <1> QED
    BY <1>1, <1>2 DEF Moved

LEMMA EndStep ==
  ASSUME task \in [Tasks -> TaskState], NEW t \in Tasks, End(t)
  PROVE  Ended(t)
  <1>1. task'[t] = Idle /\ \A u \in Tasks \ {t} : task'[u] = task[u]
    BY DEF End
  <1> QED
    BY <1>1, IdleState DEF End, Idle, Ended

LEMMA BeginStep ==
  ASSUME task \in [Tasks -> TaskState], NEW t \in Tasks, NEW r \in TaskState,
         task' = [task EXCEPT ![t] = r]
  PROVE  /\ task' \in [Tasks -> TaskState] /\ task'[t] = r
         /\ \A u \in Tasks \ {t} : task'[u] = task[u]
  OBVIOUS

LEMMA SampleStep ==
  ASSUME task \in [Tasks -> TaskState], NEW t \in Tasks, NEW l \in Places, NEW b \in BOOLEAN,
         task' = [task EXCEPT ![t].pc = l, ![t].shut = b]
  PROVE  Moved(t, l)
  <1> DEFINE r == [task[t] EXCEPT !.pc = l, !.shut = b]
  <1>1. r \in TaskState /\ r.pc = l /\ r.w = task[t].w /\ r.was = task[t].was /\ r.hive = task[t].hive
    BY DEF TaskState
  <1>2. task' = [task EXCEPT ![t] = r]
    OBVIOUS
  <1> QED
    BY <1>1, <1>2 DEF Moved

LEMMA SetStep ==
  ASSUME phase \in [Workers -> Phases], NEW w \in Workers \cup {None}, NEW p \in Phases, Set(w, p)
  PROVE  /\ phase' \in [Workers -> Phases]
         /\ \A v \in Workers : phase'[v] = IF v = w THEN p ELSE phase[v]
  BY SpawnAssumption DEF Set

LEMMA CoreInit == Init => Core /\ Slots
  <1> SUFFICES ASSUME Init PROVE Core /\ Slots
    OBVIOUS
  <1>1. \A t \in Tasks : task[t] = Idle
    BY DEF Init
  <1>2. task \in [Tasks -> TaskState]
    BY IdleState DEF Init
  <1>3. Core
    BY <1>2 DEF Init, Core, Phases
  <1>4. Slots
    BY <1>1 DEF Init, Slots, Idle
  <1> QED
    BY <1>3, <1>4

\* The slots' part for a task that moves, with nothing else of it changed.
LEMMA SlotsMoved ==
  ASSUME Core, Slots, NEW t \in Tasks, NEW l \in Places, Moved(t, l),
         pending' \in {pending, pending \ {t}},
         task[t].pc # "off", l \notin {"off", "move", "made"},
         l = "file" => t = "spawn",
         t \in pending' => l \in {"window", "commit", "back", "drop"}
  PROVE  Slots' /\ Kept
  BY DEF Core, Slots, Moved, Kept

LEMMA SlotsEnded ==
  ASSUME Core, Slots, NEW t \in Tasks, Ended(t), pending' = pending \ {t}
  PROVE  Slots' /\ Kept
  BY DEF Core, Slots, Ended, Kept

LEMMA SlotsBegun ==
  ASSUME Core, Slots, NEW t \in Tasks, NEW w \in Workers, NEW l \in {"sample", "file", "rewait"},
         task[t].pc = "off", task'[t].pc = l, task'[t].w = w, l = "file" => t = "spawn",
         \A u \in Tasks \ {t} : task'[u] = task[u], UNCHANGED pending
  PROVE  Slots' /\ Kept
  <1> SUFFICES ASSUME NEW u \in Tasks
               PROVE  /\ u \in pending \cap pending' => task'[u].w = task[u].w
                      /\ task'[u].pc = "off" <=> task'[u].w = None
                      /\ u \in pending' => task'[u].pc \in {"made", "move", "window", "commit", "back", "drop"}
                      /\ task'[u].pc = "move" => u = "restart"
                      /\ task'[u].pc = "made" => u # "restart"
                      /\ task'[u].pc = "file" => u = "spawn"
    BY DEF Core, Slots, Kept
  <1>1. CASE u = t
    <2>1. w # None
      BY SpawnAssumption
    <2>2. t \notin pending
      BY DEF Slots
    <2> QED
      BY <1>1, <2>1, <2>2
  <1>2. CASE u # t
    BY <1>2 DEF Slots
  <1> QED
    BY <1>1, <1>2

LEMMA TaskStepsCore ==
  ASSUME Core, Slots, NEW t \in Tasks, TaskSteps(t)
  PROVE  Core' /\ Slots' /\ Kept
  <1>0. /\ task \in [Tasks -> TaskState] /\ phase \in [Workers -> Phases]
        /\ task[t].w \in Workers \cup {None}
    BY DEF Core, TaskState
  <1>1. CASE Sample(t)
    <2>1. Moved(t, "reserve")
      BY <1>0, <1>1, SampleStep DEF Sample, Places
    <2>2. Core'
      BY <1>1, <2>1 DEF Sample, Core, Moved, records, book, rest
    <2>3. Slots' /\ Kept
      BY <1>1, <2>1, SlotsMoved DEF Sample, book, Slots, Places
    <2> QED
      BY <2>2, <2>3
  <1>2. CASE Reserve(t)
    <2> DEFINE l == IF t = "restart" THEN "move" ELSE "made"
    <2>1. Moved(t, l)
      BY <1>0, <1>2, SampleStep DEF Reserve, Places
    <2>2. task[t].pc = "reserve" /\ pending' = pending \cup {t}
      BY <1>2 DEF Reserve
    <2>3. Core'
      BY <1>2, <2>1, <2>2 DEF Reserve, Core, Moved, records, rest
    <2>4. Slots' /\ Kept
      BY <2>1, <2>2 DEF Core, Slots, Moved, Kept
    <2> QED
      BY <2>3, <2>4
  <1>3. CASE Refuse(t)
    <2>1. Ended(t)
      BY <1>0, <1>3, EndStep DEF Refuse
    <2>2. phase' \in [Workers -> Phases]
      BY <1>0, <1>3, SetStep DEF Refuse, Phases
    <2>3. Core'
      BY <1>3, <2>1, <2>2 DEF Refuse, Core, Ended, book, rest
    <2>4. Slots' /\ Kept
      BY <1>3, <2>1, SlotsEnded DEF Refuse, book, Slots
    <2> QED
      BY <2>3, <2>4
  <1>4. CASE Throttled(t)
    <2> DEFINE l == IF t = "spawn" THEN "file" ELSE "mark"
    <2>1. Moved(t, l)
      BY <1>0, <1>4, GotoStep DEF Throttled, Places
    <2>2. Core'
      BY <1>4, <2>1 DEF Throttled, Core, Moved, records, book, rest
    <2>3. Slots' /\ Kept
      BY <1>4, <2>1, SlotsMoved DEF Throttled, book, Slots, Places
    <2> QED
      BY <2>2, <2>3
  <1>5. CASE Commit(t)
    <2>1. Ended(t)
      BY <1>0, <1>5, EndStep DEF Commit
    <2>2. Core'
      BY <1>5, <2>1 DEF Commit, Core, Ended, records, rest
    <2>3. Slots' /\ Kept
      BY <1>5, <2>1, SlotsEnded DEF Commit
    <2> QED
      BY <2>2, <2>3
  <1>6. CASE CommitRefused(t)
    <2>1. UNCHANGED <<phase, stopping>> /\ pending' = pending \ {t}
      BY <1>6 DEF CommitRefused, records
    <2>2. CASE t = "restart"
      <3>1. Ended(t)
        BY <1>0, <1>6, <2>2, EndStep DEF CommitRefused
      <3> QED
        BY <2>1, <3>1, SlotsEnded DEF Core, Ended
    <2>3. CASE t # "restart"
      <3>1. Moved(t, "back")
        BY <1>0, <1>6, <2>3, GotoStep DEF CommitRefused, Places
      <3>2. Slots' /\ Kept
        BY <1>6, <2>1, <3>1, SlotsMoved DEF CommitRefused, Places
      <3> QED
        BY <2>1, <3>1, <3>2 DEF Core, Moved
    <2> QED
      BY <2>2, <2>3
  <1>7. CASE Write(t)
    <2>1. UNCHANGED <<pending, stopping>> /\ task[t].pc = "made"
      BY <1>7 DEF Write, book, rest
    <2>2. phase' \in [Workers -> Phases]
      BY <1>0, <1>7, SetStep DEF Write, Phases
    <2>3. PICK l \in {"window", "back"} : Moved(t, l)
      BY <1>0, <1>7, GotoStep DEF Write, Places
    <2>4. Slots' /\ Kept
      BY <2>1, <2>3, SlotsMoved DEF Places
    <2> QED
      BY <2>1, <2>2, <2>3, <2>4 DEF Core, Moved
  <1>8. CASE MakeFails(t) \/ WindowTakes(t) \/ WindowRefuses(t)
    <2>1. UNCHANGED <<phase, pending, stopping>> /\ task[t].pc \in {"made", "window"}
      BY <1>8 DEF MakeFails, WindowTakes, WindowRefuses, records, book, rest
    <2>2. PICK l \in {"commit", "back"} : Moved(t, l)
      BY <1>0, <1>8, GotoStep DEF MakeFails, WindowTakes, WindowRefuses, Places
    <2>3. Slots' /\ Kept
      BY <2>1, <2>2, SlotsMoved DEF Places
    <2> QED
      BY <2>1, <2>2, <2>3 DEF Core, Moved
  <1>9. CASE Back(t)
    <2>1. UNCHANGED <<pending, stopping>> /\ task[t].pc = "back"
      BY <1>9 DEF Back, book, rest
    <2>2. phase' \in [Workers -> Phases]
      BY <1>0, <1>9, SetStep DEF Back, Phases
    <2>3. Moved(t, "drop")
      BY <1>0, <1>9, GotoStep DEF Back, Places
    <2>4. Slots' /\ Kept
      BY <2>1, <2>3, SlotsMoved DEF Places
    <2> QED
      BY <2>1, <2>2, <2>3, <2>4 DEF Core, Moved
  <1>10. CASE Drop(t)
    <2>1. Ended(t)
      BY <1>0, <1>10, EndStep DEF Drop
    <2>2. Core'
      BY <1>10, <2>1 DEF Drop, Core, Ended, records
    <2>3. Slots' /\ Kept
      BY <1>10, <2>1, SlotsEnded DEF Drop
    <2> QED
      BY <2>2, <2>3
  <1>11. CASE Mark(t)
    <2>1. Moved(t, "watch")
      BY <1>0, <1>11, GotoStep DEF Mark, Places
    <2>2. Core'
      BY <1>11, <2>1 DEF Mark, Core, Moved, records, book, rest
    <2>3. Slots' /\ Kept
      BY <1>11, <2>1, SlotsMoved DEF Mark, book, Slots, Places
    <2> QED
      BY <2>2, <2>3
  <1>12. CASE Begin(t)
    <2>1. Ended(t)
      BY <1>0, <1>12, EndStep DEF Begin
    <2>2. Core'
      BY <1>12, <2>1 DEF Begin, Core, Ended, records, book, rest
    <2>3. Slots' /\ Kept
      BY <1>12, <2>1, SlotsEnded DEF Begin, book, Slots
    <2> QED
      BY <2>2, <2>3
  <1> QED
    BY <1>1, <1>2, <1>3, <1>4, <1>5, <1>6, <1>7, <1>8, <1>9, <1>10, <1>11, <1>12 DEF TaskSteps

\* A task's Hive is read from `active`, or from the poll's `seen`.
Switches ==
  /\ breaker \in BOOLEAN /\ SCHEDULED \in BOOLEAN /\ active \in BOOLEAN
  /\ REFUSED \in BOOLEAN /\ wake \in BOOLEAN /\ asked \in BOOLEAN
  /\ reading \in BOOLEAN /\ seen \in BOOLEAN /\ silent \in BOOLEAN

LEMMA SwitchesInit == Init => Switches
  BY DEF Init, Switches

LEMMA SwitchesStep ==
  ASSUME Switches, [Next]_vars
  PROVE  Switches'
  <1>1. ASSUME NEW t \in Tasks, TaskSteps(t)
        PROVE  Switches'
    <2>1. CASE Sample(t) \/ Reserve(t) \/ Refuse(t) \/ Throttled(t)
      BY <2>1 DEF Sample, Reserve, Refuse, Throttled, Switches, records, book, limits, watch, poll, rest
    <2>2. CASE Commit(t) \/ CommitRefused(t)
      BY <2>2 DEF Commit, CommitRefused, Switches, records, book, limits, watch, poll, rest
    <2>3. CASE Write(t)
      BY <2>3 DEF Write, Switches, records, book, limits, watch, poll, rest
    <2>4. CASE MakeFails(t) \/ WindowTakes(t) \/ WindowRefuses(t)
      BY <2>4 DEF MakeFails, WindowTakes, WindowRefuses, Switches, records, book, limits, watch, poll, rest
    <2>5. CASE Back(t) \/ Drop(t)
      BY <2>5 DEF Back, Drop, Switches, records, book, limits, watch, poll, rest
    <2>6. CASE Mark(t) \/ Begin(t)
      BY <2>6 DEF Mark, Begin, Switches, records, book, limits, watch, poll, rest
    <2> QED
      BY <1>1, <2>1, <2>2, <2>3, <2>4, <2>5, <2>6 DEF TaskSteps
  <1>2. ASSUME Tools
        PROVE  Switches'
    <2>1. CASE File \/ FileFails \/ Rewait
      BY <2>1 DEF File, FileFails, Rewait, Switches, records, book, limits, watch, poll, rest
    <2>2. CASE Move \/ DropRestart \/ PutBack
      BY <2>2 DEF Move, DropRestart, PutBack, Switches, records, book, limits, watch, poll, rest
    <2>3. CASE Signalled \/ SignalRefused
      BY <2>3 DEF Signalled, SignalRefused, Switches, records, book, limits, watch, poll, rest
    <2>4. CASE \E w \in Workers : SpawnWorker(w) \/ RestartWorker(w) \/ StopWorker(w)
      BY <2>4 DEF SpawnWorker, RestartWorker, StopWorker, Switches, records, book, limits, watch, poll, rest
    <2> QED
      BY <1>2, <2>1, <2>2, <2>3, <2>4 DEF Tools
  <1>3. CASE \E w \in Workers : Try(w) \/ AgentStarts(w) \/ AgentFails(w) \/ Lands(w) \/ BackoffEnds(w)
    BY <1>3 DEF Try, AgentStarts, AgentFails, Lands, BackoffEnds, Switches, records, book, limits, watch, poll, rest
  <1>4. CASE Enter \/ Read \/ PollEnds
    BY <1>4 DEF Enter, Read, PollEnds, Again, Switches, records, book, limits, watch, poll, rest
  <1>5. CASE SeesOpen \/ WatchEnds \/ Wake
    BY <1>5 DEF SeesOpen, WatchEnds, Wake, Taken, Switches, records, book, limits, watch, poll, rest
  <1>6. CASE Pause \/ Resume \/ Trip \/ BreakerEnds
    BY <1>6 DEF Pause, Resume, Trip, BreakerEnds, Switches, records, book, limits, watch, poll, rest
  <1>7. CASE ScheduledPoll \/ Pressure \/ Eases \/ HourPasses
    BY <1>7 DEF ScheduledPoll, Pressure, Eases, HourPasses, Switches, records, book, limits, watch, poll, rest
  <1>8. CASE Restart \/ \E t \in Tasks : Expire(t)
    BY <1>8 DEF Restart, Expire, Switches, records, book, limits, watch, poll, rest
  <1>9. CASE UNCHANGED vars
    BY <1>9 DEF vars, Switches, records, book, limits, watch, poll, rest
  <1> QED
    BY <1>1, <1>2, <1>3, <1>4, <1>5, <1>6, <1>7, <1>8, <1>9 DEF Next, Polls, World

LEMMA ToolsCore ==
  ASSUME Core, Slots, Switches, Tools
  PROVE  Core' /\ Slots' /\ Kept
  <1>0. /\ task \in [Tasks -> TaskState] /\ phase \in [Workers -> Phases]
        /\ "spawn" \in Tasks /\ "restart" \in Tasks
        /\ \A t \in Tasks : task[t].w \in Workers \cup {None} /\ task[t].was \in Phases
        /\ stopping.w \in Workers \cup {None} /\ stopping.was \in Phases
    BY DEF Core, TaskState, Tasks
  <1>1. CASE File
    <2>1. UNCHANGED <<phase, pending, stopping>> /\ task["spawn"].pc = "file"
      BY <1>1 DEF File, book, rest
    <2>2. CASE task["spawn"].shut
      <3>1. Moved("spawn", "mark")
        BY <1>0, <1>1, <2>2, GotoStep DEF File, Places
      <3>2. Slots' /\ Kept
        BY <1>0, <2>1, <3>1, SlotsMoved DEF Slots, Places
      <3> QED
        BY <2>1, <3>1, <3>2 DEF Core, Moved
    <2>3. CASE ~task["spawn"].shut
      <3>1. Ended("spawn")
        BY <1>0, <1>1, <2>3, EndStep DEF File
      <3>2. Slots' /\ Kept
        BY <1>0, <2>1, <3>1, SlotsEnded DEF Slots
      <3> QED
        BY <2>1, <3>1, <3>2 DEF Core, Ended
    <2> QED
      BY <2>2, <2>3
  <1>2. CASE FileFails
    <2>1. UNCHANGED <<pending, stopping>> /\ task["spawn"].pc = "file"
      BY <1>2 DEF FileFails, book
    <2>2. phase' \in [Workers -> Phases]
      BY <1>0, <1>2, SetStep DEF FileFails, Phases
    <2>3. Ended("spawn")
      BY <1>0, <1>2, EndStep DEF FileFails
    <2>4. Slots' /\ Kept
      BY <1>0, <2>1, <2>3, SlotsEnded DEF Slots
    <2> QED
      BY <2>1, <2>2, <2>3, <2>4 DEF Core, Ended
  <1>3. CASE Rewait
    <2>1. UNCHANGED <<pending, stopping>> /\ task["restart"].pc = "rewait"
      BY <1>3 DEF Rewait, book, rest
    <2>2. phase' \in [Workers -> Phases]
      BY <1>0, <1>3, SetStep DEF Rewait, Phases
    <2>3. Ended("restart")
      BY <1>0, <1>3, EndStep DEF Rewait
    <2>4. Slots' /\ Kept
      BY <1>0, <2>1, <2>3, SlotsEnded DEF Slots
    <2> QED
      BY <2>1, <2>2, <2>3, <2>4 DEF Core, Ended
  <1>4. CASE Move
    <2>1. UNCHANGED stopping /\ task["restart"].pc = "move"
      BY <1>4 DEF Move, rest
    <2>2. phase' \in [Workers -> Phases]
      BY <1>0, <1>4, SetStep DEF Move, Phases
    <2>3. CASE phase[task["restart"].w] = task["restart"].was
      <3>1. Moved("restart", "window") /\ UNCHANGED pending
        BY <1>0, <1>4, <2>3, GotoStep DEF Move, Places
      <3>2. Slots' /\ Kept
        BY <1>0, <2>1, <3>1, SlotsMoved DEF Places
      <3> QED
        BY <2>1, <2>2, <3>1, <3>2 DEF Core, Moved
    <2>4. CASE phase[task["restart"].w] # task["restart"].was
      <3>1. Ended("restart") /\ pending' = pending \ {"restart"}
        BY <1>0, <1>4, <2>4, EndStep DEF Move
      <3>2. Slots' /\ Kept
        BY <1>0, <2>1, <3>1, SlotsEnded
      <3> QED
        BY <2>1, <2>2, <3>1, <3>2 DEF Core, Ended
    <2> QED
      BY <2>3, <2>4
  <1>5. CASE DropRestart
    <2>1. UNCHANGED <<phase, stopping>> /\ pending' = pending \ {"restart"}
          /\ task["restart"].pc = "back"
      BY <1>5 DEF DropRestart, records, rest
    <2>2. Moved("restart", "put")
      BY <1>0, <1>5, GotoStep DEF DropRestart, Places
    <2>3. Slots' /\ Kept
      BY <1>0, <2>1, <2>2, SlotsMoved DEF Places
    <2> QED
      BY <2>1, <2>2, <2>3 DEF Core, Moved
  <1>6. CASE PutBack
    <2>1. UNCHANGED <<pending, stopping>> /\ task["restart"].pc = "put"
      BY <1>6 DEF PutBack, book, rest
    <2>2. phase' \in [Workers -> Phases]
      BY <1>0, <1>6, SetStep DEF PutBack, Phases
    <2>3. Ended("restart")
      BY <1>0, <1>6, EndStep DEF PutBack
    <2>4. Slots' /\ Kept
      BY <1>0, <2>1, <2>3, SlotsEnded DEF Slots
    <2> QED
      BY <2>1, <2>2, <2>3, <2>4 DEF Core, Ended
  <1>7. CASE Signalled \/ SignalRefused
    <2>1. UNCHANGED <<task, pending>> /\ stopping' = [w |-> None, was |-> "none"]
      BY <1>7 DEF Signalled, SignalRefused, records, book
    <2>2. phase' \in [Workers -> Phases]
      BY <1>0, <1>7, SetStep DEF Signalled, SignalRefused, records
    <2> QED
      BY <2>1, <2>2 DEF Core, Slots, Phases, Kept
  <1>8. ASSUME NEW w \in Workers, SpawnWorker(w)
        PROVE  Core' /\ Slots' /\ Kept
    <2> DEFINE l == IF Deps[w] \subseteq done THEN "sample" ELSE "file"
    <2>1. UNCHANGED <<pending, stopping>> /\ task["spawn"].pc = "off"
      BY <1>8 DEF SpawnWorker, book, rest
    <2>2. phase' \in [Workers -> Phases]
      BY <1>0, <1>8, SetStep DEF SpawnWorker, Phases
    <2>3. /\ task' \in [Tasks -> TaskState]
          /\ task'["spawn"].pc = l /\ task'["spawn"].w = w
          /\ \A u \in Tasks \ {"spawn"} : task'[u] = task[u]
      <3> DEFINE r == [Idle EXCEPT !.pc = l, !.w = w, !.hive = active]
      <3>1. l \in Places
        BY DEF Places
      <3>2. r \in TaskState /\ r.pc = l /\ r.w = w
        BY <3>1, IdleState DEF TaskState, Switches
      <3>3. task' = [task EXCEPT !["spawn"] = r]
        BY <1>8 DEF SpawnWorker
      <3> HIDE DEF r
      <3> QED
        BY <1>0, <3>2, <3>3, BeginStep
    <2>4. Slots' /\ Kept
      BY <1>0, <2>1, <2>3, SlotsBegun
    <2> QED
      BY <2>1, <2>2, <2>3, <2>4 DEF Core
  <1>9. ASSUME NEW w \in Workers, RestartWorker(w)
        PROVE  Core' /\ Slots' /\ Kept
    <2> DEFINE l == IF w \in launched THEN "sample" ELSE "rewait"
    <2>1. UNCHANGED <<phase, pending, stopping>> /\ task["restart"].pc = "off"
      BY <1>9 DEF RestartWorker, records, book
    <2>2. /\ task' \in [Tasks -> TaskState]
          /\ task'["restart"].pc = l /\ task'["restart"].w = w
          /\ \A u \in Tasks \ {"restart"} : task'[u] = task[u]
      <3> DEFINE r == [Idle EXCEPT !.pc = l, !.w = w, !.was = phase[w], !.hive = active]
      <3>1. l \in Places
        BY DEF Places
      <3>2. r \in TaskState /\ r.pc = l /\ r.w = w
        BY <1>0, <3>1, IdleState DEF TaskState, Switches
      <3>3. task' = [task EXCEPT !["restart"] = r]
        BY <1>9 DEF RestartWorker
      <3> HIDE DEF r
      <3> QED
        BY <1>0, <3>2, <3>3, BeginStep
    <2>3. Slots' /\ Kept
      BY <1>0, <2>1, <2>2, SlotsBegun
    <2> QED
      BY <2>1, <2>2, <2>3 DEF Core
  <1>10. ASSUME NEW w \in Workers, StopWorker(w)
         PROVE  Core' /\ Slots' /\ Kept
    <2>1. UNCHANGED <<task, pending>> /\ stopping' = [w |-> w, was |-> phase[w]]
      BY <1>10 DEF StopWorker, book
    <2>2. phase' \in [Workers -> Phases]
      BY <1>0, <1>10, SetStep DEF StopWorker, Phases
    <2> QED
      BY <1>0, <2>1, <2>2 DEF Core, Slots, Kept
  <1> QED
    BY <1>1, <1>2, <1>3, <1>4, <1>5, <1>6, <1>7, <1>8, <1>9, <1>10 DEF Tools

\* Steps that leave all of this as it is.
Elsewhere == UNCHANGED <<phase, task, stopping, pending>>

LEMMA WatchStill ==
  ASSUME SeesOpen \/ WatchEnds \/ Wake \/ Enter \/ Read \/ PollEnds
  PROVE  Elsewhere
  BY DEF Elsewhere, Enter, Read, PollEnds, SeesOpen, WatchEnds, Wake, records, book, rest

LEMMA LimitsStill ==
  ASSUME \/ Pause \/ Resume \/ Trip \/ BreakerEnds \/ ScheduledPoll \/ Pressure \/ Eases
         \/ HourPasses \/ (\E w \in Workers : BackoffEnds(w)) \/ UNCHANGED vars
  PROVE  Elsewhere
  <1>1. CASE Pause \/ Resume \/ Trip
    BY <1>1 DEF Elsewhere, Pause, Resume, Trip, records, book, rest
  <1>2. CASE BreakerEnds \/ ScheduledPoll \/ Pressure
    BY <1>2 DEF Elsewhere, BreakerEnds, ScheduledPoll, Pressure, records, book, rest
  <1>3. CASE Eases \/ HourPasses \/ (\E w \in Workers : BackoffEnds(w))
    BY <1>3 DEF Elsewhere, Eases, HourPasses, BackoffEnds, records, book, rest
  <1>4. CASE UNCHANGED vars
    BY <1>4 DEF Elsewhere, vars, records, book, rest
  <1> QED
    BY <1>1, <1>2, <1>3, <1>4

LEMMA CoreStep ==
  ASSUME Core, Slots, Switches, [Next]_vars
  PROVE  Core' /\ Slots' /\ Kept
  <1>0. /\ task \in [Tasks -> TaskState] /\ phase \in [Workers -> Phases]
        /\ "poll" \in Tasks /\ \A t \in Tasks : task[t].w \in Workers \cup {None}
    BY DEF Core, TaskState, Tasks
  <1>1. ASSUME NEW w \in Workers, Try(w)
        PROVE  Core' /\ Slots' /\ Kept
    <2>1. UNCHANGED <<phase, pending, stopping>> /\ task["poll"].pc = "off"
      BY <1>1 DEF Try, records, book, rest
    <2>2. CASE w \in BACKOFF
      BY <1>1, <2>1, <2>2 DEF Try, Core, Slots, Kept
    <2>3. CASE w \notin BACKOFF
      <3>1. /\ task' \in [Tasks -> TaskState]
            /\ task'["poll"].pc = "sample" /\ task'["poll"].w = w
            /\ \A u \in Tasks \ {"poll"} : task'[u] = task[u]
        <4> DEFINE r == [Idle EXCEPT !.pc = "sample", !.w = w, !.hive = seen]
        <4>1. "sample" \in Places
          BY DEF Places
        <4>2. r \in TaskState /\ r.pc = "sample" /\ r.w = w
          BY <4>1, IdleState DEF TaskState, Switches
        <4>3. task' = [task EXCEPT !["poll"] = r]
          BY <1>1, <2>3 DEF Try
        <4> HIDE DEF r
        <4> QED
          BY <1>0, <4>2, <4>3, BeginStep
      <3>2. Slots' /\ Kept
        BY <1>0, <2>1, <3>1, SlotsBegun
      <3> QED
        BY <2>1, <3>1, <3>2 DEF Core
    <2> QED
      BY <2>2, <2>3
  <1>2. ASSUME NEW w \in Workers, AgentStarts(w) \/ AgentFails(w) \/ Lands(w)
        PROVE  Core' /\ Slots' /\ Kept
    <2>1. UNCHANGED <<task, pending, stopping>>
      BY <1>2 DEF AgentStarts, AgentFails, Lands, book, rest
    <2>2. phase' \in [Workers -> Phases]
      BY <1>0, <1>2, SetStep DEF AgentStarts, AgentFails, Lands, Phases
    <2> QED
      BY <2>1, <2>2 DEF Core, Slots, Kept
  <1>3. ASSUME NEW t \in Tasks, Expire(t)
        PROVE  Core' /\ Slots' /\ Kept
    <2>1. /\ UNCHANGED <<phase, task, stopping>> /\ pending' = pending \ {t}
          /\ t \in pending
      BY <1>3 DEF Expire, records
    <2>2. Slots' /\ Kept
      BY <2>1 DEF Slots, Kept
    <2> QED
      BY <2>1, <2>2 DEF Core
  <1>4. CASE Restart
    <2>1. /\ task' = [t \in Tasks |-> Idle] /\ pending' = {} /\ UNCHANGED phase
          /\ stopping' = [w |-> None, was |-> "none"]
      BY <1>4 DEF Restart, records
    <2>2. Core'
      BY <2>1, IdleState DEF Core, Phases
    <2>3. Slots' /\ Kept
      BY <2>1 DEF Slots, Idle, Kept
    <2> QED
      BY <2>2, <2>3
  <1>5. CASE Elsewhere
    BY <1>5 DEF Elsewhere, Core, Slots, Kept
  <1> QED
    BY <1>1, <1>2, <1>3, <1>4, <1>5, TaskStepsCore, ToolsCore, WatchStill, LimitsStill
    DEF Next, Polls, World

(* The cap.  Nothing but a reservation, a refused stop and a launch that    *)
(* lost its slot takes one.                                                 *)

\* Only a reservation adds one.
LEMMA PendingStep ==
  ASSUME [Next]_vars, \A t \in Tasks : ~Reserve(t)
  PROVE  pending' \subseteq pending
  <1>1. ASSUME NEW t \in Tasks, TaskSteps(t)
        PROVE  pending' \subseteq pending
    <2>1. CASE Sample(t) \/ Refuse(t) \/ Throttled(t) \/ Write(t)
      BY <2>1 DEF Sample, Refuse, Throttled, Write, book
    <2>2. CASE MakeFails(t) \/ WindowTakes(t) \/ WindowRefuses(t) \/ Back(t) \/ Mark(t) \/ Begin(t)
      BY <2>2 DEF MakeFails, WindowTakes, WindowRefuses, Back, Mark, Begin, book
    <2>3. CASE Commit(t) \/ CommitRefused(t) \/ Drop(t)
      BY <2>3 DEF Commit, CommitRefused, Drop
    <2> QED
      BY <1>1, <2>1, <2>2, <2>3 DEF TaskSteps
  <1>2. ASSUME Tools
        PROVE  pending' \subseteq pending
    <2>1. CASE File \/ FileFails \/ Rewait \/ PutBack \/ Signalled \/ SignalRefused
      BY <2>1 DEF File, FileFails, Rewait, PutBack, Signalled, SignalRefused, book
    <2>2. CASE Move \/ DropRestart
      BY <2>2 DEF Move, DropRestart
    <2>3. CASE \E w \in Workers : SpawnWorker(w) \/ RestartWorker(w) \/ StopWorker(w)
      BY <2>3 DEF SpawnWorker, RestartWorker, StopWorker, book
    <2> QED
      BY <1>2, <2>1, <2>2, <2>3 DEF Tools
  <1>3. CASE \E w \in Workers : Try(w) \/ AgentStarts(w) \/ AgentFails(w) \/ Lands(w)
    BY <1>3 DEF Try, AgentStarts, AgentFails, Lands, book
  <1>4. CASE Restart \/ (\E t \in Tasks : Expire(t))
    BY <1>4 DEF Restart, Expire
  <1>5. CASE Elsewhere
    BY <1>5 DEF Elsewhere
  <1> QED
    BY <1>1, <1>2, <1>3, <1>4, <1>5, WatchStill, LimitsStill DEF Next, Polls, World

\* A stop whose signal is refused, and a launch that outlived its slot, find a
\* slot still free.
InSlot == Races \cap {"refused stop", "late launch"} = {}

\* A record becomes live under its launch's slot, or where there is room for it.
Admitted(w) ==
  \/ \E t \in pending : task[t].w = w
  \/ ~Full(live) /\ live' \subseteq live \cup {w}

LEMMA LiveStep ==
  ASSUME InSlot, Core, Slots, [Next]_vars, ~SignalRefused, NEW w \in live' \ live
  PROVE  Admitted(w)
  <1>0. /\ phase \in [Workers -> Phases] /\ w \in Workers
        /\ phase'[w] \in {"launching", "running"} /\ phase[w] \notin {"launching", "running"}
        /\ \A t \in Tasks : task[t].w \in Workers \cup {None}
    BY DEF live, Core, TaskState
  <1>1. ASSUME NEW t \in Tasks, TaskSteps(t)
        PROVE  Admitted(w)
    <2>1. CASE Sample(t) \/ Reserve(t) \/ Throttled(t) \/ Commit(t) \/ CommitRefused(t)
      BY <1>0, <2>1 DEF Sample, Reserve, Throttled, Commit, CommitRefused, records
    <2>2. CASE MakeFails(t) \/ WindowTakes(t) \/ WindowRefuses(t) \/ Drop(t) \/ Mark(t) \/ Begin(t)
      BY <1>0, <2>2 DEF MakeFails, WindowTakes, WindowRefuses, Drop, Mark, Begin, records
    <2>3. CASE Refuse(t) \/ Back(t)
      BY <1>0, <2>3, SetStep DEF Refuse, Back, Phases
    <2>4. CASE Write(t)
      <3>1. Slotted(t) /\ task[t].w = w /\ w \notin live
        BY <1>0, <2>4, SetStep DEF Write, Phases, live
      <3>2. live' \subseteq live \cup {w}
        BY <1>0, <2>4, <3>1, SetStep DEF Write, Phases, live
      <3> QED
        BY <3>1, <3>2 DEF Slotted, InSlot, Admitted
    <2> QED
      BY <1>1, <2>1, <2>2, <2>3, <2>4 DEF TaskSteps
  <1>2. ASSUME Tools
        PROVE  Admitted(w)
    <2>1. CASE File \/ DropRestart \/ Signalled
      BY <1>0, <2>1 DEF File, DropRestart, Signalled, records
    <2>2. CASE FileFails \/ Rewait
      BY <1>0, <2>2, SetStep DEF FileFails, Rewait, Phases, Tasks
    <2>3. CASE Move
      <3>1. Slotted("restart") /\ task["restart"].w = w /\ w \notin live
        BY <1>0, <2>3, SetStep DEF Move, Phases, Tasks, live
      <3>2. live' \subseteq live \cup {w}
        BY <1>0, <2>3, <3>1, SetStep DEF Move, Phases, Tasks, live
      <3> QED
        BY <3>1, <3>2 DEF Slotted, InSlot, Admitted, Tasks
    <2>4. CASE PutBack
      BY <1>0, <2>4 DEF PutBack, Set
    <2>5. CASE \E v \in Workers : SpawnWorker(v) \/ RestartWorker(v) \/ StopWorker(v)
      BY <1>0, <2>5 DEF SpawnWorker, RestartWorker, StopWorker, Set, records
    <2> QED
      BY <1>2, <2>1, <2>2, <2>3, <2>4, <2>5 DEF Tools
  <1>3. CASE \E v \in Workers : Try(v) \/ AgentStarts(v) \/ AgentFails(v) \/ Lands(v)
    BY <1>0, <1>3 DEF Try, AgentStarts, AgentFails, Lands, Set, records
  <1>4. CASE Restart \/ (\E t \in Tasks : Expire(t))
    BY <1>0, <1>4 DEF Restart, Expire, records
  <1>5. CASE Elsewhere
    BY <1>0, <1>5 DEF Elsewhere
  <1> QED
    BY <1>1, <1>2, <1>3, <1>4, <1>5, WatchStill, LimitsStill DEF Next, Polls, World

LEMMA Finite ==
  ASSUME Core
  PROVE  IsFiniteSet(live) /\ IsFiniteSet(pending) /\ IsFiniteSet(taken)
  <1>1. IsFiniteSet(Tasks)
    <2>1. Tasks = {"poll"} \cup {"spawn"} \cup {"restart"}
      BY DEF Tasks
    <2> QED
      BY <2>1, FS_Singleton, FS_AddElement
  <1>2. IsFiniteSet(live) /\ IsFiniteSet(pending)
    BY <1>1, SpawnAssumption, FS_Subset DEF live, Core
  <1>3. IsFiniteSet(Workers \cup {None})
    BY SpawnAssumption, FS_AddElement
  <1>4. taken \subseteq Workers \cup {None}
    BY DEF taken, live, Core, TaskState
  <1> QED
    BY <1>2, <1>3, <1>4, FS_Subset

\* A cap not full by the workers in C isn't by them and those reserved for.
LEMMA RoomLeft ==
  ASSUME Core, NEW C \in SUBSET live, ~Full(C)
  PROVE  LET Y == C \cup {task[u].w : u \in pending} IN
           IsFiniteSet(Y) /\ Cardinality(Y) \in Nat /\ Cardinality(Y) < Cap
  <1> DEFINE P == pending_for(C)
             I == {task[u].w : u \in P}
             f == [u \in P |-> task[u].w]
             Y == C \cup I
  <1>0. Cap \in Nat
    BY SpawnAssumption
  <1>1. IsFiniteSet(C) /\ Cardinality(C) \in Nat /\ IsFiniteSet(P) /\ Cardinality(P) \in Nat
    BY Finite, FS_Subset, FS_CardinalityType DEF pending_for
  <1>2. f \in Surjection(P, I)
    BY DEF Surjection
  <1>3. IsFiniteSet(I) /\ Cardinality(I) <= Cardinality(P) /\ Cardinality(I) \in Nat
    <2> HIDE DEF P, I, f
    <2> QED
      BY <1>1, <1>2, FS_Surjection, FS_CardinalityType
  <1>4. IsFiniteSet(Y) /\ Cardinality(Y) <= Cardinality(C) + Cardinality(P) /\ Cardinality(Y) \in Nat
    <2>1. IsFiniteSet(C \cap I) /\ Cardinality(C \cap I) \in Nat
      BY <1>1, FS_Subset, FS_CardinalityType
    <2> HIDE DEF P, I
    <2>2. IsFiniteSet(Y) /\ Cardinality(Y) = Cardinality(C) + Cardinality(I) - Cardinality(C \cap I)
      BY <1>1, <1>3, FS_Union
    <2> QED
      BY <1>1, <1>3, <2>1, <2>2, FS_CardinalityType
  <1>5. Cardinality(C) + Cardinality(P) < Cap
    <2>1. ~(Cardinality(C) + Cardinality(P) >= Cap)
      BY DEF Full
    <2> HIDE DEF P
    <2> QED
      BY <1>0, <1>1, <2>1
  <1>6. C \cup {task[u].w : u \in pending} = Y
    BY DEF pending_for
  <1> HIDE DEF Y, P, I, f
  <1>7. Cardinality(Y) < Cap
    BY <1>0, <1>1, <1>4, <1>5
  <1> QED
    BY <1>4, <1>6, <1>7

\* It has room for one more.
LEMMA RoomForOne ==
  ASSUME Core, NEW C \in SUBSET live, ~Full(C), NEW w,
         NEW X \in SUBSET (C \cup {task[u].w : u \in pending} \cup {w})
  PROVE  Cardinality(X) <= Cap
  <1> DEFINE Y == C \cup {task[u].w : u \in pending}
  <1>0. Cap \in Nat
    BY SpawnAssumption
  <1>1. IsFiniteSet(Y) /\ Cardinality(Y) \in Nat /\ Cardinality(Y) < Cap
    BY RoomLeft
  <1>2. X \subseteq Y \cup {w}
    OBVIOUS
  <1> HIDE DEF Y
  <1>3. IsFiniteSet(Y \cup {w}) /\ Cardinality(Y \cup {w}) <= Cardinality(Y) + 1
    BY <1>1, FS_AddElement
  <1>4. Cardinality(X) <= Cardinality(Y \cup {w}) /\ Cardinality(X) \in Nat /\ Cardinality(Y \cup {w}) \in Nat
    BY <1>2, <1>3, FS_Subset, FS_CardinalityType
  <1> QED
    BY <1>0, <1>1, <1>3, <1>4

LEMMA SlotMeansRoom ==
  ASSUME NEW t \in Tasks, Answer(t) = "slot"
  PROVE  ~Full(Counted(t)) /\ ~Spent
  BY DEF Answer

LEMMA Below ==
  ASSUME NEW m \in Nat, NEW n \in Nat, NEW c \in Nat, m <= n, n <= c
  PROVE  m <= c
  OBVIOUS

LEMMA TakenStep ==
  ASSUME InSlot, Core, Slots, Core', Kept, [Next]_vars, Cardinality(taken) <= Cap
  PROVE  Cardinality(taken') <= Cap
  <1>1. CASE \E t \in Tasks : Reserve(t)
    <2>1. PICK t \in Tasks : Reserve(t)
      BY <1>1
    <2>2. ~Full(Counted(t)) /\ Counted(t) \subseteq live
      BY <2>1, SlotMeansRoom DEF Reserve, Counted
    <2>3. \A u \in Tasks : task'[u].w = task[u].w
      <3>1. task[t].pc = "reserve" /\ task \in [Tasks -> TaskState]
        BY <2>1 DEF Reserve, Core
      <3>2. Moved(t, IF t = "restart" THEN "move" ELSE "made")
        BY <2>1, <3>1, SampleStep DEF Reserve, Places
      <3> QED
        BY <3>2 DEF Moved
    <2>4. UNCHANGED phase /\ pending' = pending \cup {t}
      BY <2>1 DEF Reserve, records
    <2>5. taken' \subseteq Counted(t) \cup {task[u].w : u \in pending} \cup {task[t].w}
      BY <2>3, <2>4 DEF taken, live, Counted, Core
    <2> QED
      BY <2>2, <2>5, RoomForOne
  <1>2. CASE SignalRefused
    <2>1. UNCHANGED <<task, pending>> /\ ~Full(live)
      BY <1>2 DEF SignalRefused, InSlot, book
    <2>2. taken' \subseteq live \cup {task[u].w : u \in pending} \cup {stopping.w}
      BY <1>2, <2>1 DEF SignalRefused, Set, taken, live, Core
    <2> QED
      BY <2>1, <2>2, RoomForOne
  <1>3. CASE ~SignalRefused /\ \A t \in Tasks : ~Reserve(t)
    <2>1. pending' \subseteq pending
      BY <1>3, PendingStep
    <2>2. CASE \E w \in live' \ live : ~Full(live) /\ live' \subseteq live \cup {w}
      <3>1. PICK w \in live' \ live : ~Full(live) /\ live' \subseteq live \cup {w}
        BY <2>2
      <3>2. taken' \subseteq live \cup {task[u].w : u \in pending} \cup {w}
        BY <2>1, <3>1 DEF taken, Kept
      <3> QED
        BY <3>1, <3>2, RoomForOne
    <2>3. CASE ~ \E w \in live' \ live : ~Full(live) /\ live' \subseteq live \cup {w}
      <3>1. live' \subseteq taken
        BY <1>3, <2>3, LiveStep DEF taken, Admitted
      <3>2. taken' \subseteq taken
        BY <2>1, <3>1 DEF taken, Kept
      <3>3. Cap \in Nat
        BY SpawnAssumption
      <3>4. IsFiniteSet(taken)
        BY Finite
      <3>5. Cardinality(taken') <= Cardinality(taken) /\ Cardinality(taken') \in Nat
            /\ Cardinality(taken) \in Nat
        BY <3>2, <3>4, FS_Subset, FS_CardinalityType
      <3> QED
        BY <3>3, <3>5, Below
    <2> QED
      BY <2>2, <2>3
  <1> QED
    BY <1>1, <1>2, <1>3

\* The hour's limit counts spawns and reservations.
Hour == spawns \in Nat /\ spawns + Cardinality(pending) <= Limit

LEMMA SpawnsStep ==
  ASSUME [Next]_vars, \A t \in Tasks : ~Commit(t), ~HourPasses
  PROVE  UNCHANGED spawns
  <1>1. ASSUME NEW t \in Tasks, TaskSteps(t)
        PROVE  UNCHANGED spawns
    <2>1. CASE Sample(t) \/ Reserve(t) \/ Refuse(t) \/ Throttled(t) \/ Write(t) \/ CommitRefused(t)
      BY <2>1 DEF Sample, Reserve, Refuse, Throttled, Write, CommitRefused, book
    <2>2. CASE MakeFails(t) \/ WindowTakes(t) \/ WindowRefuses(t) \/ Back(t) \/ Drop(t)
      BY <2>2 DEF MakeFails, WindowTakes, WindowRefuses, Back, Drop, book
    <2>3. CASE Mark(t) \/ Begin(t)
      BY <2>3 DEF Mark, Begin, book
    <2> QED
      BY <1>1, <2>1, <2>2, <2>3 DEF TaskSteps
  <1>2. ASSUME Tools
        PROVE  UNCHANGED spawns
    BY <1>2 DEF Tools, File, FileFails, Rewait, Move, DropRestart, PutBack, Signalled, SignalRefused,
                SpawnWorker, RestartWorker, StopWorker, book
  <1>3. CASE \E w \in Workers : Try(w) \/ AgentStarts(w) \/ AgentFails(w) \/ Lands(w) \/ BackoffEnds(w)
    BY <1>3 DEF Try, AgentStarts, AgentFails, Lands, BackoffEnds, book
  <1>4. CASE Restart \/ (\E t \in Tasks : Expire(t)) \/ Enter \/ Read \/ PollEnds \/ UNCHANGED vars
    BY <1>4 DEF Restart, Expire, Enter, Read, PollEnds, vars, book
  <1>5. CASE SeesOpen \/ WatchEnds \/ Wake \/ Pause \/ Resume \/ Trip
    BY <1>5 DEF SeesOpen, WatchEnds, Wake, Pause, Resume, Trip, book
  <1>6. CASE BreakerEnds \/ ScheduledPoll \/ Pressure \/ Eases
    BY <1>6 DEF BreakerEnds, ScheduledPoll, Pressure, Eases, book
  <1> QED
    BY <1>1, <1>2, <1>3, <1>4, <1>5, <1>6 DEF Next, Polls, World

LEMMA HourStep ==
  ASSUME Core, Slots, Hour, [Next]_vars
  PROVE  Hour'
  <1>0. Limit \in Nat
    BY SpawnAssumption
  <1>1. IsFiniteSet(pending) /\ Cardinality(pending) \in Nat
    BY Finite, FS_CardinalityType
  <1>2. CASE \E t \in Tasks : Reserve(t)
    <2>1. PICK t \in Tasks : Reserve(t)
      BY <1>2
    <2>2. ~Spent /\ UNCHANGED spawns /\ pending' = pending \cup {t}
      BY <2>1, SlotMeansRoom DEF Reserve
    <2>3. Cardinality(pending') <= Cardinality(pending) + 1 /\ Cardinality(pending') \in Nat
      <3>1. IsFiniteSet(pending') /\ Cardinality(pending') \in Nat
        BY <1>1, <2>2, FS_AddElement, FS_CardinalityType
      <3>2. Cardinality(pending') = IF t \in pending THEN Cardinality(pending) ELSE Cardinality(pending) + 1
        BY <1>1, <2>2, FS_AddElement
      <3> QED
        BY <1>1, <3>1, <3>2
    <2>4. spawns + Cardinality(pending) < Limit
      BY <1>0, <1>1, <2>2 DEF Spent, Hour
    <2> QED
      BY <1>0, <1>1, <2>2, <2>3, <2>4 DEF Hour
  <1>3. CASE \E t \in Tasks : Commit(t)
    <2>1. PICK t \in Tasks : Commit(t)
      BY <1>3
    <2>2. t \in pending /\ spawns' = spawns + 1 /\ pending' = pending \ {t}
      BY <2>1 DEF Commit, InTime
    <2>3. Cardinality(pending') = Cardinality(pending) - 1
      BY <1>1, <2>2, FS_RemoveElement
    <2> QED
      BY <1>0, <1>1, <2>2, <2>3 DEF Hour
  <1>4. CASE \A t \in Tasks : ~Reserve(t) /\ ~Commit(t)
    <2>1. pending' \subseteq pending
      BY <1>4, PendingStep
    <2>2. Cardinality(pending') <= Cardinality(pending) /\ Cardinality(pending') \in Nat
      BY <1>1, <2>1, FS_Subset, FS_CardinalityType
    <2>3. spawns' \in Nat /\ spawns' <= spawns
      <3>1. CASE HourPasses
        BY <3>1 DEF HourPasses, Hour
      <3>2. CASE ~HourPasses
        BY <1>4, <3>2, SpawnsStep DEF Hour
      <3> QED
        BY <3>1, <3>2
    <2> QED
      BY <1>0, <1>1, <2>2, <2>3 DEF Hour
  <1> QED
    BY <1>2, <1>3, <1>4

\* The cap is never passed, and nor is the hour's limit, for any workers, cap
\* and limit, outside the two orders the code leaves open: a stop refused, or a
\* launch whose slot expired, that writes its worker live over a full cap.
\* Inductive with Slots: a record becomes live under a slot its launch still
\* has, or into room, and a slot is given only to one that fits.
THEOREM WithinCap ==
  ASSUME InSlot
  PROVE  Spec => []CapHeld
  <1> DEFINE Inv == Core /\ Slots /\ Switches /\ Hour /\ Cardinality(taken) <= Cap
  <1>1. Init => Inv
    <2> SUFFICES ASSUME Init PROVE Inv
      OBVIOUS
    <2>1. taken = {} /\ pending = {} /\ spawns = 0
      BY DEF Init, taken, live
    <2>2. Cap \in Nat /\ Limit \in Nat
      BY SpawnAssumption
    <2>3. Cardinality(taken) = 0 /\ Cardinality(pending) = 0
      BY <2>1, FS_EmptySet
    <2>4. spawns \in Nat /\ spawns + Cardinality(pending) <= Limit
      BY <2>1, <2>2, <2>3
    <2>5. Cardinality(taken) <= Cap
      BY <2>2, <2>3
    <2> QED
      BY <2>4, <2>5, CoreInit, SwitchesInit DEF Hour
  <1>2. Inv /\ [Next]_vars => Inv'
    <2> SUFFICES ASSUME Inv, [Next]_vars PROVE Inv'
      OBVIOUS
    <2>1. Core' /\ Slots' /\ Switches' /\ Kept
      BY CoreStep, SwitchesStep
    <2>2. Hour'
      BY HourStep
    <2>3. Cardinality(taken') <= Cap
      BY <2>1, TakenStep
    <2> QED
      BY <2>1, <2>2, <2>3
  <1>3. Inv => CapHeld
    BY DEF CapHeld, Hour
  <1> QED
    BY <1>1, <1>2, <1>3, PTL DEF Spec

\* A stopped worker stays stopped but for its own restart, its stop's refusal,
\* and the spawn that never got as far as a record taking it back: no launch,
\* nor its way back, writes over the coordinator's word.
THEOREM StopKept == Spec => StopStands
  <1> DEFINE Says(w) == phase[w] = "stopped" /\ phase'[w] # "stopped" =>
                          \/ task["restart"].w = w \/ stopping.w = w
                          \/ task["spawn"].w = w /\ phase'[w] = "none"
  <1>1. Init => Core /\ Slots /\ Switches
    BY CoreInit, SwitchesInit
  <1>2. Core /\ Slots /\ Switches /\ [Next]_vars => Core' /\ Slots' /\ Switches'
    BY CoreStep, SwitchesStep
  <1>3. Core /\ Slots /\ [Next]_vars => [\A w \in Workers : Says(w)]_vars
    <2> SUFFICES ASSUME Core, Slots, [Next]_vars, NEW w \in Workers,
                        phase[w] = "stopped", phase'[w] # "stopped"
                 PROVE  \/ task["restart"].w = w \/ stopping.w = w
                        \/ task["spawn"].w = w /\ phase'[w] = "none"
      OBVIOUS
    <2>0. /\ phase \in [Workers -> Phases]
          /\ \A t \in Tasks : task[t].w \in Workers \cup {None}
          /\ stopping.w \in Workers \cup {None} /\ stopping.was \in Phases
          /\ task["restart"].was \in Phases
          /\ "restart" \in Tasks /\ "spawn" \in Tasks
      BY DEF Core, TaskState, Tasks
    <2>1. ASSUME NEW t \in Tasks, TaskSteps(t)
          PROVE  task["spawn"].w = w /\ phase'[w] = "none"
      <3>1. CASE Refuse(t)
        BY <2>0, <3>1, SetStep DEF Refuse, Phases
      <3>2. CASE Write(t)
        BY <2>0, <3>2, SetStep DEF Write, Phases
      <3>3. CASE Back(t)
        BY <2>0, <3>3, SetStep DEF Back, Ours, Phases
      <3>4. CASE ~Refuse(t) /\ ~Write(t) /\ ~Back(t)
        BY <2>1, <3>4 DEF TaskSteps, Sample, Reserve, Throttled, Commit, CommitRefused, MakeFails,
                          WindowTakes, WindowRefuses, Drop, Mark, Begin, records
      <3> QED
        BY <3>1, <3>2, <3>3, <3>4
    <2>2. ASSUME Tools
          PROVE  \/ task["restart"].w = w \/ stopping.w = w
                 \/ task["spawn"].w = w /\ phase'[w] = "none"
      <3>1. CASE File \/ DropRestart \/ Signalled
        BY <3>1 DEF File, DropRestart, Signalled, records
      <3>2. CASE FileFails
        BY <2>0, <3>2, SetStep DEF FileFails, Phases
      <3>3. CASE Rewait \/ Move
        BY <2>0, <3>3, SetStep DEF Rewait, Move, Phases
      <3>4. CASE PutBack
        BY <2>0, <3>4 DEF PutBack, Set
      <3>5. CASE SignalRefused
        BY <2>0, <3>5, SetStep DEF SignalRefused
      <3>6. CASE \E v \in Workers : SpawnWorker(v) \/ RestartWorker(v) \/ StopWorker(v)
        BY <2>0, <3>6 DEF SpawnWorker, RestartWorker, StopWorker, Set, records
      <3> QED
        BY <2>2, <3>1, <3>2, <3>3, <3>4, <3>5, <3>6 DEF Tools
    <2>3. ~ \E v \in Workers : Try(v) \/ AgentStarts(v) \/ AgentFails(v) \/ Lands(v)
      BY <2>0 DEF Try, AgentStarts, AgentFails, Lands, Set, records
    <2>4. ~Restart /\ ~ \E t \in Tasks : Expire(t)
      BY DEF Restart, Expire, records
    <2>5. ~Elsewhere
      BY DEF Elsewhere
    <2> QED
      BY <2>1, <2>2, <2>3, <2>4, <2>5, WatchStill, LimitsStill DEF Next, Polls, World
  <1> QED
    BY <1>1, <1>2, <1>3, PTL DEF Spec, StopStands

(* Types.                                                                   *)
Sets ==
  /\ launched \subseteq Workers /\ row \subseteq Workers /\ done \subseteq Workers
  /\ list \subseteq Workers /\ BACKOFF \subseteq Workers

Words ==
  /\ gate \in {"open", "shut"} /\ WATCH \in {"off", "sampling", "open"}
  /\ POLLING \in {"off", "on", "again"}

LEMMA SetsStep ==
  ASSUME Core, Slots, Sets, [Next]_vars
  PROVE  Sets'
  <1>0. \A t \in Tasks : task[t].pc # "off" => task[t].w \in Workers
    BY DEF Core, Slots, TaskState
  <1>1. ASSUME NEW t \in Tasks, TaskSteps(t)
        PROVE  Sets'
    <2>1. CASE Sample(t) \/ Reserve(t) \/ Refuse(t) \/ Throttled(t)
      BY <1>0, <2>1 DEF Sample, Reserve, Refuse, Throttled, Sets, Tasks, Troubles, records, book, limits, watch, poll, rest
    <2>2. CASE Commit(t) \/ CommitRefused(t)
      BY <1>0, <2>2 DEF Commit, CommitRefused, Sets, Tasks, Troubles, records, book, limits, watch, poll, rest
    <2>3. CASE Write(t)
      BY <1>0, <2>3 DEF Write, Sets, Tasks, Troubles, records, book, limits, watch, poll, rest
    <2>4. CASE MakeFails(t) \/ WindowTakes(t) \/ WindowRefuses(t)
      BY <1>0, <2>4 DEF MakeFails, WindowTakes, WindowRefuses, Sets, Tasks, Troubles, records, book, limits, watch, poll, rest
    <2>5. CASE Back(t) \/ Drop(t)
      BY <1>0, <2>5 DEF Back, Drop, Sets, Tasks, Troubles, records, book, limits, watch, poll, rest
    <2>6. CASE Mark(t) \/ Begin(t)
      BY <1>0, <2>6 DEF Mark, Begin, Sets, Tasks, Troubles, records, book, limits, watch, poll, rest
    <2> QED
      BY <1>1, <2>1, <2>2, <2>3, <2>4, <2>5, <2>6 DEF TaskSteps
  <1>2. ASSUME Tools
        PROVE  Sets'
    <2>1. CASE File \/ FileFails \/ Rewait
      BY <1>0, <2>1 DEF File, FileFails, Rewait, Sets, Tasks, Troubles, records, book, limits, watch, poll, rest
    <2>2. CASE Move \/ DropRestart \/ PutBack
      BY <1>0, <2>2 DEF Move, DropRestart, PutBack, Sets, Tasks, Troubles, records, book, limits, watch, poll, rest
    <2>3. CASE Signalled \/ SignalRefused
      BY <1>0, <2>3 DEF Signalled, SignalRefused, Sets, Tasks, Troubles, records, book, limits, watch, poll, rest
    <2>4. CASE \E w \in Workers : SpawnWorker(w) \/ RestartWorker(w) \/ StopWorker(w)
      BY <1>0, <2>4 DEF SpawnWorker, RestartWorker, StopWorker, Sets, Tasks, Troubles, records, book, limits, watch, poll, rest
    <2> QED
      BY <1>2, <2>1, <2>2, <2>3, <2>4 DEF Tools
  <1>3. CASE \E w \in Workers : Try(w) \/ AgentStarts(w) \/ AgentFails(w) \/ Lands(w) \/ BackoffEnds(w)
    BY <1>0, <1>3 DEF Try, AgentStarts, AgentFails, Lands, BackoffEnds, Sets, Tasks, Troubles, records, book, limits, watch, poll, rest
  <1>4. CASE Enter \/ Read \/ PollEnds
    BY <1>0, <1>4 DEF Enter, Read, PollEnds, Again, Sets, Tasks, Troubles, records, book, limits, watch, poll, rest
  <1>5. CASE SeesOpen \/ WatchEnds \/ Wake
    BY <1>0, <1>5 DEF SeesOpen, WatchEnds, Wake, Taken, Sets, Tasks, Troubles, records, book, limits, watch, poll, rest
  <1>6. CASE Pause \/ Resume \/ Trip \/ BreakerEnds
    BY <1>0, <1>6 DEF Pause, Resume, Trip, BreakerEnds, Sets, Tasks, Troubles, records, book, limits, watch, poll, rest
  <1>7. CASE ScheduledPoll \/ Pressure \/ Eases \/ HourPasses
    BY <1>0, <1>7 DEF ScheduledPoll, Pressure, Eases, HourPasses, Sets, Tasks, Troubles, records, book, limits, watch, poll, rest
  <1>8. CASE Restart \/ \E t \in Tasks : Expire(t)
    BY <1>0, <1>8 DEF Restart, Expire, Sets, Tasks, Troubles, records, book, limits, watch, poll, rest
  <1>9. CASE UNCHANGED vars
    BY <1>0, <1>9 DEF vars, Sets, Tasks, Troubles, records, book, limits, watch, poll, rest
  <1> QED
    BY <1>1, <1>2, <1>3, <1>4, <1>5, <1>6, <1>7, <1>8, <1>9 DEF Next, Polls, World

LEMMA WordsStep ==
  ASSUME Words, [Next]_vars
  PROVE  Words'
  <1>1. ASSUME NEW t \in Tasks, TaskSteps(t)
        PROVE  Words'
    <2>1. CASE Sample(t) \/ Reserve(t) \/ Refuse(t) \/ Throttled(t)
      BY <2>1 DEF Sample, Reserve, Refuse, Throttled, Words, records, book, limits, watch, poll, rest
    <2>2. CASE Commit(t) \/ CommitRefused(t)
      BY <2>2 DEF Commit, CommitRefused, Words, records, book, limits, watch, poll, rest
    <2>3. CASE Write(t)
      BY <2>3 DEF Write, Words, records, book, limits, watch, poll, rest
    <2>4. CASE MakeFails(t) \/ WindowTakes(t) \/ WindowRefuses(t)
      BY <2>4 DEF MakeFails, WindowTakes, WindowRefuses, Words, records, book, limits, watch, poll, rest
    <2>5. CASE Back(t) \/ Drop(t)
      BY <2>5 DEF Back, Drop, Words, records, book, limits, watch, poll, rest
    <2>6. CASE Mark(t) \/ Begin(t)
      BY <2>6 DEF Mark, Begin, Words, records, book, limits, watch, poll, rest
    <2> QED
      BY <1>1, <2>1, <2>2, <2>3, <2>4, <2>5, <2>6 DEF TaskSteps
  <1>2. ASSUME Tools
        PROVE  Words'
    <2>1. CASE File \/ FileFails \/ Rewait
      BY <2>1 DEF File, FileFails, Rewait, Words, records, book, limits, watch, poll, rest
    <2>2. CASE Move \/ DropRestart \/ PutBack
      BY <2>2 DEF Move, DropRestart, PutBack, Words, records, book, limits, watch, poll, rest
    <2>3. CASE Signalled \/ SignalRefused
      BY <2>3 DEF Signalled, SignalRefused, Words, records, book, limits, watch, poll, rest
    <2>4. CASE \E w \in Workers : SpawnWorker(w) \/ RestartWorker(w) \/ StopWorker(w)
      BY <2>4 DEF SpawnWorker, RestartWorker, StopWorker, Words, records, book, limits, watch, poll, rest
    <2> QED
      BY <1>2, <2>1, <2>2, <2>3, <2>4 DEF Tools
  <1>3. CASE \E w \in Workers : Try(w) \/ AgentStarts(w) \/ AgentFails(w) \/ Lands(w) \/ BackoffEnds(w)
    BY <1>3 DEF Try, AgentStarts, AgentFails, Lands, BackoffEnds, Words, records, book, limits, watch, poll, rest
  <1>4. CASE Enter \/ Read \/ PollEnds
    BY <1>4 DEF Enter, Read, PollEnds, Again, Words, records, book, limits, watch, poll, rest
  <1>5. CASE SeesOpen \/ WatchEnds \/ Wake
    BY <1>5 DEF SeesOpen, WatchEnds, Wake, Taken, Words, records, book, limits, watch, poll, rest
  <1>6. CASE Pause \/ Resume \/ Trip \/ BreakerEnds
    BY <1>6 DEF Pause, Resume, Trip, BreakerEnds, Words, records, book, limits, watch, poll, rest
  <1>7. CASE ScheduledPoll \/ Pressure \/ Eases \/ HourPasses
    BY <1>7 DEF ScheduledPoll, Pressure, Eases, HourPasses, Words, records, book, limits, watch, poll, rest
  <1>8. CASE Restart \/ \E t \in Tasks : Expire(t)
    BY <1>8 DEF Restart, Expire, Words, records, book, limits, watch, poll, rest
  <1>9. CASE UNCHANGED vars
    BY <1>9 DEF vars, Words, records, book, limits, watch, poll, rest
  <1> QED
    BY <1>1, <1>2, <1>3, <1>4, <1>5, <1>6, <1>7, <1>8, <1>9 DEF Next, Polls, World

LEMMA TroubleStep ==
  ASSUME trouble \in 0 .. MaxTrouble, [Next]_vars
  PROVE  trouble' \in 0 .. MaxTrouble
  <1>0. MaxTrouble \in Nat
    BY SpawnAssumption
  <1>1. ASSUME NEW t \in Tasks, TaskSteps(t)
        PROVE  trouble' \in 0 .. MaxTrouble
    <2>1. CASE Sample(t) \/ Reserve(t) \/ Refuse(t) \/ Throttled(t)
      BY <1>0, <2>1 DEF Sample, Reserve, Refuse, Throttled, Troubles, records, book, limits, watch, poll, rest
    <2>2. CASE Commit(t) \/ CommitRefused(t)
      BY <1>0, <2>2 DEF Commit, CommitRefused, Troubles, records, book, limits, watch, poll, rest
    <2>3. CASE Write(t)
      BY <1>0, <2>3 DEF Write, Troubles, records, book, limits, watch, poll, rest
    <2>4. CASE MakeFails(t) \/ WindowTakes(t) \/ WindowRefuses(t)
      BY <1>0, <2>4 DEF MakeFails, WindowTakes, WindowRefuses, Troubles, records, book, limits, watch, poll, rest
    <2>5. CASE Back(t) \/ Drop(t)
      BY <1>0, <2>5 DEF Back, Drop, Troubles, records, book, limits, watch, poll, rest
    <2>6. CASE Mark(t) \/ Begin(t)
      BY <1>0, <2>6 DEF Mark, Begin, Troubles, records, book, limits, watch, poll, rest
    <2> QED
      BY <1>1, <2>1, <2>2, <2>3, <2>4, <2>5, <2>6 DEF TaskSteps
  <1>2. ASSUME Tools
        PROVE  trouble' \in 0 .. MaxTrouble
    <2>1. CASE File \/ FileFails \/ Rewait
      BY <1>0, <2>1 DEF File, FileFails, Rewait, Troubles, records, book, limits, watch, poll, rest
    <2>2. CASE Move \/ DropRestart \/ PutBack
      BY <1>0, <2>2 DEF Move, DropRestart, PutBack, Troubles, records, book, limits, watch, poll, rest
    <2>3. CASE Signalled \/ SignalRefused
      BY <1>0, <2>3 DEF Signalled, SignalRefused, Troubles, records, book, limits, watch, poll, rest
    <2>4. CASE \E w \in Workers : SpawnWorker(w) \/ RestartWorker(w) \/ StopWorker(w)
      BY <1>0, <2>4 DEF SpawnWorker, RestartWorker, StopWorker, Troubles, records, book, limits, watch, poll, rest
    <2> QED
      BY <1>2, <2>1, <2>2, <2>3, <2>4 DEF Tools
  <1>3. CASE \E w \in Workers : Try(w) \/ AgentStarts(w) \/ AgentFails(w) \/ Lands(w) \/ BackoffEnds(w)
    BY <1>0, <1>3 DEF Try, AgentStarts, AgentFails, Lands, BackoffEnds, Troubles, records, book, limits, watch, poll, rest
  <1>4. CASE Enter \/ Read \/ PollEnds
    BY <1>0, <1>4 DEF Enter, Read, PollEnds, Again, Troubles, records, book, limits, watch, poll, rest
  <1>5. CASE SeesOpen \/ WatchEnds \/ Wake
    BY <1>0, <1>5 DEF SeesOpen, WatchEnds, Wake, Taken, Troubles, records, book, limits, watch, poll, rest
  <1>6. CASE Pause \/ Resume \/ Trip \/ BreakerEnds
    <2>1. Troubles \/ UNCHANGED trouble
      BY <1>6 DEF Pause, Resume, Trip, BreakerEnds, rest
    <2> QED
      BY <1>0, <2>1 DEF Troubles
  <1>7. CASE ScheduledPoll \/ Pressure \/ Eases \/ HourPasses
    BY <1>0, <1>7 DEF ScheduledPoll, Pressure, Eases, HourPasses, Troubles, records, book, limits, watch, poll, rest
  <1>8. CASE Restart \/ \E t \in Tasks : Expire(t)
    <2>1. Troubles
      BY <1>8 DEF Restart, Expire
    <2> QED
      BY <1>0, <2>1 DEF Troubles
  <1>9. CASE UNCHANGED vars
    BY <1>9 DEF vars, rest
  <1> QED
    BY <1>1, <1>2, <1>3, <1>4, <1>5, <1>6, <1>7, <1>8, <1>9 DEF Next, Polls, World

\* Types, that a task is off exactly while it has no worker, and that the
\* hour's spawns stay within its limit.
THEOREM Types == Spec => []TypeOK
  <1> DEFINE Inv == Core /\ Slots /\ Hour /\ Sets /\ Words /\ Switches /\ trouble \in 0 .. MaxTrouble
  <1>1. Init => Inv
    <2> SUFFICES ASSUME Init PROVE Inv
      OBVIOUS
    <2>1. Limit \in Nat /\ MaxTrouble \in Nat
      BY SpawnAssumption
    <2>2. pending = {} /\ spawns = 0 /\ trouble = 0
      BY DEF Init
    <2>3. Hour /\ trouble \in 0 .. MaxTrouble
      BY <2>1, <2>2, FS_EmptySet DEF Hour
    <2>4. Sets /\ Words
      BY DEF Init, Sets, Words
    <2>5. Switches
      BY SwitchesInit
    <2> QED
      BY <2>3, <2>4, <2>5, CoreInit
  <1>2. Inv /\ [Next]_vars => Inv'
    BY CoreStep, HourStep, SetsStep, WordsStep, SwitchesStep, TroubleStep
  <1>3. Inv => TypeOK
    <2> SUFFICES ASSUME Inv PROVE TypeOK
      OBVIOUS
    <2>1. Limit \in Nat
      BY SpawnAssumption
    <2>2. Cardinality(pending) \in Nat
      BY Finite, FS_CardinalityType
    <2>3. spawns \in 0 .. Limit
      BY <2>1, <2>2 DEF Hour
    <2>4. \A t \in Tasks : task[t].pc = "off" <=> task[t].w = None
      BY DEF Slots
    <2> QED
      BY <2>3, <2>4 DEF TypeOK, Core, Sets, Words, Switches
  <1> QED
    BY <1>1, <1>2, <1>3, PTL DEF Spec

(* Who was told that memory pressure refused it.                            *)

\* Only its own Begin, or maiTerm's end, takes a task from its watch.
LEMMA OnlyBegin ==
  ASSUME Core, Slots, [Next]_vars, ~Restart,
         NEW u \in Tasks, task[u].pc = "watch", ~Begin(u)
  PROVE  task'[u].pc = "watch"
  <1>0. task \in [Tasks -> TaskState] /\ Tasks = {"poll", "spawn", "restart"}
    BY DEF Core, Tasks
  <1>1. ASSUME NEW t \in Tasks, TaskSteps(t)
        PROVE  task'[u] = task[u]
    <2>1. CASE Sample(t) \/ Reserve(t) \/ Refuse(t) \/ Throttled(t)
      BY <1>0, <2>1 DEF Sample, Reserve, Refuse, Throttled, Goto, End
    <2>2. CASE Commit(t) \/ CommitRefused(t) \/ Write(t)
      BY <1>0, <2>2 DEF Commit, CommitRefused, Write, Goto, End
    <2>3. CASE MakeFails(t) \/ WindowTakes(t) \/ WindowRefuses(t)
      BY <1>0, <2>3 DEF MakeFails, WindowTakes, WindowRefuses, Goto
    <2>4. CASE Back(t) \/ Drop(t) \/ Mark(t) \/ Begin(t)
      BY <1>0, <2>4 DEF Back, Drop, Mark, Begin, Goto, End
    <2> QED
      BY <1>1, <2>1, <2>2, <2>3, <2>4 DEF TaskSteps
  <1>2. ASSUME Tools
        PROVE  task'[u] = task[u]
    <2>1. CASE File \/ FileFails \/ Rewait
      BY <1>0, <2>1 DEF File, FileFails, Rewait, Goto, End
    <2>2. CASE Move \/ DropRestart \/ PutBack
      BY <1>0, <2>2 DEF Move, DropRestart, PutBack, Goto, End
    <2>3. CASE Signalled \/ SignalRefused
      BY <2>3 DEF Signalled, SignalRefused
    <2>4. CASE \E w \in Workers : SpawnWorker(w) \/ RestartWorker(w) \/ StopWorker(w)
      BY <1>0, <2>4 DEF SpawnWorker, RestartWorker, StopWorker
    <2> QED
      BY <1>2, <2>1, <2>2, <2>3, <2>4 DEF Tools
  <1>3. CASE \E w \in Workers : Try(w) \/ AgentStarts(w) \/ AgentFails(w) \/ Lands(w)
    BY <1>0, <1>3 DEF Try, AgentStarts, AgentFails, Lands
  <1>4. CASE \E t \in Tasks : Expire(t)
    BY <1>4 DEF Expire
  <1>5. CASE Elsewhere
    BY <1>5 DEF Elsewhere
  <1> QED
    BY <1>1, <1>2, <1>3, <1>4, <1>5, WatchStill, LimitsStill DEF Next, Polls, World

\* Nothing else is said of the watch: whom it is to tell, and what it has seen.
LEMMA WatchKept ==
  ASSUME [Next]_vars, \A t \in Tasks : ~Mark(t) /\ ~Begin(t),
         ~SeesOpen, ~WatchEnds, ~Wake, ~Restart
  PROVE  UNCHANGED watch
  <1>1. ASSUME NEW t \in Tasks, TaskSteps(t)
        PROVE  UNCHANGED watch
    <2>1. CASE Sample(t) \/ Reserve(t) \/ Refuse(t) \/ Throttled(t)
      BY <2>1 DEF Sample, Reserve, Refuse, Throttled
    <2>2. CASE Commit(t) \/ CommitRefused(t) \/ Write(t)
      BY <2>2 DEF Commit, CommitRefused, Write
    <2>3. CASE MakeFails(t) \/ WindowTakes(t) \/ WindowRefuses(t) \/ Back(t) \/ Drop(t)
      BY <2>3 DEF MakeFails, WindowTakes, WindowRefuses, Back, Drop
    <2> QED
      BY <1>1, <2>1, <2>2, <2>3 DEF TaskSteps
  <1>2. ASSUME Tools
        PROVE  UNCHANGED watch
    <2>1. CASE File \/ FileFails \/ Rewait \/ Move \/ DropRestart \/ PutBack
      BY <2>1 DEF File, FileFails, Rewait, Move, DropRestart, PutBack
    <2>2. CASE Signalled \/ SignalRefused
      BY <2>2 DEF Signalled, SignalRefused
    <2>3. CASE \E w \in Workers : SpawnWorker(w) \/ RestartWorker(w) \/ StopWorker(w)
      BY <2>3 DEF SpawnWorker, RestartWorker, StopWorker
    <2> QED
      BY <1>2, <2>1, <2>2, <2>3 DEF Tools
  <1>3. CASE \E w \in Workers : Try(w) \/ AgentStarts(w) \/ AgentFails(w) \/ Lands(w) \/ BackoffEnds(w)
    BY <1>3 DEF Try, AgentStarts, AgentFails, Lands, BackoffEnds
  <1>4. CASE Enter \/ Read \/ PollEnds \/ \E t \in Tasks : Expire(t)
    BY <1>4 DEF Enter, Read, PollEnds, Expire
  <1>5. CASE Pause \/ Resume \/ Trip \/ BreakerEnds
    BY <1>5 DEF Pause, Resume, Trip, BreakerEnds
  <1>6. CASE ScheduledPoll \/ Pressure \/ Eases \/ HourPasses
    BY <1>6 DEF ScheduledPoll, Pressure, Eases, HourPasses
  <1>7. CASE UNCHANGED vars
    BY <1>7 DEF vars
  <1> QED
    BY <1>1, <1>2, <1>3, <1>4, <1>5, <1>6, <1>7 DEF Next, Polls, World

LEMMA MemoryStep ==
  ASSUME Core, Slots, Words, Switches, MemoryTold, [Next]_vars
  PROVE  MemoryTold'
  <1>0. task \in [Tasks -> TaskState]
    BY DEF Core
  <1>1. ASSUME NEW t \in Tasks, Mark(t)
        PROVE  MemoryTold'
    <2>1. Moved(t, "watch")
      BY <1>0, <1>1, GotoStep DEF Mark, Places
    <2> QED
      BY <2>1 DEF Moved, MemoryTold
  <1>2. ASSUME NEW t \in Tasks, Begin(t)
        PROVE  MemoryTold'
    BY <1>2 DEF Begin, MemoryTold
  <1>3. CASE SeesOpen \/ WatchEnds \/ Wake
    BY <1>3 DEF SeesOpen, WatchEnds, Wake, Taken, MemoryTold
  <1>4. CASE Restart
    BY <1>4 DEF Restart, MemoryTold
  <1>5. ASSUME \A t \in Tasks : ~Mark(t) /\ ~Begin(t), ~SeesOpen, ~WatchEnds, ~Wake, ~Restart
        PROVE  MemoryTold'
    <2>1. UNCHANGED watch
      BY <1>5, WatchKept
    <2>2. \A u \in Tasks : task[u].pc = "watch" => task'[u].pc = "watch"
      BY <1>5, OnlyBegin
    <2> QED
      BY <2>1, <2>2 DEF MemoryTold, watch
  <1> QED
    BY <1>1, <1>2, <1>3, <1>4, <1>5

\* Whoever was told that memory pressure refused it has a watch on its way to
\* tell it that it eased: only a watch that ended takes what is to be told.
THEOREM MemoryIsTold == Spec => []MemoryTold
  <1> DEFINE Inv == Core /\ Slots /\ Words /\ Switches /\ MemoryTold
  <1>1. Init => Inv
    <2> SUFFICES ASSUME Init PROVE Inv
      OBVIOUS
    <2>1. Words /\ Switches
      BY DEF Init, Words, Switches
    <2>2. MemoryTold
      BY DEF Init, MemoryTold
    <2> QED
      BY <2>1, <2>2, CoreInit
  <1>2. Inv /\ [Next]_vars => Inv'
    BY CoreStep, WordsStep, SwitchesStep, MemoryStep
  <1>3. Inv => MemoryTold
    OBVIOUS
  <1> QED
    BY <1>1, <1>2, <1>3, PTL DEF Spec

(***************************************************************************)
(* No waiter is forgotten.                                                 *)
(***************************************************************************)

\* A launch under way for the restart: when it ends it asks for a poll, or the
\* room it leaves is nobody's change.
Relaunching == task["restart"].pc \in {"move", "window", "commit", "back"}

\* A live worker being stopped, that its refused signal brings back.
Held == {w \in {stopping.w} : stopping.was \in {"launching", "running"} /\ phase[w] = "stopped"}

\* The workers that take up room: live, reserved, or stopped with their signal
\* still to come.
Seats == live \cup {task[t].w : t \in pending} \cup Held

\* A new worker not on the board yet: nobody else knows it.
Unfiled == {"sample", "reserve", "made", "file"}

\* Where workers are on the board and in the poll, as far as the poll's
\* promise rests on it.
Rows ==
  \A w \in Workers :
    /\ w \notin row => phase[w] \in {"none", "waiting", "stopped"}
    /\ phase[w] = "none" => w \notin row
    /\ w \in launched => w \in row
    /\ w \in done => phase[w] = "retired" /\ task["spawn"].w # w

NewOne ==
  task["spawn"].pc \in Unfiled =>
    LET w == task["spawn"].w IN
      w \notin row /\ phase[w] # "none" /\ w \notin list /\ task["poll"].w # w

Restarted ==
  /\ task["restart"].pc \notin {"made", "drop"}
  /\ task["restart"].pc # "off" => task["restart"].was \in {"failed", "stopped", "running"}
  /\ task["restart"].pc \in {"sample", "reserve", "move"} =>
       task["restart"].w \in row \/ phase[task["restart"].w] = "none"

Stopping ==
  stopping.was \in {"launching", "running"} =>
    stopping.w # None /\ (stopping.w \in row \/ phase[stopping.w] = "none")

Board == Rows /\ NewOne /\ Restarted /\ Stopping

Flags ==
  /\ breaker => SCHEDULED
  /\ ~seen => POLLING # "off" /\ ~active
  /\ ~task["poll"].hive => ~seen /\ task["poll"].pc # "off"
  /\ POLLING = "off" => ~reading /\ list = {} /\ task["poll"].pc = "off"

\* No pause ends while a poll runs, so none works with a Hive it was read with
\* before.
PollsAsNow == "resume in a poll" \notin Races

\* A waiter that may launch but for the fuses and memory.
Waits(w) == phase[w] = "waiting" /\ w \in row /\ Ready(w) /\ w \notin BACKOFF

\* A poll is asked for, or under way with w still before it.
Polled(w) ==
  asked \/ POLLING = "again" \/ reading \/ w \in list \/ task["poll"].w = w

\* A poll will be asked for.
Called ==
  \/ WATCH # "off" \/ wake \/ SCHEDULED
  \/ task["spawn"].pc \in {"mark", "watch"}
  \/ stopping.w # None /\ stopping.was \notin {"launching", "running"}

\* No room, and whoever gives some asks for a poll, or is nobody.
Filled == ~active \/ Spent \/ Cardinality(Seats) >= Cap \/ Relaunching

Heard == ~silent => \A w \in Workers : Waits(w) => Polled(w) \/ Called \/ Filled

LEMMA BoardInit == Init => Board /\ Flags
  <1> SUFFICES ASSUME Init PROVE Board /\ Flags
    OBVIOUS
  <1>1. \A t \in Tasks : task[t] = Idle
    BY DEF Init
  <1>2. task["spawn"] = Idle /\ task["restart"] = Idle /\ task["poll"] = Idle
    BY <1>1 DEF Tasks
  <1> QED
    BY <1>2 DEF Init, Board, Rows, NewOne, Restarted, Stopping, Flags, Unfiled, Idle

\* The board's part for a step that changes no record, and of a task only how
\* far it has come.
LEMMA BoardMoved ==
  ASSUME Core, Board, UNCHANGED <<phase, launched, row, done, stopping>>, list' \subseteq list,
         NEW t \in Tasks, NEW l \in Places, Moved(t, l),
         task[t].pc # "off", t = "spawn" /\ l \in Unfiled => task[t].pc \in Unfiled,
         t = "restart" => l \notin {"made", "drop"},
         t = "restart" /\ l \in {"sample", "reserve", "move"} => task[t].pc \in {"sample", "reserve", "move"}
  PROVE  Board'
  <1>1. /\ \A u \in Tasks : task'[u].w = task[u].w /\ task'[u].was = task[u].was
        /\ \A u \in Tasks : u # t => task'[u].pc = task[u].pc
        /\ task'[t].pc = l
    BY DEF Moved
  <1>2. "poll" \in Tasks /\ "spawn" \in Tasks /\ "restart" \in Tasks
    BY DEF Tasks
  <1> QED
    BY <1>1, <1>2 DEF Board, Rows, NewOne, Restarted, Stopping

LEMMA BoardEnded ==
  ASSUME Core, Slots, Board, UNCHANGED <<phase, launched, row, done, stopping>>, list' \subseteq list,
         NEW t \in Tasks, Ended(t)
  PROVE  Board'
  <1>1. /\ \A u \in Tasks : u # t => task'[u] = task[u]
        /\ task'[t].pc = "off" /\ task'[t].w = None
    BY DEF Ended
  <1>2. "poll" \in Tasks /\ "spawn" \in Tasks /\ "restart" \in Tasks
    BY DEF Tasks
  <1>3. \A w \in Workers : w # None
    BY SpawnAssumption
  <1>4. "off" \notin Unfiled
    BY DEF Unfiled
  <1>5. \A w \in Workers : w \in done => phase[w] = "retired" /\ task'["spawn"].w # w
    BY <1>1, <1>2, <1>3 DEF Board, Rows, NewOne, Restarted, Stopping
  <1>6. task'["spawn"].pc \in Unfiled =>
         task'["spawn"] = task["spawn"] /\ task'["poll"].w \in {task["poll"].w, None}
    BY <1>1, <1>2, <1>4
  <1>7. task["spawn"].pc \in Unfiled => task["spawn"].w # None
    BY <1>2, <1>4 DEF Slots
  <1>8. task'["spawn"].pc \in Unfiled =>
         LET w == task'["spawn"].w IN
           w \notin row' /\ phase'[w] # "none" /\ w \notin list' /\ task'["poll"].w # w
    BY <1>6, <1>7 DEF Board, Rows, NewOne, Restarted, Stopping
  <1>9. task'["restart"].pc # "off" => task'["restart"] = task["restart"]
    BY <1>1, <1>2
  <1> QED
    BY <1>1, <1>2, <1>5, <1>8, <1>9 DEF Board, Rows, NewOne, Restarted, Stopping

\* What the board's steps rest on.
LEMMA BoardTypes ==
  ASSUME Core, Slots
  PROVE  /\ task \in [Tasks -> TaskState] /\ phase \in [Workers -> Phases]
         /\ "poll" \in Tasks /\ "spawn" \in Tasks /\ "restart" \in Tasks
         /\ \A t \in Tasks : task[t].w \in Workers \cup {None} /\ task[t].was \in Phases
         /\ \A t \in Tasks : task[t].pc # "off" => task[t].w \in Workers
         /\ stopping.w \in Workers \cup {None} /\ stopping.was \in Phases
         /\ None \notin Workers
  BY SpawnAssumption DEF Core, Slots, TaskState, Tasks

LEMMA BoardTaskSteps ==
  ASSUME Core, Slots, Board, Sets, NEW t \in Tasks, TaskSteps(t)
  PROVE  Board'
  <1>0. /\ task \in [Tasks -> TaskState] /\ phase \in [Workers -> Phases]
        /\ "poll" \in Tasks /\ "spawn" \in Tasks /\ "restart" \in Tasks
        /\ \A u \in Tasks : task[u].w \in Workers \cup {None}
        /\ \A u \in Tasks : task[u].pc # "off" => task[u].w \in Workers
        /\ stopping.w \in Workers \cup {None}
        /\ None \notin Workers
    BY BoardTypes
  <1>1. CASE Sample(t)
    <2>1. Moved(t, "reserve")
      BY <1>0, <1>1, SampleStep DEF Sample, Places
    <2> QED
      BY <1>1, <2>1, BoardMoved DEF Sample, Unfiled, Places, records, poll, rest
  <1>2. CASE Reserve(t)
    <2>1. Moved(t, IF t = "restart" THEN "move" ELSE "made")
      BY <1>0, <1>2, SampleStep DEF Reserve, Places
    <2> QED
      BY <1>2, <2>1, BoardMoved DEF Reserve, Unfiled, Places, records, poll, rest
  <1>3. CASE Refuse(t)
    <2>1. Ended(t) /\ task[t].pc = "reserve" /\ UNCHANGED <<launched, row, done, stopping, list>>
      BY <1>0, <1>3, EndStep DEF Refuse, poll, rest
    <2>2. CASE t # "spawn"
      BY <1>3, <2>1, <2>2, BoardEnded DEF Refuse
    <2>3. CASE t = "spawn"
      <3>1. /\ \A u \in Tasks \ {"spawn"} : task'[u] = task[u]
            /\ task'["spawn"].pc = "off" /\ task'["spawn"].w = None
        BY <2>1, <2>3 DEF Ended
      <3>2. \A v \in Workers : phase'[v] = IF v = task["spawn"].w THEN "none" ELSE phase[v]
        BY <1>0, <1>3, <2>3, SetStep DEF Refuse, Phases
      <3>3. task["spawn"].w \notin row /\ task["spawn"].w \in Workers
        BY <1>0, <2>1, <2>3 DEF Board, Rows, NewOne, Restarted, Stopping, Unfiled
      <3>4. "off" \notin Unfiled
        BY DEF Unfiled
      <3> QED
        BY <1>0, <2>1, <3>1, <3>2, <3>3, <3>4 DEF Board, Rows, NewOne, Restarted, Stopping
    <2> QED
      BY <2>2, <2>3
  <1>4. CASE Throttled(t)
    <2>1. Moved(t, IF t = "spawn" THEN "file" ELSE "mark")
      BY <1>0, <1>4, GotoStep DEF Throttled, Places
    <2> QED
      BY <1>4, <2>1, BoardMoved DEF Throttled, Unfiled, Places, records, poll, rest
  <1>5. CASE Commit(t) \/ Begin(t) \/ Drop(t)
    <2>1. Ended(t)
      BY <1>0, <1>5, EndStep DEF Commit, Begin, Drop
    <2>2. UNCHANGED <<phase, launched, row, done, list, stopping>>
      BY <1>5 DEF Commit, Begin, Drop, records, poll, rest
    <2> QED
      BY <2>1, <2>2, BoardEnded
  <1>6. CASE CommitRefused(t) /\ t = "restart"
    <2>1. Ended(t)
      BY <1>0, <1>6, EndStep DEF CommitRefused
    <2> QED
      BY <1>6, <2>1, BoardEnded DEF CommitRefused, records, poll
  <1>7. \/ CommitRefused(t) /\ t # "restart"
        \/ MakeFails(t) \/ WindowTakes(t) \/ WindowRefuses(t) \/ Mark(t)
        => Board'
    <2> SUFFICES ASSUME \/ CommitRefused(t) /\ t # "restart"
                        \/ MakeFails(t) \/ WindowTakes(t) \/ WindowRefuses(t) \/ Mark(t)
                 PROVE  Board'
      OBVIOUS
    <2>1. UNCHANGED <<phase, launched, row, done, list, stopping>> /\ task[t].pc # "off"
      BY DEF CommitRefused, MakeFails, WindowTakes, WindowRefuses, Mark, records, poll, rest
    <2>2. PICK l \in {"commit", "back", "watch"} : Moved(t, l)
      BY <1>0, GotoStep DEF CommitRefused, MakeFails, WindowTakes, WindowRefuses, Mark, Places
    <2>3. l \in Places /\ l \notin Unfiled /\ l \notin {"made", "drop", "sample", "reserve", "move"}
      BY DEF Places, Unfiled
    <2> QED
      BY <2>1, <2>2, <2>3, BoardMoved
  <1>8. CASE Write(t)
    <2>1. t # "restart" /\ task[t].pc = "made" /\ UNCHANGED <<done, stopping, list>>
      BY <1>8 DEF Write, poll, rest
    <2>2. PICK l \in {"window", "back"} : Moved(t, l)
      BY <1>0, <1>8, GotoStep DEF Write, Places
    <2>3. CASE phase[task[t].w] = "waiting"
      <3>1. \A v \in Workers : phase'[v] = IF v = task[t].w THEN "launching" ELSE phase[v]
        BY <1>0, <1>8, <2>3, SetStep DEF Write, Phases
      <3>2. /\ row' = row \cup {task[t].w} /\ launched' = launched \cup {task[t].w}
            /\ task[t].w \in Workers
        BY <1>0, <1>8, <2>1, <2>3 DEF Write
      <3>3. \A u \in Tasks : task'[u].w = task[u].w /\ task'[u].was = task[u].was
        BY <2>2 DEF Moved
      <3>4. \A u \in Tasks : IF u = t THEN task'[u].pc = l ELSE task'[u].pc = task[u].pc
        BY <2>2 DEF Moved
      <3>5. task'["spawn"].pc \in Unfiled => task["spawn"].pc \in Unfiled /\ t = "poll"
        BY <1>0, <2>1, <3>4 DEF Unfiled, Tasks
      <3>6. task'["restart"].pc = task["restart"].pc
        BY <1>0, <2>1, <3>4
      <3> QED
        <4>1. Rows'
          BY <1>0, <2>1, <2>3, <3>1, <3>2, <3>3 DEF Board, Rows
        <4>2. ASSUME task'["spawn"].pc \in Unfiled
              PROVE  LET w == task["spawn"].w IN
                       w \notin row' /\ phase'[w] # "none" /\ w \notin list /\ task'["poll"].w # w
          <5>1. /\ task["spawn"].w \notin row /\ phase[task["spawn"].w] # "none"
                /\ task["spawn"].w \notin list /\ task["poll"].w # task["spawn"].w
                /\ task["spawn"].w \in Workers /\ t = "poll"
            BY <1>0, <4>2, <3>5 DEF Board, NewOne, Unfiled
          <5> QED
            BY <1>0, <3>3, <3>1, <3>2, <5>1
        <4>3. Restarted'
          BY <1>0, <2>1, <2>3, <3>1, <3>2, <3>3, <3>6 DEF Board, Restarted
        <4>4. Stopping'
          BY <1>0, <2>1, <2>3, <3>1, <3>2 DEF Board, Stopping
        <4> QED
          BY <1>0, <2>1, <2>3, <3>3, <4>1, <4>2, <4>3, <4>4 DEF Board, NewOne
    <2>4. CASE phase[task[t].w] # "waiting"
      <3>1. UNCHANGED <<phase, launched, row>>
        BY <1>8, <2>4 DEF Write
      <3> QED
        BY <2>1, <2>2, <3>1, BoardMoved DEF Places, Unfiled
    <2> QED
      BY <2>3, <2>4
  <1>9. CASE Back(t)
    <2>1. t # "restart" /\ task[t].pc = "back" /\ UNCHANGED <<done, stopping, list>>
      BY <1>9 DEF Back, poll, rest
    <2>2. Moved(t, "drop")
      BY <1>0, <1>9, GotoStep DEF Back, Places
    <2>3. /\ \A u \in Tasks : task'[u].w = task[u].w /\ task'[u].was = task[u].was
          /\ \A u \in Tasks : IF u = t THEN task'[u].pc = "drop" ELSE task'[u].pc = task[u].pc
      BY <2>2 DEF Moved
    <2>4. task'["restart"].pc = task["restart"].pc
      BY <1>0, <2>1, <2>3
    <2>5. task'["spawn"].pc \in Unfiled => task["spawn"].pc \in Unfiled /\ t = "poll"
      BY <1>0, <2>1, <2>3 DEF Unfiled, Tasks
    <2>6. CASE t = "spawn"
      <3>1. \A v \in Workers : phase'[v] = IF v = task["spawn"].w THEN "none" ELSE phase[v]
        BY <1>0, <1>9, <2>6, SetStep DEF Back, Phases
      <3>2. row' = row \ {task["spawn"].w} /\ launched' = launched \ {task["spawn"].w}
        BY <1>9, <2>6 DEF Back
      <3> QED
        BY <1>0, <2>1, <2>3, <2>4, <2>5, <2>6, <3>1, <3>2 DEF Board, Rows, NewOne, Restarted, Stopping
    <2>7. CASE t # "spawn"
      <3>1. UNCHANGED row /\ launched' \subseteq launched /\ \A v \in Workers :
              phase'[v] = IF v = task[t].w /\ Ours(v) THEN "waiting" ELSE phase[v]
        BY <1>0, <1>9, <2>7, SetStep DEF Back, Phases
      <3>2. t = "poll"
        BY <2>1, <2>7 DEF Tasks
      <3> QED
        <4>1. Rows'
          BY <1>0, <2>1, <2>3, <3>1, <3>2 DEF Board, Rows, Ours
        <4>2. ASSUME task'["spawn"].pc \in Unfiled
              PROVE  LET w == task["spawn"].w IN
                       w \notin row' /\ phase'[w] # "none" /\ w \notin list /\ task'["poll"].w # w
          <5>1. /\ task["spawn"].w \notin row /\ phase[task["spawn"].w] # "none"
                /\ task["spawn"].w \notin list /\ task["poll"].w # task["spawn"].w
                /\ task["spawn"].w \in Workers /\ t = "poll"
            BY <1>0, <4>2, <2>5 DEF Board, NewOne, Unfiled
          <5> QED
            BY <1>0, <2>3, <3>1, <5>1 DEF Ours
        <4>3. Restarted'
          BY <1>0, <2>1, <2>3, <2>4, <3>1, <3>2 DEF Board, Restarted, Ours
        <4>4. Stopping'
          BY <1>0, <2>1, <2>3, <3>1, <3>2 DEF Board, Stopping, Ours
        <4> QED
          BY <1>0, <2>1, <2>3, <4>1, <4>2, <4>3, <4>4 DEF Board, NewOne
    <2> QED
      BY <2>6, <2>7
  <1> QED
    BY <1>1, <1>2, <1>3, <1>4, <1>5, <1>6, <1>7, <1>8, <1>9 DEF TaskSteps

\* The board's part for a step that writes one record.
LEMMA BoardSet ==
  ASSUME Core, Slots, Board, UNCHANGED <<launched, row, done, list>>, NEW w \in Workers, NEW p,
         \A v \in Workers : phase'[v] = IF v = w THEN p ELSE phase[v],
         phase[w] \notin {"none", "retired"}, p # "none",
         p \notin {"waiting", "stopped"} => w \in row,
         \A u \in Tasks \ {"restart"} : task'[u] = task[u],
         \/ task'["restart"] = task["restart"]
         \/ task'["restart"].pc = "off"
         \/ task'["restart"].pc = "window" /\ task'["restart"].was = task["restart"].was
                                           /\ task["restart"].pc # "off",
         \/ stopping' = stopping
         \/ stopping'.was \notin {"launching", "running"}
         \/ stopping'.w = w /\ w \in row
  PROVE  Board'
  <1>0. /\ "poll" \in Tasks /\ "spawn" \in Tasks /\ "restart" \in Tasks
        /\ \A u \in Tasks : task[u].pc # "off" => task[u].w \in Workers
        /\ stopping.w \in Workers \cup {None}
        /\ None \notin Workers
    BY BoardTypes
  <1>1. task'["poll"] = task["poll"] /\ task'["spawn"] = task["spawn"]
    BY <1>0
  <1>2. \A v \in Workers : phase[v] # "none" => phase'[v] # "none"
    OBVIOUS
  <1>3. \A v \in Workers : phase[v] = "none" => phase'[v] = "none"
    OBVIOUS
  <1>4. Rows'
    BY <1>1 DEF Board, Rows
  <1>5. NewOne'
    <2>1. ASSUME task["spawn"].pc \in Unfiled
          PROVE  /\ task["spawn"].w \notin row /\ phase'[task["spawn"].w] # "none"
                 /\ task["spawn"].w \notin list /\ task["poll"].w # task["spawn"].w
      BY <1>0, <1>2, <2>1 DEF Board, NewOne, Unfiled
    <2> QED
      BY <1>1, <2>1 DEF NewOne
  <1>6. Restarted'
    <2>1. CASE task'["restart"] = task["restart"]
      <3>1. task["restart"].pc \in {"sample", "reserve", "move"} =>
              task["restart"].w \in row \/ phase'[task["restart"].w] = "none"
        BY <1>0, <1>3 DEF Board, Restarted
      <3> QED
        BY <2>1, <3>1 DEF Board, Restarted
    <2>2. CASE task'["restart"].pc \in {"off", "window"}
      BY <2>2 DEF Board, Restarted
    <2> QED
      BY <2>1, <2>2
  <1>7. Stopping'
    <2>1. CASE stopping' = stopping
      <3>1. stopping.was \in {"launching", "running"} =>
              stopping.w # None /\ (stopping.w \in row \/ phase'[stopping.w] = "none")
        BY <1>0, <1>3 DEF Board, Stopping
      <3> QED
        BY <2>1, <3>1 DEF Stopping
    <2>2. CASE stopping' # stopping
      BY <1>0, <2>2 DEF Stopping
    <2> QED
      BY <2>1, <2>2
  <1> QED
    BY <1>4, <1>5, <1>6, <1>7 DEF Board

LEMMA BoardTools ==
  ASSUME Core, Slots, Board, Sets, Tools
  PROVE  Board'
  <1>0. /\ task \in [Tasks -> TaskState] /\ phase \in [Workers -> Phases]
        /\ "poll" \in Tasks /\ "spawn" \in Tasks /\ "restart" \in Tasks
        /\ \A u \in Tasks : task[u].w \in Workers \cup {None} /\ task[u].was \in Phases
        /\ \A u \in Tasks : task[u].pc # "off" => task[u].w \in Workers
        /\ stopping.w \in Workers \cup {None} /\ stopping.was \in Phases
        /\ None \notin Workers
    BY BoardTypes
  <1>1. CASE File
    <2>1. /\ task["spawn"].pc = "file" /\ UNCHANGED <<phase, launched, done, stopping, list>>
          /\ row' = row \cup {task["spawn"].w}
      BY <1>1 DEF File, poll, rest
    <2>2. Moved("spawn", "mark") \/ Ended("spawn")
      BY <1>0, <1>1, GotoStep, EndStep DEF File, Places
    <2>3. /\ \A u \in Tasks \ {"spawn"} : task'[u] = task[u]
          /\ task'["spawn"].pc \notin Unfiled /\ task'["spawn"].w \in {task["spawn"].w, None}
      BY <2>2 DEF Moved, Ended, Unfiled
    <2>4. task["spawn"].w \in Workers /\ phase[task["spawn"].w] # "none"
      BY <1>0, <2>1 DEF Board, NewOne, Unfiled
    <2> QED
      BY <1>0, <2>1, <2>3, <2>4 DEF Board, Rows, NewOne, Restarted, Stopping
  <1>2. CASE FileFails
    <2>1. /\ task["spawn"].pc = "file" /\ UNCHANGED <<launched, row, done, stopping, list>>
      BY <1>2 DEF FileFails, poll
    <2>2. Ended("spawn")
      BY <1>0, <1>2, EndStep DEF FileFails
    <2>3. /\ \A u \in Tasks \ {"spawn"} : task'[u] = task[u]
          /\ task'["spawn"].pc \notin Unfiled /\ task'["spawn"].w = None
      BY <2>2 DEF Ended, Unfiled
    <2>4. task["spawn"].w \in Workers /\ task["spawn"].w \notin row
      BY <1>0, <2>1 DEF Board, NewOne, Unfiled
    <2>5. \A v \in Workers : phase'[v] = IF v = task["spawn"].w THEN "none" ELSE phase[v]
      BY <1>0, <1>2, SetStep DEF FileFails, Phases
    <2> QED
      BY <1>0, <2>1, <2>3, <2>4, <2>5 DEF Board, Rows, NewOne, Restarted, Stopping
  <1>3. CASE Rewait
    <2>1. task["restart"].pc = "rewait" /\ UNCHANGED <<launched, row, done, stopping, list>>
      BY <1>3 DEF Rewait, poll, rest
    <2>2. Ended("restart")
      BY <1>0, <1>3, EndStep DEF Rewait
    <2>3. CASE UNCHANGED phase
      BY <1>0, <2>1, <2>2, <2>3, BoardEnded
    <2>4. CASE /\ phase[task["restart"].w] = task["restart"].was
               /\ Set(task["restart"].w, "waiting")
      <3>1. \A u \in Tasks \ {"restart"} : task'[u] = task[u]
        BY <2>2 DEF Ended
      <3>2. task'["restart"].pc = "off"
        BY <2>2 DEF Ended
      <3>3. \A v \in Workers : phase'[v] = IF v = task["restart"].w THEN "waiting" ELSE phase[v]
        BY <1>0, <2>4, SetStep DEF Phases
      <3>4. phase[task["restart"].w] \in {"failed", "stopped", "running"} /\ task["restart"].w \in Workers
        BY <1>0, <2>1, <2>4 DEF Board, Restarted
      <3> QED
        BY <1>0, <2>1, <3>1, <3>2, <3>3, <3>4, BoardSet
    <2> QED
      BY <1>3, <2>3, <2>4 DEF Rewait
  <1>4. CASE Move
    <2>1. task["restart"].pc = "move" /\ UNCHANGED <<launched, row, done, stopping, list>>
      BY <1>4 DEF Move, poll, rest
    <2>2. CASE phase[task["restart"].w] = task["restart"].was
      <3>1. Moved("restart", "window")
        BY <1>0, <1>4, <2>2, GotoStep DEF Move, Places
      <3>2. /\ \A u \in Tasks \ {"restart"} : task'[u] = task[u]
            /\ task'["restart"].pc = "window" /\ task'["restart"].was = task["restart"].was
        BY <3>1 DEF Moved
      <3>3. \A v \in Workers : phase'[v] = IF v = task["restart"].w THEN "launching" ELSE phase[v]
        BY <1>0, <1>4, <2>2, SetStep DEF Move, Phases
      <3>4. /\ phase[task["restart"].w] \in {"failed", "stopped", "running"}
            /\ task["restart"].w \in Workers /\ task["restart"].w \in row
        BY <1>0, <2>1, <2>2 DEF Board, Restarted
      <3> QED
        BY <1>0, <2>1, <3>2, <3>3, <3>4, BoardSet
    <2>3. CASE phase[task["restart"].w] # task["restart"].was
      <3>1. Ended("restart") /\ UNCHANGED phase
        BY <1>0, <1>4, <2>3, EndStep DEF Move
      <3> QED
        BY <1>0, <2>1, <3>1, BoardEnded
    <2> QED
      BY <2>2, <2>3
  <1>5. CASE DropRestart
    <2>1. Moved("restart", "put")
      BY <1>0, <1>5, GotoStep DEF DropRestart, Places
    <2> QED
      BY <1>0, <1>5, <2>1, BoardMoved DEF DropRestart, Unfiled, Places, records, poll, rest
  <1>6. CASE PutBack
    <2>1. task["restart"].pc = "put" /\ UNCHANGED <<launched, row, done, stopping, list>>
      BY <1>6 DEF PutBack, poll, rest
    <2>2. Ended("restart")
      BY <1>0, <1>6, EndStep DEF PutBack
    <2>3. CASE phase[task["restart"].w] = "launching"
      <3>1. task["restart"].was \in {"failed", "stopped", "running"} /\ task["restart"].w \in Workers
        BY <1>0, <2>1 DEF Board, Restarted
      <3>2. PICK p \in {"failed", "stopped", "running"} : Set(task["restart"].w, p)
        BY <1>6, <2>3, <3>1 DEF PutBack
      <3>3. \A v \in Workers : phase'[v] = IF v = task["restart"].w THEN p ELSE phase[v]
        BY <1>0, <3>2, SetStep DEF Phases
      <3>4. /\ \A u \in Tasks \ {"restart"} : task'[u] = task[u]
            /\ task'["restart"].pc = "off"
        BY <2>2 DEF Ended
      <3>5. task["restart"].w \in row
        BY <2>3, <3>1 DEF Board, Rows
      <3> QED
        BY <1>0, <2>1, <2>3, <3>1, <3>3, <3>4, <3>5, BoardSet
    <2>4. CASE phase[task["restart"].w] # "launching"
      <3>1. UNCHANGED phase
        BY <1>6, <2>4 DEF PutBack
      <3> QED
        BY <1>0, <2>1, <2>2, <3>1, BoardEnded
    <2> QED
      BY <2>3, <2>4
  <1>7. CASE Signalled
    <2>1. UNCHANGED <<phase, launched, row, done, task, list>> /\ stopping' = [w |-> None, was |-> "none"]
      BY <1>7 DEF Signalled, records, poll
    <2> QED
      BY <2>1 DEF Board, Rows, NewOne, Restarted, Stopping
  <1>8. CASE SignalRefused
    <2>1. /\ UNCHANGED <<launched, row, done, task, list>> /\ stopping' = [w |-> None, was |-> "none"]
          /\ stopping.was \in {"launching", "running"} /\ stopping.w \in Workers
      BY <1>0, <1>8 DEF SignalRefused, poll
    <2>2. CASE phase[stopping.w] = "stopped"
      <3>1. \A v \in Workers : phase'[v] = IF v = stopping.w THEN stopping.was ELSE phase[v]
        BY <1>0, <1>8, <2>2, SetStep DEF SignalRefused
      <3>2. stopping.w \in row
        BY <2>1, <2>2 DEF Board, Stopping
      <3> QED
        BY <1>0, <2>1, <2>2, <3>1, <3>2, BoardSet
    <2>3. CASE phase[stopping.w] # "stopped"
      <3>1. UNCHANGED phase
        BY <1>8, <2>3 DEF SignalRefused
      <3> QED
        BY <2>1, <3>1 DEF Board, Rows, NewOne, Restarted, Stopping
    <2> QED
      BY <2>2, <2>3
  <1>9. ASSUME NEW w \in Workers, SpawnWorker(w)
        PROVE  Board'
    <2>1. /\ phase[w] = "none" /\ UNCHANGED <<launched, row, done, stopping, list>>
          /\ stopping.w # w /\ w \notin list /\ \A t \in Tasks : task[t].w # w
      BY <1>9 DEF SpawnWorker, poll, rest
    <2>2. \A v \in Workers : phase'[v] = IF v = w THEN "waiting" ELSE phase[v]
      BY <1>0, <1>9, SetStep DEF SpawnWorker, Phases
    <2>3. /\ \A u \in Tasks \ {"spawn"} : task'[u] = task[u]
          /\ task'["spawn"].w = w
      BY <1>0, <1>9 DEF SpawnWorker, Idle
    <2>4. w \notin row /\ w \notin done
      BY <2>1 DEF Board, Rows
    <2> QED
      BY <1>0, <2>1, <2>2, <2>3, <2>4 DEF Board, Rows, NewOne, Restarted, Stopping
  <1>10. ASSUME NEW w \in Workers, RestartWorker(w)
         PROVE  Board'
    <2>1. /\ phase[w] \in {"failed", "stopped", "running"}
          /\ UNCHANGED <<phase, launched, row, done, stopping, list>>
      BY <1>10 DEF RestartWorker, records, poll
    <2>2. /\ \A u \in Tasks \ {"restart"} : task'[u] = task[u]
          /\ task'["restart"].w = w /\ task'["restart"].was = phase[w]
          /\ task'["restart"].pc = IF w \in launched THEN "sample" ELSE "rewait"
      BY <1>0, <1>10 DEF RestartWorker, Idle
    <2>3. w \in launched => w \in row
      BY DEF Board, Rows
    <2> QED
      BY <1>0, <2>1, <2>2, <2>3 DEF Board, Rows, NewOne, Restarted, Stopping
  <1>11. ASSUME NEW w \in Workers, StopWorker(w)
         PROVE  Board'
    <2>1. /\ phase[w] \in {"waiting", "launching", "running", "failed"}
          /\ UNCHANGED <<launched, row, done, task, list>>
          /\ stopping' = [w |-> w, was |-> phase[w]]
      BY <1>11 DEF StopWorker, poll
    <2>2. \A v \in Workers : phase'[v] = IF v = w THEN "stopped" ELSE phase[v]
      BY <1>0, <1>11, SetStep DEF StopWorker, Phases
    <2> QED
      <3>1. phase[w] \in {"launching", "running"} => w \in row
        BY DEF Board, Rows
      <3> QED
        BY <1>0, <2>1, <2>2, <3>1, BoardSet
  <1> QED
    BY <1>1, <1>2, <1>3, <1>4, <1>5, <1>6, <1>7, <1>8, <1>9, <1>10, <1>11 DEF Tools

LEMMA OnlyOne ==
  ASSUME task \in [Tasks -> TaskState], NEW t \in Tasks, TaskSteps(t)
  PROVE  \A u \in Tasks \ {t} : task'[u] = task[u]
  <1>1. CASE Sample(t) \/ Reserve(t) \/ Refuse(t) \/ Throttled(t)
    BY <1>1 DEF Sample, Reserve, Refuse, Throttled, Goto, End
  <1>2. CASE Commit(t) \/ CommitRefused(t) \/ Write(t)
    BY <1>2 DEF Commit, CommitRefused, Write, Goto, End
  <1>3. CASE MakeFails(t) \/ WindowTakes(t) \/ WindowRefuses(t)
    BY <1>3 DEF MakeFails, WindowTakes, WindowRefuses, Goto
  <1>4. CASE Back(t) \/ Drop(t) \/ Mark(t) \/ Begin(t)
    BY <1>4 DEF Back, Drop, Mark, Begin, Goto, End
  <1> QED
    BY <1>1, <1>2, <1>3, <1>4 DEF TaskSteps

LEMMA BoardStep ==
  ASSUME Core, Slots, Board, Sets, [Next]_vars
  PROVE  Board'
  <1>0. /\ task \in [Tasks -> TaskState] /\ phase \in [Workers -> Phases]
        /\ "poll" \in Tasks /\ "spawn" \in Tasks /\ "restart" \in Tasks
        /\ \A u \in Tasks : task[u].w \in Workers \cup {None} /\ task[u].was \in Phases
        /\ \A u \in Tasks : task[u].pc # "off" => task[u].w \in Workers
        /\ None \notin Workers
    BY BoardTypes
  <1>1. ASSUME NEW w \in Workers, Try(w)
        PROVE  Board'
    <2>1. /\ UNCHANGED <<phase, launched, row, done, stopping>> /\ list' = list \ {w}
          /\ w \in list /\ \A u \in Tasks \ {"poll"} : task'[u] = task[u]
          /\ task'["poll"].w \in {task["poll"].w, w}
      BY <1>0, <1>1 DEF Try, records, rest, Idle
    <2>2. task'["spawn"] = task["spawn"] /\ task'["restart"] = task["restart"]
      BY <1>0, <2>1
    <2>3. Rows'
      BY <2>1, <2>2 DEF Board, Rows
    <2>4. NewOne'
      BY <2>1, <2>2 DEF Board, NewOne
    <2>5. Restarted' /\ Stopping'
      BY <2>1, <2>2 DEF Board, Restarted, Stopping
    <2> QED
      BY <2>3, <2>4, <2>5 DEF Board
  <1>2. CASE Read
    <2>1. UNCHANGED <<phase, launched, row, done, stopping, task>> /\ list' \subseteq row
      BY <1>2 DEF Read, records, rest
    <2> QED
      BY <2>1 DEF Board, Rows, NewOne, Restarted, Stopping
  <1>3. ASSUME NEW w \in Workers, AgentStarts(w) \/ AgentFails(w)
        PROVE  Board'
    <2>1. /\ UNCHANGED <<launched, row, done, stopping, task, list>>
          /\ phase[w] \in {"launching", "running"}
      BY <1>3 DEF AgentStarts, AgentFails, poll, rest
    <2>2. PICK p \in {"running", "failed"} : Set(w, p)
      BY <1>3 DEF AgentStarts, AgentFails
    <2>3. \A v \in Workers : phase'[v] = IF v = w THEN p ELSE phase[v]
      BY <1>0, <2>2, SetStep DEF Phases
    <2>4. w \in row
      BY <2>1 DEF Board, Rows
    <2> QED
      BY <2>1, <2>3, <2>4, BoardSet
  <1>4. ASSUME NEW w \in Workers, Lands(w)
        PROVE  Board'
    <2>1. /\ UNCHANGED <<launched, row, stopping, task, list>> /\ done' = done \cup {w}
          /\ phase[w] = "running" /\ \A t \in Tasks : task[t].w # w
      BY <1>4 DEF Lands, poll, rest
    <2>2. \A v \in Workers : phase'[v] = IF v = w THEN "retired" ELSE phase[v]
      BY <1>0, <1>4, SetStep DEF Lands, Phases
    <2>3. \A v \in Workers : phase[v] = "none" <=> phase'[v] = "none"
      BY <2>1, <2>2
    <2>4. Rows'
      BY <1>0, <2>1, <2>2 DEF Board, Rows
    <2>5. task["spawn"].pc \in Unfiled =>
            /\ task["spawn"].w \notin row /\ phase'[task["spawn"].w] # "none"
            /\ task["spawn"].w \notin list /\ task["poll"].w # task["spawn"].w
      BY <1>0, <2>3 DEF Board, NewOne, Unfiled
    <2>6. NewOne'
      BY <2>1, <2>5 DEF NewOne
    <2>7. Restarted'
      BY <1>0, <2>1, <2>3 DEF Board, Restarted
    <2>8. Stopping'
      <3>1. stopping.w \in Workers \cup {None}
        BY BoardTypes
      <3> QED
        BY <2>1, <2>3, <3>1 DEF Board, Stopping
    <2> QED
      BY <2>4, <2>6, <2>7, <2>8 DEF Board
  <1>5. CASE Restart
    <2>1. /\ UNCHANGED <<phase, launched, row, done>> /\ \A u \in Tasks : task'[u] = Idle
          /\ stopping' = [w |-> None, was |-> "none"]
      BY <1>5 DEF Restart, records
    <2>2. task'["spawn"] = Idle /\ task'["restart"] = Idle
      BY <1>0, <2>1
    <2> QED
      BY <1>0, <2>1, <2>2 DEF Board, Rows, NewOne, Restarted, Stopping, Idle, Unfiled
  <1>6. CASE UNCHANGED <<phase, launched, row, done, stopping, task, list>>
    BY <1>6 DEF Board, Rows, NewOne, Restarted, Stopping
  <1>7. ASSUME \/ Enter \/ PollEnds \/ SeesOpen \/ WatchEnds \/ Wake \/ Pause \/ Resume \/ Trip
               \/ BreakerEnds \/ ScheduledPoll \/ Pressure \/ Eases \/ HourPasses
               \/ (\E w \in Workers : BackoffEnds(w)) \/ (\E t \in Tasks : Expire(t))
               \/ UNCHANGED vars
        PROVE  UNCHANGED <<phase, launched, row, done, stopping, task, list>>
    <2>1. CASE Enter \/ PollEnds \/ SeesOpen \/ WatchEnds \/ Wake
      BY <2>1 DEF Enter, PollEnds, SeesOpen, WatchEnds, Wake, records, poll, rest
    <2>2. CASE Pause \/ Resume \/ Trip \/ BreakerEnds \/ ScheduledPoll
      BY <2>2 DEF Pause, Resume, Trip, BreakerEnds, ScheduledPoll, records, poll, rest
    <2>3. CASE Pressure \/ Eases \/ HourPasses
      BY <2>3 DEF Pressure, Eases, HourPasses, records, poll, rest
    <2>4. CASE (\E w \in Workers : BackoffEnds(w)) \/ (\E t \in Tasks : Expire(t))
      BY <2>4 DEF BackoffEnds, Expire, records, poll
    <2>5. CASE UNCHANGED vars
      BY <2>5 DEF vars, records, poll, rest
    <2> QED
      BY <1>7, <2>1, <2>2, <2>3, <2>4, <2>5
  <1> QED
    BY <1>1, <1>2, <1>3, <1>4, <1>5, <1>6, <1>7, BoardTaskSteps, BoardTools DEF Next, Polls, World

\* Only poll steps take or leave a poll, and while it's off nothing of it is left.
\* The poll's task is given its Hive when it begins, and keeps it to its end.
PollKeepsHive ==
  ~task'["poll"].hive => ~task["poll"].hive /\ task'["poll"].pc # "off"

LEMMA PollHive ==
  ASSUME Core, Flags, NEW t \in Tasks, TaskSteps(t)
  PROVE  PollKeepsHive
  <1>0. task \in [Tasks -> TaskState] /\ "poll" \in Tasks
    BY DEF Core, Tasks
  <1>1. ASSUME NEW l \in Places \ {"off"}, Moved(t, l)
        PROVE  PollKeepsHive
    BY <1>0, <1>1 DEF PollKeepsHive, Moved, Flags
  <1>2. ASSUME Ended(t)
        PROVE  PollKeepsHive
    BY <1>0, <1>2 DEF PollKeepsHive, Ended, Flags
  <1>3. CASE Sample(t)
    <2>1. Moved(t, "reserve")
      BY <1>0, <1>3, SampleStep DEF Sample, Places
    <2> QED
      BY <1>1, <2>1 DEF Places
  <1>4. CASE Reserve(t)
    <2>1. Moved(t, IF t = "restart" THEN "move" ELSE "made")
      BY <1>0, <1>4, SampleStep DEF Reserve, Places
    <2> QED
      BY <1>1, <2>1 DEF Places
  <1>5. CASE Refuse(t) \/ Commit(t) \/ Drop(t) \/ Begin(t)
    <2>1. End(t)
      BY <1>5 DEF Refuse, Commit, Drop, Begin
    <2> QED
      BY <1>0, <1>2, <2>1, EndStep
  <1>6. CASE CommitRefused(t)
    <2>1. End(t) \/ Goto(t, "back")
      BY <1>6 DEF CommitRefused
    <2> QED
      BY <1>0, <1>1, <1>2, <2>1, EndStep, GotoStep DEF Places
  <1>7. CASE \/ Throttled(t) \/ Write(t) \/ MakeFails(t) \/ WindowTakes(t) \/ WindowRefuses(t)
             \/ Back(t) \/ Mark(t)
    <2>1. \E l \in {"file", "mark", "window", "back", "commit", "drop", "watch"} : Goto(t, l)
      BY <1>7 DEF Throttled, Write, MakeFails, WindowTakes, WindowRefuses, Back, Mark
    <2> QED
      BY <1>0, <1>1, <2>1, GotoStep DEF Places
  <1> QED
    BY <1>3, <1>4, <1>5, <1>6, <1>7 DEF TaskSteps

LEMMA FlagsStep ==
  ASSUME PollsAsNow, Core, Slots, Words, Flags, [Next]_vars
  PROVE  Flags'
  <1>0. task \in [Tasks -> TaskState] /\ "poll" \in Tasks
    BY BoardTypes
  <1>1. CASE Enter \/ Read \/ PollEnds
    BY <1>1 DEF Enter, Read, PollEnds, Flags, records, limits, poll, Again
  <1>2. CASE Resume
    BY <1>2 DEF Resume, Flags, PollsAsNow, poll
  <1>3. CASE Pause \/ Trip \/ BreakerEnds \/ ScheduledPoll
    BY <1>3 DEF Pause, Trip, BreakerEnds, ScheduledPoll, Flags, poll
  <1>4. ASSUME NEW w \in Workers, Try(w)
        PROVE  Flags'
    <2>1. task'["poll"] = task["poll"] \/ (task'["poll"].pc = "sample" /\ task'["poll"].hive = seen)
      BY <1>0, <1>4 DEF Try, Idle
    <2> QED
      BY <1>4, <2>1 DEF Try, Flags, limits
  <1>5. CASE Restart
    BY <1>0, <1>5 DEF Restart, Flags, Idle
  <1>6. ASSUME UNCHANGED <<limits, poll>>, POLLING = "off" => task'["poll"].pc = "off",
               PollKeepsHive
        PROVE  Flags'
    BY <1>6 DEF Flags, limits, poll, PollKeepsHive
  <1>7. ASSUME NEW t \in Tasks, TaskSteps(t)
        PROVE  Flags'
    <2>1. UNCHANGED <<limits, poll>>
      <3>1. CASE Sample(t) \/ Reserve(t) \/ Refuse(t) \/ Throttled(t) \/ Write(t)
        BY <3>1 DEF Sample, Reserve, Refuse, Throttled, Write
      <3>2. CASE Commit(t) \/ CommitRefused(t) \/ Drop(t)
        BY <3>2 DEF Commit, CommitRefused, Drop
      <3>3. CASE MakeFails(t) \/ WindowTakes(t) \/ WindowRefuses(t) \/ Back(t) \/ Mark(t) \/ Begin(t)
        BY <3>3 DEF MakeFails, WindowTakes, WindowRefuses, Back, Mark, Begin
      <3> QED
        BY <1>7, <3>1, <3>2, <3>3 DEF TaskSteps
    <2>2. task[t].pc # "off"
      <3>1. CASE Sample(t) \/ Reserve(t) \/ Refuse(t) \/ Throttled(t) \/ Write(t)
        BY <3>1 DEF Sample, Reserve, Refuse, Throttled, Write
      <3>2. CASE Commit(t) \/ CommitRefused(t) \/ Drop(t)
        BY <3>2 DEF Commit, CommitRefused, Drop
      <3>3. CASE MakeFails(t) \/ WindowTakes(t) \/ WindowRefuses(t) \/ Back(t) \/ Mark(t) \/ Begin(t)
        BY <3>3 DEF MakeFails, WindowTakes, WindowRefuses, Back, Mark, Begin
      <3> QED
        BY <1>7, <3>1, <3>2, <3>3 DEF TaskSteps
    <2>3. \A u \in Tasks \ {t} : task'[u] = task[u]
      BY <1>0, <1>7, OnlyOne
    <2>4. POLLING = "off" => task'["poll"].pc = "off"
      BY <1>0, <2>2, <2>3 DEF Flags
    <2> QED
      BY <1>6, <1>7, <2>1, <2>4, PollHive
  <1>8. ASSUME Tools
        PROVE  Flags'
    <2>1. UNCHANGED <<limits, poll>> /\ task'["poll"] = task["poll"]
      <3>1. CASE File \/ FileFails \/ Rewait
        BY <1>0, <3>1 DEF File, FileFails, Rewait, Goto, End
      <3>2. CASE Move \/ DropRestart \/ PutBack
        BY <1>0, <3>2 DEF Move, DropRestart, PutBack, Goto, End
      <3>3. CASE Signalled \/ SignalRefused
        BY <3>3 DEF Signalled, SignalRefused
      <3>4. CASE \E w \in Workers : SpawnWorker(w) \/ RestartWorker(w) \/ StopWorker(w)
        BY <1>0, <3>4 DEF SpawnWorker, RestartWorker, StopWorker
      <3> QED
        BY <1>8, <3>1, <3>2, <3>3, <3>4 DEF Tools
    <2> QED
      BY <1>6, <2>1 DEF Flags, PollKeepsHive
  <1>9. ASSUME UNCHANGED <<limits, poll, task>>
        PROVE  Flags'
    BY <1>9 DEF Flags, limits, poll
  <1>10. ASSUME \/ SeesOpen \/ WatchEnds \/ Wake \/ HourPasses
                \/ (\E w \in Workers : AgentStarts(w) \/ AgentFails(w) \/ Lands(w) \/ BackoffEnds(w))
                \/ (\E t \in Tasks : Expire(t)) \/ UNCHANGED vars
         PROVE  UNCHANGED <<limits, poll, task>>
    <2>1. CASE SeesOpen \/ WatchEnds \/ Wake \/ HourPasses
      BY <2>1 DEF SeesOpen, WatchEnds, Wake, HourPasses
    <2>2. CASE \E w \in Workers : AgentStarts(w) \/ AgentFails(w) \/ Lands(w) \/ BackoffEnds(w)
      BY <2>2 DEF AgentStarts, AgentFails, Lands, BackoffEnds
    <2>3. CASE (\E t \in Tasks : Expire(t)) \/ UNCHANGED vars
      BY <2>3 DEF Expire, vars
    <2> QED
      BY <1>10, <2>1, <2>2, <2>3
  <1>11. CASE Pressure \/ Eases
    BY <1>11 DEF Pressure, Eases, Flags, poll
  <1> QED
    BY <1>1, <1>2, <1>3, <1>4, <1>5, <1>7, <1>8, <1>9, <1>10, <1>11 DEF Next, Polls, World

(* A step that asks for no poll, and gives no room that nobody polls for.   *)
Quietly(t) ==
  \/ Sample(t) \/ Reserve(t) \/ Refuse(t) \/ Throttled(t) \/ Write(t) \/ MakeFails(t)
  \/ Mark(t) \/ Begin(t)
  \/ Commit(t) /\ t # "restart" /\ task[t].w \in live

Quiet ==
  \/ \E t \in Tasks : Quietly(t)
  \/ Move /\ phase[task["restart"].w] = task["restart"].was
  \/ Rewait /\ UNCHANGED phase
  \/ SignalRefused
  \/ \E w \in Workers :
       SpawnWorker(w) \/ RestartWorker(w) \/ StopWorker(w) \/ Try(w) \/ AgentStarts(w)
  \/ Enter \/ Read \/ PollEnds \/ SeesOpen \/ WatchEnds
  \/ Pause \/ Trip \/ BreakerEnds \/ Pressure \/ Eases
  \/ UNCHANGED vars

LEMMA QuietStep ==
  ASSUME [Next]_vars, ~asked', ~silent'
  PROVE  Quiet /\ (Read \/ ~silent) /\ (Enter \/ ~asked)
  <1>1. ASSUME NEW t \in Tasks, TaskSteps(t)
        PROVE  Quietly(t) /\ ~silent /\ ~asked
    <2>1. CASE Sample(t) \/ Reserve(t) \/ Refuse(t) \/ Throttled(t) \/ Write(t)
      BY <2>1 DEF Quietly, Sample, Reserve, Refuse, Throttled, Write
    <2>2. CASE MakeFails(t) \/ Mark(t) \/ Begin(t)
      BY <2>2 DEF Quietly, MakeFails, Mark, Begin
    <2>3. CASE Commit(t)
      BY <2>3 DEF Quietly, Commit
    <2>4. ~CommitRefused(t) /\ ~WindowTakes(t) /\ ~WindowRefuses(t) /\ ~Back(t) /\ ~Drop(t)
      BY DEF CommitRefused, WindowTakes, WindowRefuses, Back, Drop
    <2> QED
      BY <1>1, <2>1, <2>2, <2>3, <2>4 DEF TaskSteps
  <1>2. ASSUME Tools
        PROVE  Quiet /\ ~silent /\ ~asked
    <2>1. ~File /\ ~FileFails /\ ~DropRestart /\ ~PutBack /\ ~Signalled
      BY DEF File, FileFails, DropRestart, PutBack, Signalled
    <2>2. CASE Rewait
      BY <2>2 DEF Quiet, Rewait
    <2>3. CASE Move
      BY <2>3 DEF Quiet, Move
    <2>4. CASE SignalRefused
      BY <2>4 DEF Quiet, SignalRefused
    <2>5. ASSUME NEW w \in Workers, SpawnWorker(w) \/ RestartWorker(w) \/ StopWorker(w)
          PROVE  Quiet /\ ~silent /\ ~asked
      <3>1. ~silent /\ ~asked
        BY <2>5 DEF SpawnWorker, RestartWorker, StopWorker
      <3>2. Quiet
        BY <2>5 DEF Quiet
      <3> QED
        BY <3>1, <3>2
    <2> QED
      BY <1>2, <2>1, <2>2, <2>3, <2>4, <2>5 DEF Tools
  <1>3. CASE Enter \/ Read \/ PollEnds
    BY <1>3 DEF Quiet, Enter, Read, PollEnds
  <1>4. ASSUME NEW w \in Workers, Try(w) \/ AgentStarts(w)
        PROVE  Quiet /\ ~silent /\ ~asked
    <2>1. ~silent /\ ~asked
      BY <1>4 DEF Try, AgentStarts
    <2>2. Quiet
      BY <1>4 DEF Quiet
    <2> QED
      BY <2>1, <2>2
  <1>5. CASE SeesOpen \/ WatchEnds
    BY <1>5 DEF Quiet, SeesOpen, WatchEnds
  <1>6. CASE Pause \/ Trip \/ BreakerEnds \/ Pressure \/ Eases
    BY <1>6 DEF Quiet, Pause, Trip, BreakerEnds, Pressure, Eases
  <1>7. CASE UNCHANGED vars
    BY <1>7 DEF Quiet, vars
  <1>8. ~Wake /\ ~Resume /\ ~ScheduledPoll /\ ~HourPasses /\ ~Restart
    BY DEF Wake, Resume, ScheduledPoll, HourPasses, Restart
  <1>9. \A w \in Workers : ~AgentFails(w) /\ ~Lands(w) /\ ~BackoffEnds(w)
    BY DEF AgentFails, Lands, BackoffEnds
  <1>10. \A t \in Tasks : ~Expire(t)
    BY DEF Expire
  <1>11. (\E t \in Tasks : TaskSteps(t)) => Quiet /\ ~silent /\ ~asked
    BY <1>1 DEF Quiet
  <1> QED
    BY <1>2, <1>3, <1>4, <1>5, <1>6, <1>7, <1>8, <1>9, <1>10, <1>11 DEF Next, Polls, World

\* What a quiet step does to the records and the board: no worker begins to
\* wait there, and none is done.
LEMMA QuietRecords ==
  ASSUME Core, Slots, Board, Quiet
  PROVE  /\ UNCHANGED <<done, BACKOFF>> /\ row \subseteq row'
         /\ \A w \in Workers : phase'[w] = "waiting" /\ w \in row' => phase[w] = "waiting" /\ w \in row
  <1>0. /\ task \in [Tasks -> TaskState] /\ phase \in [Workers -> Phases]
        /\ "poll" \in Tasks /\ "spawn" \in Tasks /\ "restart" \in Tasks
        /\ \A u \in Tasks : task[u].w \in Workers \cup {None}
        /\ \A u \in Tasks : task[u].pc # "off" => task[u].w \in Workers
        /\ stopping.w \in Workers \cup {None} /\ stopping.was \in Phases
        /\ None \notin Workers
    BY BoardTypes
  <1> DEFINE Said ==
        /\ UNCHANGED <<done, BACKOFF>> /\ row \subseteq row'
        /\ \A w \in Workers : phase'[w] = "waiting" /\ w \in row' => phase[w] = "waiting" /\ w \in row
  <1>1. ASSUME NEW t \in Tasks, Quietly(t)
        PROVE  Said
    <2>1. CASE Refuse(t)
      <3>1. UNCHANGED <<done, BACKOFF, row>>
        BY <2>1 DEF Refuse, rest
      <3>2. \A v \in Workers : phase'[v] = phase[v] \/ phase'[v] = "none"
        BY <1>0, <2>1, SetStep DEF Refuse, Phases
      <3> QED
        BY <3>1, <3>2
    <2>2. CASE Write(t)
      <3>1. /\ UNCHANGED <<done, BACKOFF>>
            /\ \/ UNCHANGED <<row, phase>>
               \/ row' = row \cup {task[t].w} /\ Set(task[t].w, "launching")
        BY <2>2 DEF Write, rest
      <3>2. CASE UNCHANGED <<row, phase>>
        BY <3>1, <3>2
      <3>3. CASE row' = row \cup {task[t].w} /\ Set(task[t].w, "launching")
        <4>1. \A v \in Workers : phase'[v] = IF v = task[t].w THEN "launching" ELSE phase[v]
          BY <1>0, <3>3, SetStep DEF Phases
        <4> QED
          BY <3>1, <3>3, <4>1
      <3> QED
        BY <3>1, <3>2, <3>3
    <2>3. CASE Sample(t) \/ Reserve(t) \/ Throttled(t)
      BY <2>3 DEF Sample, Reserve, Throttled, records, rest
    <2>4. CASE MakeFails(t) \/ Mark(t) \/ Begin(t) \/ Commit(t)
      BY <2>4 DEF MakeFails, Mark, Begin, Commit, records, rest
    <2> QED
      BY <1>1, <2>1, <2>2, <2>3, <2>4 DEF Quietly
  <1>2. CASE Move
    <2>1. UNCHANGED <<done, BACKOFF, row>> /\ (UNCHANGED phase \/ Set(task["restart"].w, "launching"))
      BY <1>2 DEF Move, rest
    <2>2. \A v \in Workers : phase'[v] = phase[v] \/ phase'[v] = "launching"
      BY <1>0, <2>1, SetStep DEF Phases
    <2> QED
      BY <2>1, <2>2
  <1>3. CASE Rewait /\ UNCHANGED phase
    BY <1>3 DEF Rewait, rest
  <1>4. CASE SignalRefused
    <2>1. /\ UNCHANGED <<done, BACKOFF, row>> /\ (UNCHANGED phase \/ Set(stopping.w, stopping.was))
          /\ stopping.was \in {"launching", "running"}
      BY <1>4 DEF SignalRefused
    <2>2. \A v \in Workers : phase'[v] = phase[v] \/ phase'[v] \in {"launching", "running"}
      BY <1>0, <2>1, SetStep
    <2> QED
      BY <2>1, <2>2
  <1>5. ASSUME NEW w \in Workers, SpawnWorker(w)
        PROVE  Said
    <2>1. UNCHANGED <<done, BACKOFF, row>> /\ phase[w] = "none"
      BY <1>5 DEF SpawnWorker, rest
    <2>2. \A v \in Workers : phase'[v] = IF v = w THEN "waiting" ELSE phase[v]
      BY <1>0, <1>5, SetStep DEF SpawnWorker, Phases
    <2>3. w \notin row
      BY <2>1 DEF Board, Rows
    <2> QED
      BY <2>1, <2>2, <2>3
  <1>6. ASSUME NEW w \in Workers, StopWorker(w) \/ AgentStarts(w)
        PROVE  Said
    <2>1. UNCHANGED <<done, BACKOFF, row>> /\ (Set(w, "stopped") \/ Set(w, "running"))
      BY <1>6 DEF StopWorker, AgentStarts, rest
    <2>2. \A v \in Workers : phase'[v] = phase[v] \/ phase'[v] \in {"stopped", "running"}
      BY <1>0, <2>1, SetStep DEF Phases
    <2> QED
      BY <2>1, <2>2
  <1>7. CASE \E w \in Workers : RestartWorker(w) \/ Try(w)
    BY <1>7 DEF RestartWorker, Try, records, rest
  <1>8. CASE Enter \/ Read \/ PollEnds \/ SeesOpen \/ WatchEnds
    BY <1>8 DEF Enter, Read, PollEnds, SeesOpen, WatchEnds, records, rest
  <1>9. CASE Pause \/ Trip \/ BreakerEnds \/ Pressure \/ Eases
    BY <1>9 DEF Pause, Trip, BreakerEnds, Pressure, Eases, records, rest
  <1>10. CASE UNCHANGED vars
    BY <1>10 DEF vars, records, rest
  <1> QED
    BY <1>1, <1>2, <1>3, <1>4, <1>5, <1>6, <1>7, <1>8, <1>9, <1>10 DEF Quiet

LEMMA WaitedBefore ==
  ASSUME Core, Slots, Board, Quiet, NEW w \in Workers, Waits(w)'
  PROVE  Waits(w)
  <1>1. /\ UNCHANGED <<done, BACKOFF>> /\ row \subseteq row'
        /\ phase[w] = "waiting" /\ w \in row
    BY QuietRecords DEF Waits
  <1>2. \A d \in Workers : d \notin row => phase[d] # "failed"
    BY DEF Board, Rows
  <1>3. Deps[w] \subseteq Workers
    BY SpawnAssumption
  <1>4. Ready(w)
    <2>1. \A d \in Deps[w] : d \in done \/ d \notin row'
      BY <1>1 DEF Waits, Ready
    <2> QED
      BY <1>1, <1>2, <1>3, <2>1 DEF Ready
  <1> QED
    BY <1>1, <1>4 DEF Waits

\* A quiet step takes no slot back but a committed one.
LEMMA QuietBook ==
  ASSUME Core, Slots, Quiet
  PROVE  \/ pending \subseteq pending' /\ UNCHANGED spawns
         \/ \E t \in Tasks : Commit(t) /\ t # "restart" /\ task[t].w \in live
  <1>1. ASSUME NEW t \in Tasks, Quietly(t)
        PROVE  \/ pending \subseteq pending' /\ UNCHANGED spawns
               \/ Commit(t) /\ t # "restart" /\ task[t].w \in live
    <2>1. CASE Sample(t) \/ Reserve(t) \/ Refuse(t) \/ Throttled(t) \/ Write(t)
      BY <2>1 DEF Sample, Reserve, Refuse, Throttled, Write, book
    <2>2. CASE MakeFails(t) \/ Mark(t) \/ Begin(t)
      BY <2>2 DEF MakeFails, Mark, Begin, book
    <2> QED
      BY <1>1, <2>1, <2>2 DEF Quietly
  <1>2. CASE Move /\ phase[task["restart"].w] = task["restart"].was
    BY <1>2 DEF Move
  <1>3. CASE Rewait \/ SignalRefused \/ Enter \/ Read \/ PollEnds \/ SeesOpen \/ WatchEnds
    BY <1>3 DEF Rewait, SignalRefused, Enter, Read, PollEnds, SeesOpen, WatchEnds, book
  <1>4. CASE \E w \in Workers :
               SpawnWorker(w) \/ RestartWorker(w) \/ StopWorker(w) \/ Try(w) \/ AgentStarts(w)
    BY <1>4 DEF SpawnWorker, RestartWorker, StopWorker, Try, AgentStarts, book
  <1>5. CASE Pause \/ Trip \/ BreakerEnds \/ Pressure \/ Eases \/ UNCHANGED vars
    BY <1>5 DEF Pause, Trip, BreakerEnds, Pressure, Eases, vars, book
  <1> QED
    BY <1>1, <1>2, <1>3, <1>4, <1>5 DEF Quiet

\* Live workers stay live in a quiet step, but for one that a stop holds; a
\* held one comes back.
LEMMA QuietLive ==
  ASSUME Core, Slots, Board, Quiet, NEW w \in live \cup Held
  PROVE  w \in live' \cup Held'
  <1>0. /\ task \in [Tasks -> TaskState] /\ phase \in [Workers -> Phases]
        /\ "poll" \in Tasks /\ "spawn" \in Tasks /\ "restart" \in Tasks
        /\ \A u \in Tasks : task[u].w \in Workers \cup {None}
        /\ \A u \in Tasks : task[u].pc # "off" => task[u].w \in Workers
        /\ stopping.w \in Workers \cup {None} /\ stopping.was \in Phases
        /\ None \notin Workers
    BY BoardTypes
  <1>1. /\ w \in Workers
        /\ \/ phase[w] \in {"launching", "running"}
           \/ /\ phase[w] = "stopped" /\ w = stopping.w
              /\ stopping.was \in {"launching", "running"} /\ w \in row
    BY <1>0 DEF live, Held, Board, Stopping
  <1>2. w \in row
    BY <1>1 DEF Board, Rows
  <1>3. ASSUME phase'[w] = phase[w], UNCHANGED stopping
        PROVE  w \in live' \cup Held'
    BY <1>1, <1>3 DEF live, Held
  <1>4. ASSUME phase'[w] \in {"launching", "running"}
        PROVE  w \in live' \cup Held'
    BY <1>1, <1>4 DEF live
  <1>5. ASSUME NEW t \in Tasks, Quietly(t)
        PROVE  w \in live' \cup Held'
    <2>1. CASE Refuse(t)
      <3>1. task[t].pc = "reserve" /\ UNCHANGED stopping
        BY <2>1 DEF Refuse, rest
      <3>2. CASE t = "spawn"
        <4>1. task["spawn"].w # w
          BY <1>2, <3>1, <3>2 DEF Board, NewOne, Unfiled
        <4>2. phase'[w] = phase[w]
          BY <1>0, <1>1, <2>1, <3>2, <4>1, SetStep DEF Refuse, Phases
        <4> QED
          BY <1>3, <3>1, <4>2
      <3>3. CASE t # "spawn"
        BY <1>3, <2>1, <3>1, <3>3 DEF Refuse
      <3> QED
        BY <3>2, <3>3
    <2>2. CASE Write(t)
      <3>1. UNCHANGED stopping /\ (UNCHANGED phase \/ Set(task[t].w, "launching"))
        BY <2>2 DEF Write, rest
      <3>2. phase'[w] = phase[w] \/ phase'[w] = "launching"
        BY <1>0, <1>1, <3>1, SetStep DEF Phases
      <3> QED
        BY <1>3, <1>4, <3>1, <3>2
    <2>3. CASE Sample(t) \/ Reserve(t) \/ Throttled(t)
      BY <1>3, <2>3 DEF Sample, Reserve, Throttled, records, rest
    <2>4. CASE MakeFails(t) \/ Mark(t) \/ Begin(t) \/ Commit(t)
      BY <1>3, <2>4 DEF MakeFails, Mark, Begin, Commit, records, rest
    <2> QED
      BY <1>5, <2>1, <2>2, <2>3, <2>4 DEF Quietly
  <1>6. CASE Move
    <2>1. UNCHANGED stopping /\ (UNCHANGED phase \/ Set(task["restart"].w, "launching"))
      BY <1>6 DEF Move, rest
    <2>2. phase'[w] = phase[w] \/ phase'[w] = "launching"
      BY <1>0, <1>1, <2>1, SetStep DEF Phases
    <2> QED
      BY <1>3, <1>4, <2>1, <2>2
  <1>7. CASE Rewait /\ UNCHANGED phase
    BY <1>3, <1>7 DEF Rewait, rest
  <1>8. CASE SignalRefused
    <2>1. stopping.was \in {"launching", "running"} /\ stopping.w \in Workers
      BY <1>0, <1>8 DEF SignalRefused
    <2>2. CASE phase[stopping.w] = "stopped"
      <3>1. \A v \in Workers : phase'[v] = IF v = stopping.w THEN stopping.was ELSE phase[v]
        BY <1>0, <1>8, <2>2, SetStep DEF SignalRefused
      <3> QED
        BY <1>1, <1>4, <2>1, <2>2, <3>1
    <2>3. CASE phase[stopping.w] # "stopped"
      <3>1. UNCHANGED phase
        BY <1>8, <2>3 DEF SignalRefused
      <3> QED
        BY <1>1, <1>4, <2>3, <3>1
    <2> QED
      BY <2>2, <2>3
  <1>9. ASSUME NEW v \in Workers, SpawnWorker(v)
        PROVE  w \in live' \cup Held'
    <2>1. phase[v] = "none" /\ UNCHANGED stopping
      BY <1>9 DEF SpawnWorker, rest
    <2>2. phase'[w] = phase[w]
      BY <1>0, <1>1, <1>9, <2>1, SetStep DEF SpawnWorker, Phases
    <2> QED
      BY <1>3, <2>1, <2>2
  <1>10. ASSUME NEW v \in Workers, StopWorker(v)
         PROVE  w \in live' \cup Held'
    <2>1. stopping.w = None /\ stopping' = [w |-> v, was |-> phase[v]]
      BY <1>10 DEF StopWorker
    <2>2. phase[w] \in {"launching", "running"}
      BY <1>0, <1>1, <2>1
    <2>3. \A u \in Workers : phase'[u] = IF u = v THEN "stopped" ELSE phase[u]
      BY <1>0, <1>10, SetStep DEF StopWorker, Phases
    <2> QED
      BY <1>1, <1>4, <2>1, <2>2, <2>3 DEF Held
  <1>11. ASSUME NEW v \in Workers, AgentStarts(v)
         PROVE  w \in live' \cup Held'
    <2>1. UNCHANGED stopping
      BY <1>11 DEF AgentStarts, rest
    <2>2. phase'[w] = phase[w] \/ phase'[w] = "running"
      BY <1>0, <1>1, <1>11, SetStep DEF AgentStarts, Phases
    <2> QED
      BY <1>3, <1>4, <2>1, <2>2
  <1>12. CASE \E v \in Workers : RestartWorker(v) \/ Try(v)
    BY <1>3, <1>12 DEF RestartWorker, Try, records, rest
  <1>13. CASE Enter \/ Read \/ PollEnds \/ SeesOpen \/ WatchEnds
    BY <1>3, <1>13 DEF Enter, Read, PollEnds, SeesOpen, WatchEnds, records, rest
  <1>14. CASE Pause \/ Trip \/ BreakerEnds \/ Pressure \/ Eases \/ UNCHANGED vars
    BY <1>3, <1>14 DEF Pause, Trip, BreakerEnds, Pressure, Eases, vars, records, rest
  <1> QED
    BY <1>5, <1>6, <1>7, <1>8, <1>9, <1>10, <1>11, <1>12, <1>13, <1>14 DEF Quiet

\* Its committed worker is live, so the seats only grow in a quiet step.
LEMMA SeatsStay ==
  ASSUME Core, Slots, Board, Kept, Quiet
  PROVE  Seats \subseteq Seats'
  <1>1. ASSUME NEW t \in pending
        PROVE  task[t].w \in Seats'
    <2>1. CASE t \in pending'
      BY <1>1, <2>1 DEF Kept, Seats
    <2>2. CASE t \notin pending'
      <3>1. PICK u \in Tasks : Commit(u) /\ task[u].w \in live
        BY <1>1, <2>2, QuietBook
      <3>2. pending' = pending \ {u} /\ UNCHANGED phase
        BY <3>1 DEF Commit, records
      <3>3. u = t
        BY <1>1, <2>2, <3>2
      <3> QED
        BY <3>1, <3>2, <3>3 DEF Seats, live
    <2> QED
      BY <2>1, <2>2
  <1>2. \A w \in live \cup Held : w \in Seats'
    BY QuietLive DEF Seats
  <1> QED
    BY <1>1, <1>2 DEF Seats

LEMMA SeatsFinite ==
  ASSUME Core
  PROVE  IsFiniteSet(Seats) /\ Cardinality(Seats) \in Nat
  <1>1. IsFiniteSet(Workers \cup {None})
    BY SpawnAssumption, FS_AddElement
  <1>2. Seats \subseteq Workers \cup {None}
    BY DEF Seats, live, Held, Core, TaskState
  <1> QED
    BY <1>1, <1>2, FS_Subset, FS_CardinalityType

LEMMA RelaunchStays ==
  ASSUME Core, Slots, Quiet, Relaunching
  PROVE  Relaunching'
  <1>0. /\ task \in [Tasks -> TaskState]
        /\ "poll" \in Tasks /\ "spawn" \in Tasks /\ "restart" \in Tasks
    BY BoardTypes
  <1>1. ASSUME task'["restart"] = task["restart"]
        PROVE  Relaunching'
    BY <1>1 DEF Relaunching
  <1>2. ASSUME NEW t \in Tasks, Quietly(t)
        PROVE  Relaunching'
    <2>1. TaskSteps(t)
      BY <1>2 DEF Quietly, TaskSteps
    <2>2. t # "restart"
      BY <1>2 DEF Relaunching, Quietly, Sample, Reserve, Refuse, Throttled, Write, MakeFails, Mark, Begin
    <2> QED
      BY <1>0, <1>1, <2>1, <2>2, OnlyOne
  <1>3. CASE Move /\ phase[task["restart"].w] = task["restart"].was
    <2>1. Moved("restart", "window")
      BY <1>0, <1>3, GotoStep DEF Move, Places
    <2> QED
      BY <2>1 DEF Moved, Relaunching
  <1>4. ~Rewait
    BY DEF Rewait, Relaunching
  <1>5. ~ \E w \in Workers : RestartWorker(w)
    BY DEF RestartWorker, Relaunching
  <1>6. CASE SignalRefused \/ Enter \/ Read \/ PollEnds \/ SeesOpen \/ WatchEnds
    BY <1>1, <1>6 DEF SignalRefused, Enter, Read, PollEnds, SeesOpen, WatchEnds
  <1>7. CASE \E w \in Workers : SpawnWorker(w) \/ StopWorker(w) \/ Try(w) \/ AgentStarts(w)
    BY <1>0, <1>1, <1>7 DEF SpawnWorker, StopWorker, Try, AgentStarts
  <1>8. CASE Pause \/ Trip \/ BreakerEnds \/ Pressure \/ Eases \/ UNCHANGED vars
    BY <1>1, <1>8 DEF Pause, Trip, BreakerEnds, Pressure, Eases, vars
  <1> QED
    BY <1>2, <1>3, <1>4, <1>5, <1>6, <1>7, <1>8 DEF Quiet

LEMMA SpentStays ==
  ASSUME Core, Slots, Core', Hour, Quiet, Spent
  PROVE  Spent'
  <1>0. IsFiniteSet(pending) /\ Cardinality(pending) \in Nat /\ spawns \in Nat /\ Limit \in Nat
    BY Finite, FS_CardinalityType, SpawnAssumption DEF Hour
  <1>1. IsFiniteSet(pending') /\ Cardinality(pending') \in Nat
    <2>1. IsFiniteSet(Tasks)
      <3>1. Tasks = {"poll"} \cup {"spawn"} \cup {"restart"}
        BY DEF Tasks
      <3> QED
        BY <3>1, FS_Singleton, FS_AddElement
    <2> QED
      BY <2>1, FS_Subset, FS_CardinalityType DEF Core
  <1>2. CASE pending \subseteq pending' /\ UNCHANGED spawns
    <2>1. Cardinality(pending) <= Cardinality(pending')
      BY <1>1, <1>2, FS_Subset
    <2> QED
      BY <1>0, <1>1, <1>2, <2>1 DEF Spent
  <1>3. ASSUME NEW t \in Tasks, Commit(t)
        PROVE  Spent'
    <2>1. t \in pending /\ pending' = pending \ {t} /\ spawns' = spawns + 1
      BY <1>3 DEF Commit, InTime
    <2>2. Cardinality(pending') = Cardinality(pending) - 1
      BY <1>0, <2>1, FS_RemoveElement
    <2> QED
      BY <1>0, <1>1, <2>1, <2>2 DEF Spent
  <1> QED
    BY <1>2, <1>3, QuietBook

LEMMA FilledStays ==
  ASSUME Core, Slots, Core', Board, Kept, Hour, Quiet, Filled
  PROVE  Filled'
  <1>1. CASE ~active
    <2>1. CASE \E t \in Tasks : Quietly(t)
      BY <1>1, <2>1 DEF Filled, Quietly, Sample, Reserve, Refuse, Throttled, Write, MakeFails, Mark, Begin,
                        Commit, limits
    <2>2. CASE Move \/ Rewait \/ SignalRefused \/ Enter \/ Read \/ PollEnds
      BY <1>1, <2>2 DEF Filled, Move, Rewait, SignalRefused, Enter, Read, PollEnds, limits
    <2>3. CASE \E w \in Workers :
                 SpawnWorker(w) \/ RestartWorker(w) \/ StopWorker(w) \/ Try(w) \/ AgentStarts(w)
      BY <1>1, <2>3 DEF Filled, SpawnWorker, RestartWorker, StopWorker, Try, AgentStarts, limits
    <2>4. CASE SeesOpen \/ WatchEnds \/ Pause \/ Trip \/ BreakerEnds \/ Pressure \/ Eases
      BY <1>1, <2>4 DEF Filled, SeesOpen, WatchEnds, Pause, Trip, BreakerEnds, Pressure, Eases, limits
    <2>5. CASE UNCHANGED vars
      BY <1>1, <2>5 DEF Filled, vars, limits
    <2> QED
      BY <2>1, <2>2, <2>3, <2>4, <2>5 DEF Quiet
  <1>2. CASE Spent
    BY <1>2, SpentStays DEF Filled
  <1>3. CASE Relaunching
    BY <1>3, RelaunchStays DEF Filled
  <1>4. CASE Cardinality(Seats) >= Cap
    <2>1. Seats \subseteq Seats'
      BY SeatsStay
    <2>2. IsFiniteSet(Seats') /\ Cardinality(Seats') \in Nat
      <3>1. IsFiniteSet(Workers \cup {None})
        BY SpawnAssumption, FS_AddElement
      <3>2. Seats' \subseteq Workers \cup {None}
        BY DEF Seats, live, Held, Core, TaskState
      <3> QED
        BY <3>1, <3>2, FS_Subset, FS_CardinalityType
    <2>3. Cardinality(Seats) <= Cardinality(Seats')
      BY <2>1, <2>2, FS_Subset
    <2>4. Cap \in Nat /\ Cardinality(Seats) \in Nat
      BY SpawnAssumption, SeatsFinite
    <2>5. Cardinality(Seats') >= Cap
      BY <1>4, <2>2, <2>3, <2>4
    <2> QED
      BY <2>5 DEF Filled
  <1> QED
    BY <1>1, <1>2, <1>3, <1>4 DEF Filled

LEMMA CalledStays ==
  ASSUME Core, Slots, Words, Quiet, Called
  PROVE  Called'
  <1>0. /\ task \in [Tasks -> TaskState]
        /\ "poll" \in Tasks /\ "spawn" \in Tasks /\ "restart" \in Tasks
    BY BoardTypes
  <1>1. ASSUME UNCHANGED <<WATCH, wake, SCHEDULED, stopping>>, task'["spawn"] = task["spawn"]
        PROVE  Called'
    BY <1>1 DEF Called
  <1>2. ASSUME NEW t \in Tasks, Quietly(t)
        PROVE  Called'
    <2>1. CASE Begin(t)
      BY <2>1 DEF Begin, Called
    <2>2. CASE Mark(t)
      <3>1. Moved(t, "watch") /\ UNCHANGED <<WATCH, wake, SCHEDULED, stopping>>
        BY <1>0, <2>2, GotoStep DEF Mark, Places, limits, rest
      <3>2. task["spawn"].pc \in {"mark", "watch"} => task'["spawn"].pc \in {"mark", "watch"}
        BY <1>0, <3>1 DEF Moved
      <3> QED
        BY <3>1, <3>2 DEF Called
    <2>3. CASE ~Begin(t) /\ ~Mark(t)
      <3>1. UNCHANGED <<WATCH, wake, SCHEDULED, stopping>>
        BY <1>2, <2>3 DEF Quietly, Sample, Reserve, Refuse, Throttled, Write, MakeFails, Commit, watch, limits, rest
      <3>2. task["spawn"].pc \in {"mark", "watch"} => t # "spawn"
        BY <1>2, <2>3 DEF Quietly, Sample, Reserve, Refuse, Throttled, Write, MakeFails, Commit
      <3>3. TaskSteps(t)
        BY <1>2 DEF Quietly, TaskSteps
      <3>4. task["spawn"].pc \in {"mark", "watch"} => task'["spawn"] = task["spawn"]
        BY <1>0, <3>2, <3>3, OnlyOne
      <3> QED
        BY <3>1, <3>4 DEF Called
    <2> QED
      BY <2>1, <2>2, <2>3
  <1>3. CASE Move \/ Rewait
    BY <1>0, <1>1, <1>3 DEF Move, Rewait, Goto, End, watch, limits, rest
  <1>4. CASE SignalRefused
    BY <1>4 DEF SignalRefused, Called, watch, limits
  <1>5. CASE Enter \/ Read \/ PollEnds
    BY <1>1, <1>5 DEF Enter, Read, PollEnds, watch, limits, rest
  <1>6. ASSUME NEW w \in Workers, SpawnWorker(w)
        PROVE  Called'
    BY <1>6 DEF SpawnWorker, Called, watch, limits, rest
  <1>7. ASSUME NEW w \in Workers, RestartWorker(w) \/ Try(w) \/ AgentStarts(w)
        PROVE  Called'
    BY <1>0, <1>1, <1>7 DEF RestartWorker, Try, AgentStarts, watch, limits, rest
  <1>8. ASSUME NEW w \in Workers, StopWorker(w)
        PROVE  Called'
    BY <1>8 DEF StopWorker, Called, watch, limits
  <1>9. CASE SeesOpen \/ WatchEnds
    BY <1>9 DEF SeesOpen, WatchEnds, Called, limits, rest
  <1>10. CASE Trip
    BY <1>10 DEF Trip, Called
  <1>11. CASE Pause \/ BreakerEnds \/ Pressure \/ Eases
    BY <1>1, <1>11 DEF Pause, BreakerEnds, Pressure, Eases, watch, rest
  <1>12. CASE UNCHANGED vars
    BY <1>1, <1>12 DEF vars, watch, limits, rest
  <1> QED
    BY <1>2, <1>3, <1>4, <1>5, <1>6, <1>7, <1>8, <1>9, <1>10, <1>11, <1>12 DEF Quiet

\* A cap full for the poll, no relaunch under way, is full of seats: of the
\* others only the spawn's reservation counts.
LEMMA FullOfSeats ==
  ASSUME Core, Slots, Board, task["poll"].pc = "reserve", Full(live), ~Relaunching
  PROVE  Cardinality(Seats) >= Cap
  <1>0. /\ Cap \in Nat /\ IsFiniteSet(live) /\ Cardinality(live) \in Nat
        /\ IsFiniteSet(Seats) /\ Cardinality(Seats) \in Nat
    BY SpawnAssumption, Finite, SeatsFinite, FS_CardinalityType
  <1>1. pending \subseteq {"spawn"}
    BY DEF Slots, Board, Restarted, Relaunching, Core, Tasks
  <1>2. CASE "spawn" \in pending /\ task["spawn"].w \notin live
    <2>1. pending_for(live) = {"spawn"}
      BY <1>1, <1>2 DEF pending_for
    <2>2. Cardinality(pending_for(live)) = 1
      BY <2>1, FS_Singleton
    <2>3. /\ IsFiniteSet(live \cup {task["spawn"].w})
          /\ Cardinality(live \cup {task["spawn"].w}) = Cardinality(live) + 1
      BY <1>0, <1>2, FS_AddElement
    <2>4. live \cup {task["spawn"].w} \subseteq Seats
      BY <1>2 DEF Seats
    <2>5. Cardinality(live) + 1 <= Cardinality(Seats)
      BY <1>0, <2>3, <2>4, FS_Subset
    <2> QED
      BY <1>0, <2>2, <2>5 DEF Full
  <1>3. CASE ~("spawn" \in pending /\ task["spawn"].w \notin live)
    <2>1. pending_for(live) = {}
      BY <1>1, <1>3 DEF pending_for
    <2>2. Cardinality(pending_for(live)) = 0
      BY <2>1, FS_EmptySet
    <2>3. Cardinality(live) <= Cardinality(Seats)
      BY <1>0, FS_Subset DEF Seats
    <2> QED
      BY <1>0, <2>2, <2>3 DEF Full
  <1> QED
    BY <1>2, <1>3

\* A poll that was asked for, or has the waiter before it, goes on to it, or
\* has no room for it.
LEMMA PolledStays ==
  ASSUME Core, Slots, Core', Board, Kept, Hour, Words, Flags, Quiet, ~asked',
         NEW w \in Workers, Waits(w), Polled(w)
  PROVE  Polled(w)' \/ Called' \/ Filled'
  <1>0. /\ task \in [Tasks -> TaskState]
        /\ "poll" \in Tasks /\ "spawn" \in Tasks /\ "restart" \in Tasks
        /\ None \notin Workers
    BY BoardTypes
  <1>1. CASE Enter
    BY <1>1 DEF Enter, Polled, poll
  <1>2. CASE Read
    <2>1. w \notin done
      BY DEF Board, Rows, Waits
    <2> QED
      BY <1>2, <2>1 DEF Read, Polled, Waits
  <1>3. CASE PollEnds
    <2>1. task["poll"].w = None
      BY <1>0, <1>3 DEF PollEnds, Slots
    <2> QED
      BY <1>0, <1>3, <2>1 DEF PollEnds, Again, Polled
  <1>4. ASSUME NEW v \in Workers, Try(v)
        PROVE  Polled(w)'
    <2>1. task["poll"].w # w
      BY <1>0, <1>4 DEF Try, Slots
    <2>2. v \notin BACKOFF => task'["poll"].w = v
      BY <1>0, <1>4 DEF Try, Idle
    <2> QED
      BY <1>4, <2>1, <2>2 DEF Try, Polled, Waits
  <1>5. ASSUME UNCHANGED <<asked, poll>>, task'["poll"].w = task["poll"].w
        PROVE  Polled(w)'
    BY <1>5 DEF Polled, poll
  <1>6. ASSUME NEW t \in Tasks, Quietly(t)
        PROVE  Polled(w)' \/ Called' \/ Filled'
    <2>0. TaskSteps(t)
      BY <1>6 DEF Quietly, TaskSteps
    <2>1. UNCHANGED poll /\ (asked => asked')
      <3>1. CASE Sample(t) \/ Reserve(t) \/ Refuse(t) \/ Throttled(t)
        BY <3>1 DEF Sample, Reserve, Refuse, Throttled
      <3>2. CASE Write(t) \/ MakeFails(t) \/ Mark(t) \/ Begin(t)
        BY <3>2 DEF Write, MakeFails, Mark, Begin
      <3>3. CASE Commit(t)
        BY <3>3 DEF Commit
      <3> QED
        BY <1>6, <3>1, <3>2, <3>3 DEF Quietly
    <2>2. CASE task["poll"].w # w \/ t # "poll"
      <3>1. task["poll"].w = w => task'["poll"].w = w
        BY <1>0, <2>0, <2>2, OnlyOne
      <3> QED
        BY <2>1, <3>1 DEF Polled, poll
    <2>3. CASE task["poll"].w = w /\ t = "poll"
      <3>1. CASE Sample(t) \/ Reserve(t) \/ Throttled(t) \/ Write(t) \/ MakeFails(t) \/ Mark(t)
        <4>1. task'[t].w = task[t].w
          <5>1. CASE Sample(t)
            BY <1>0, <5>1, SampleStep DEF Sample, Places, Moved
          <5>2. CASE Reserve(t)
            <6>1. Moved(t, IF t = "restart" THEN "move" ELSE "made")
              BY <1>0, <5>2, SampleStep DEF Reserve, Places
            <6> QED
              BY <6>1 DEF Moved
          <5>3. CASE Throttled(t) \/ Write(t)
            <6>1. \E l \in {"file", "mark", "window", "back"} : Goto(t, l)
              BY <5>3 DEF Throttled, Write
            <6> QED
              BY <1>0, <6>1, GotoStep DEF Places, Moved
          <5>4. CASE MakeFails(t) \/ Mark(t)
            <6>1. \E l \in {"back", "watch"} : Goto(t, l)
              BY <5>4 DEF MakeFails, Mark
            <6> QED
              BY <1>0, <6>1, GotoStep DEF Places, Moved
          <5> QED
            BY <3>1, <5>1, <5>2, <5>3, <5>4
        <4> QED
          BY <2>3, <4>1 DEF Polled
      <3>2. CASE Begin(t)
        BY <3>2 DEF Begin, Called
      <3>3. CASE Commit(t) /\ task[t].w \in live
        BY <2>3, <3>3 DEF live, Waits
      <3>4. CASE Refuse(t)
        <4>1. task["poll"].pc = "reserve" /\ UNCHANGED limits
          BY <2>3, <3>4 DEF Refuse
        <4>2. Answer("poll") \in {"paused", "breaker", "cap", "fuse"}
          BY <2>3, <3>4 DEF Refuse
        <4>3. Filled \/ breaker
          <5>1. ~task["poll"].hive \/ breaker \/ Full(Counted("poll")) \/ Spent
            BY <4>2 DEF Answer
          <5>2. Full(Counted("poll")) => Full(live)
            BY DEF Counted
          <5>3. ~task["poll"].hive => ~active
            BY DEF Flags
          <5>4. Full(live) => Cardinality(Seats) >= Cap \/ Relaunching
            BY <4>1, FullOfSeats
          <5> QED
            BY <5>1, <5>2, <5>3, <5>4 DEF Filled
        <4>4. breaker => Called'
          BY <4>1 DEF Flags, Called, limits
        <4> QED
          BY <4>3, <4>4, FilledStays
      <3> QED
        BY <1>6, <3>1, <3>2, <3>3, <3>4 DEF Quietly
    <2> QED
      BY <2>2, <2>3
  <1>7. CASE Move \/ Rewait
    BY <1>0, <1>7 DEF Move, Rewait, Goto, End, Polled, poll
  <1>8. CASE SignalRefused \/ \E v \in Workers :
               SpawnWorker(v) \/ RestartWorker(v) \/ StopWorker(v) \/ AgentStarts(v)
    BY <1>0, <1>5, <1>8 DEF SignalRefused, SpawnWorker, RestartWorker, StopWorker, AgentStarts
  <1>9. CASE SeesOpen \/ WatchEnds \/ Pause \/ Trip \/ BreakerEnds \/ Pressure \/ Eases
    BY <1>5, <1>9 DEF SeesOpen, WatchEnds, Pause, Trip, BreakerEnds, Pressure, Eases
  <1>10. CASE UNCHANGED vars
    BY <1>5, <1>10 DEF vars
  <1> QED
    BY <1>1, <1>2, <1>3, <1>4, <1>6, <1>7, <1>8, <1>9, <1>10 DEF Quiet

LEMMA HeardStep ==
  ASSUME Core, Slots, Core', Board, Kept, Hour, Words, Flags, Heard, [Next]_vars
  PROVE  Heard'
  <1> SUFFICES ASSUME ~silent', NEW w \in Workers, Waits(w)'
               PROVE  Polled(w)' \/ Called' \/ Filled'
    BY DEF Heard
  <1>1. CASE asked'
    BY <1>1 DEF Polled
  <1>2. CASE ~asked'
    <2>1. Quiet /\ (Read \/ ~silent)
      BY <1>2, QuietStep
    <2>2. CASE Read
      BY <2>2 DEF Read, Polled, Waits, Ready, Board, Rows, records, rest
    <2>3. CASE ~silent
      <3>1. Waits(w)
        BY <2>1, WaitedBefore
      <3>2. Polled(w) \/ Called \/ Filled
        BY <2>3, <3>1 DEF Heard
      <3>3. CASE Polled(w)
        BY <1>2, <2>1, <3>1, <3>3, PolledStays
      <3>4. CASE Called
        BY <2>1, <3>4, CalledStays
      <3>5. CASE Filled
        BY <2>1, <3>5, FilledStays
      <3> QED
        BY <3>2, <3>3, <3>4, <3>5
    <2> QED
      BY <2>1, <2>2, <2>3
  <1> QED
    BY <1>1, <1>2

LEMMA HeardMeans ==
  ASSUME Core, Slots, Board, Flags, Heard
  PROVE  NoneMissed
  <1> SUFFICES ASSUME NEW w \in Workers, Unheard(w), ~silent
               PROVE  FALSE
    BY DEF NoneMissed
  <1>1. Polled(w) \/ Called \/ Filled
    BY DEF Heard, Unheard, Waits
  <1>2. ~Polled(w)
    <2>1. "poll" \in Tasks /\ w # None
      BY SpawnAssumption DEF Tasks
    <2>2. list = {} /\ ~reading /\ task["poll"].w = None
      BY <2>1 DEF Unheard, Flags, Slots
    <2> QED
      BY <2>1, <2>2 DEF Polled, Unheard
  <1>3. ~Called
    BY DEF Called, Unheard
  <1>4. ~Filled
    <2>1. Held = {}
      BY DEF Held, Unheard, Board, Stopping
    <2>2. Seats = live \cup {task[u].w : u \in pending}
      BY <2>1 DEF Seats
    <2>3. Cardinality(Seats) < Cap /\ Cardinality(Seats) \in Nat
      BY <2>2, RoomLeft DEF Unheard, Room
    <2>4. ~(Cardinality(Seats) >= Cap)
      <3>1. Cap \in Nat
        BY SpawnAssumption
      <3> QED
        BY <2>3, <3>1
    <2> QED
      BY <2>4 DEF Filled, Unheard, Room, Relaunching
  <1> QED
    BY <1>1, <1>2, <1>3, <1>4

\* A waiter that could launch has a poll coming, or a watch, a schedule or a
\* stop that will ask for one, for any workers, dependencies, cap and limit.
\* Inductive as Heard says it: whoever has no poll coming has no room, and
\* every step that makes some asks for a poll, but those that are nobody's.
THEOREM NoneIsMissed ==
  ASSUME PollsAsNow
  PROVE  Spec => []NoneMissed
  <1> DEFINE Inv == Core /\ Slots /\ Hour /\ Sets /\ Words /\ Switches /\ Board /\ Flags /\ Heard
  <1>1. Init => Inv
    <2> SUFFICES ASSUME Init PROVE Inv
      OBVIOUS
    <2>1. Hour
      <3>1. pending = {} /\ spawns = 0 /\ Limit \in Nat
        BY SpawnAssumption DEF Init
      <3> QED
        BY <3>1, FS_EmptySet DEF Hour
    <2>2. Sets /\ Words
      BY DEF Init, Sets, Words
    <2>3. Heard
      BY DEF Init, Heard, Waits
    <2> QED
      BY <2>1, <2>2, <2>3, CoreInit, SwitchesInit, BoardInit
  <1>2. Inv /\ [Next]_vars => Inv'
    <2> SUFFICES ASSUME Inv, [Next]_vars PROVE Inv'
      OBVIOUS
    <2>1. Core' /\ Slots' /\ Switches' /\ Kept
      BY CoreStep, SwitchesStep
    <2>2. Hour' /\ Sets' /\ Words'
      BY HourStep, SetsStep, WordsStep
    <2>3. Board' /\ Flags'
      BY BoardStep, FlagsStep
    <2>4. Heard'
      BY <2>1, HeardStep
    <2> QED
      BY <2>1, <2>2, <2>3, <2>4
  <1>3. Inv => NoneMissed
    BY HeardMeans
  <1> QED
    BY <1>1, <1>2, <1>3, PTL DEF Spec
=============================================================================
