------------------------------- MODULE Batch -------------------------------
(***************************************************************************)
(* The batch queue of one repo (src-tauri/src/hive/land/batch.rs).  A land *)
(* that finds its repo busy waits in the queue; one run takes the lock,    *)
(* merges all that wait onto Base in turn, checks the tip once and moves   *)
(* Base to it.  A chain that fails is split in half, down to the culprit.  *)
(*                                                                         *)
(* A change is the worker it comes from (or a commit of someone else's), a *)
(* commit the set of changes it holds: Base, a chain's Base, and the merge *)
(* each member is landed by.  Which member of a set comes first is left    *)
(* open, so every split into halves is covered.  A land alone (driver.rs)  *)
(* is two steps here, its own steps being module Land's subject.           *)
(***************************************************************************)
EXTENDS Integers, Sequences, FiniteSets

CONSTANTS Workers,     \* the workers of the Hive, one land each
          Foreign,     \* commits the human puts on Base
          Breaks,      \* the sets of changes that together fail the land check
          MaxAttempts, \* MAX_ATTEMPTS
          MaxLands,    \* bound: calls of hiveLand
          MaxOthers,   \* bound: times a land of another Hive takes the lock
          MaxCrashes,  \* bound: restarts of maiTerm
          Run,         \* the run, as a holder of the land lock
          Other,       \* a land of another Hive, as a holder
          None

ASSUME BatchAssumption ==
  /\ MaxAttempts \in Nat \ {0} /\ MaxLands \in Nat
  /\ MaxOthers \in Nat /\ MaxCrashes \in Nat
  /\ IsFiniteSet(Workers)
  /\ Workers \cap Foreign = {}
  /\ Run \notin Workers /\ Other \notin Workers /\ None \notin Workers
  /\ Run # Other /\ Run # None /\ Other # None

VARIABLES
  rec,     \* worker -> its record's land: phase and state, repo status, tested commit
  base,    \* the changes in Base
  log,     \* worker -> lines of the land log
  lock,    \* who holds the repo's land lock
  RUNNERS, \* whether the repo's queue has a run
  ACTIVE,  \* whether this process may still hear the end of the run's check
  slot,    \* the check's slot in ENDS
  job,     \* the queued check
  calling, \* workers whose hiveLand hasn't looked at the queue yet
  solo,    \* workers whose land drives alone
  pc, set, todo, alone, chain, attempts, outs, end, \* the run's locals
  lands, others, crashes \* what the bounds count

disk == <<rec, base, log>>
check == <<ACTIVE, slot, job>>
calls == <<calling, solo>>
run == <<pc, set, todo, alone, chain, attempts, outs, end>>
counts == <<lands, others, crashes>>
vars == <<disk, lock, RUNNERS, check, calls, run, counts>>

Fails(c) == \E b \in Breaks : b \subseteq c

States == {"reported", "locking", "queued_batch", "checking", "advancing", "held", "retired"}
InProgress == {"locking", "queued_batch", "checking", "advancing"}
Changes == Workers \cup Foreign
NoChain == [base |-> {}, in |-> {}, left |-> {}]
Ends == {"passed", "failed", "spoiled", "unfinished"}
Failed == {"failed", "spoiled"}

TypeOK ==
  /\ rec \in [Workers -> [state : States,
                          repo : {"pending", "checking", "tested", "advancing", "landed"},
                          tested : SUBSET Changes]]
  /\ base \subseteq Changes
  /\ log \in [Workers -> Nat]
  /\ lock \in Workers \cup {Run, Other, None}
  /\ RUNNERS \in BOOLEAN /\ ACTIVE \in BOOLEAN
  /\ slot \in Ends \cup {"none", "waiting"}
  /\ job \in Ends \cup {"none", "queued"}
  /\ calling \subseteq Workers /\ solo \subseteq Workers
  /\ pc \in {"off", "scan", "last", "gather", "pop", "again", "build", "leave", "start",
             "mark", "await", "rx", "ended", "advance", "land", "refuse", "hold", "release",
             "alone", "drive"}
  /\ set \subseteq Workers /\ todo \in Seq(SUBSET Workers)
  /\ alone \subseteq Workers /\ outs \subseteq Workers
  /\ chain \in [base : SUBSET Changes, in : SUBSET Workers, left : SUBSET Workers]
  /\ attempts \in 0 .. MaxAttempts
  /\ end \in Ends \cup {"none"}
  /\ lands \in 0 .. MaxLands /\ others \in 0 .. MaxOthers /\ crashes \in 0 .. MaxCrashes

Init ==
  /\ rec = [w \in Workers |-> [state |-> "reported", repo |-> "pending", tested |-> {}]]
  /\ base = {} /\ log = [w \in Workers |-> 0]
  /\ lock = None /\ RUNNERS = FALSE
  /\ ACTIVE = FALSE /\ slot = "none" /\ job = "none"
  /\ calling = {} /\ solo = {}
  /\ pc = "off" /\ set = {} /\ todo = <<>> /\ alone = {} /\ chain = NoChain
  /\ attempts = 0 /\ outs = {} /\ end = "none"
  /\ lands = 0 /\ others = 0 /\ crashes = 0

----------------------------------------------------------------------------
(* Records. *)

queued == {w \in Workers : rec[w].state = "queued_batch"}

\* A repo's chain fields cleared; a landed repo keeps its own (`detach`).
detach(r) == IF r.repo = "landed" THEN r ELSE [r EXCEPT !.repo = "pending", !.tested = {}]

Put(w, s) == [detach(rec[w]) EXCEPT !.state = s]

\* A land's line in the log, unless it has one (`log_repo`).
LogRepoTwice(n) == n + 1                     \* slip: it isn't looked for
LogRepo(n)      == IF n = 0 THEN 1 ELSE n

Goto(l) == pc' = l

\* Whoever is in one of the sets still to land.
InSets(s) == UNION {s[i] : i \in DOMAIN s}

----------------------------------------------------------------------------
(* hiveLand. *)

\* A new land, or a held one resumed (`start_state`): committed to disk.
Call(w) ==
  /\ rec[w].state \in {"reported", "held"} /\ w \notin calling \cup solo
  /\ lands < MaxLands
  /\ rec' = [rec EXCEPT ![w].state = "locking"]
  /\ calling' = calling \cup {w} /\ lands' = lands + 1
  /\ UNCHANGED <<base, log, lock, RUNNERS, check, solo, run, others, crashes>>

busy == RUNNERS \/ lock # None

\* `try_join`: under the runners' lock the record is queued and a run started
\* if there is none.
Join(w) ==
  /\ w \in calling /\ calling' = calling \ {w}
  /\ busy /\ rec[w].repo = "pending"
  /\ rec' = [rec EXCEPT ![w].state = "queued_batch"]
  /\ RUNNERS' = TRUE
  /\ pc' = IF RUNNERS THEN pc ELSE "scan"
  /\ UNCHANGED <<base, log, lock, check, solo, set, todo, alone, chain, attempts, outs, end, counts>>

\* The repo is free, the land isn't eligible, or the queue couldn't be looked
\* at or the record saved: it lands now, alone.
Straight(w) ==
  /\ w \in calling /\ calling' = calling \ {w}
  /\ solo' = solo \cup {w}
  /\ UNCHANGED <<disk, lock, RUNNERS, check, run, counts>>

----------------------------------------------------------------------------
(* A land alone, from `driver::drive`. *)

SoloLocks(w) ==
  /\ w \in solo /\ rec[w].repo # "landed" /\ lock = None
  /\ lock' = w
  /\ rec' = [rec EXCEPT ![w].state = "checking", ![w].repo = "checking"]
  /\ UNCHANGED <<base, log, RUNNERS, check, calls, run, counts>>

\* Its own check passes: Base moves, the land is logged and the worker retired.
SoloLands(w) ==
  /\ w \in solo /\ lock = w /\ ~Fails(base \cup {w})
  /\ base' = base \cup {w} /\ log' = [log EXCEPT ![w] = LogRepo(@)]
  /\ rec' = [rec EXCEPT ![w].state = "retired", ![w].repo = "landed"]
  /\ lock' = None /\ solo' = solo \ {w}
  /\ UNCHANGED <<RUNNERS, check, calling, run, counts>>

\* It is refused (its check fails, it conflicts), or held at step 2, its tested
\* commit kept for the call that resumes it.
SoloStops(w) ==
  /\ w \in solo /\ lock = w
  /\ \/ rec' = [rec EXCEPT ![w] = Put(w, "reported")]
     \/ rec' = [rec EXCEPT ![w].state = "held", ![w].repo = "tested"]
  /\ lock' = None /\ solo' = solo \ {w}
  /\ UNCHANGED <<base, log, RUNNERS, check, calling, run, counts>>

\* A land that landed before a restart could retire its worker.
SoloRetires(w) ==
  /\ w \in solo /\ rec[w].repo = "landed"
  /\ rec' = [rec EXCEPT ![w].state = "retired"]
  /\ solo' = solo \ {w}
  /\ UNCHANGED <<base, log, lock, RUNNERS, check, calling, run, counts>>

----------------------------------------------------------------------------
(* The run: its queue and its lock (`run`). *)

\* Nobody seems to wait: a second look, before the run ends.
Scan ==
  /\ pc = "scan" /\ queued = {}
  /\ Goto("last")
  /\ UNCHANGED <<disk, lock, RUNNERS, check, calls, set, todo, alone, chain, attempts, outs, end, counts>>

LastLook ==                                   \* slip: no second look
  /\ pc = "last" /\ Goto("off") /\ RUNNERS' = FALSE
  /\ UNCHANGED <<disk, lock, check, calls, set, todo, alone, chain, attempts, outs, end, counts>>

\* The second look, under the runners' lock: a land that joins after it finds
\* no run, and starts one.
Last ==
  /\ pc = "last"
  /\ IF queued = {} THEN Goto("off") /\ RUNNERS' = FALSE
                    ELSE Goto("scan") /\ UNCHANGED RUNNERS
  /\ UNCHANGED <<disk, lock, check, calls, set, todo, alone, chain, attempts, outs, end, counts>>

\* The lock is waited for as long as some land waits.
TakeLock ==
  /\ pc = "scan" /\ queued # {} /\ lock = None
  /\ lock' = Run /\ Goto("gather")
  /\ UNCHANGED <<disk, RUNNERS, check, calls, set, todo, alone, chain, attempts, outs, end, counts>>

\* The repo can't be read: every waiting member is refused.
LockFails ==
  /\ pc = "scan" /\ queued # {}
  /\ outs' = queued /\ Goto("refuse")
  /\ UNCHANGED <<disk, lock, RUNNERS, check, calls, set, todo, alone, chain, attempts, end, counts>>

\* Who waits now that the lock is taken: a batch of two or more, or a lone one.
Gather ==
  /\ pc = "gather"
  /\ IF Cardinality(queued) >= 2
       THEN todo' = <<queued>> /\ alone' = {} /\ ACTIVE' = TRUE /\ Goto("pop")
       ELSE alone' = queued /\ Goto("release") /\ UNCHANGED <<todo, ACTIVE>>
  /\ UNCHANGED <<disk, lock, RUNNERS, slot, job, calls, set, chain, attempts, outs, end, counts>>

\* `release`: the lock and the temporary worktree gone.
Release ==
  /\ pc = "release"
  /\ lock' = None /\ Goto("alone")
  /\ UNCHANGED <<disk, RUNNERS, check, calls, set, todo, alone, chain, attempts, outs, end, counts>>

\* `land_alone`: a member still waiting, or left for this, drives alone; the
\* run goes on once that land runs its check or has ended (`drive_to_end`).
\* One that is neither any more is passed over.
LandAlone(w) ==
  /\ pc = "alone" /\ w \in alone /\ alone' = alone \ {w}
  /\ IF rec[w].state \in {"queued_batch", "locking"}
       THEN /\ rec' = [rec EXCEPT ![w] = Put(w, "locking")]
            /\ solo' = solo \cup {w} /\ outs' = {w} /\ Goto("drive")
       ELSE UNCHANGED <<rec, solo, outs, pc>>
  /\ UNCHANGED <<base, log, lock, RUNNERS, check, calling, set, todo, chain, attempts, end, counts>>

Driven ==
  /\ pc = "drive" /\ \A w \in outs : w \notin solo \/ rec[w].state # "locking"
  /\ outs' = {} /\ Goto("alone")
  /\ UNCHANGED <<disk, lock, RUNNERS, check, calls, set, todo, alone, chain, attempts, end, counts>>

NoneAlone ==
  /\ pc = "alone" /\ alone = {}
  /\ Goto("scan")
  /\ UNCHANGED <<disk, lock, RUNNERS, check, calls, set, todo, alone, chain, attempts, outs, end, counts>>

----------------------------------------------------------------------------
(* The batch (`land_batch`, `land_set`). *)

\* The members of a set still waiting, whose land this batch takes (back).
members(s) == {w \in s \ alone : rec[w].state \in {"queued_batch", "advancing"}}

Taken(s) == [w \in Workers |-> IF w \in members(s) THEN Put(w, "queued_batch") ELSE rec[w]]

\* No set is in hand: the last one's members all have their answer.
Free ==
  \/ pc = "pop"
  \/ pc \in {"land", "refuse"} /\ outs = {}
  \/ pc = "hold" /\ outs = {} /\ todo = <<>>

\* The next set to land.
Pop ==
  /\ lock = Run /\ Free /\ todo # <<>>
  /\ todo' = Tail(todo) /\ set' = Head(todo)
  /\ rec' = Taken(Head(todo))
  /\ chain' = NoChain /\ attempts' = 0 /\ end' = "none"
  /\ Goto(IF members(Head(todo)) = {} THEN "pop" ELSE "build")
  /\ UNCHANGED <<base, log, lock, RUNNERS, check, calls, alone, outs, counts>>

\* The end of the batch; after a failure to lock, the queue again.
BatchDone ==
  /\ Free /\ todo = <<>>
  /\ ACTIVE' = FALSE /\ Goto(IF lock = Run THEN "release" ELSE "scan")
  /\ set' = {} /\ chain' = NoChain /\ attempts' = 0 /\ end' = "none"
  /\ UNCHANGED <<disk, lock, RUNNERS, slot, job, calls, todo, alone, outs, counts>>

\* Base moved: the set once more, without the members that left it.
Again ==
  /\ pc = "again"
  /\ rec' = Taken(set)
  /\ Goto(IF members(set) = {} THEN "pop" ELSE "build")
  /\ UNCHANGED <<base, log, lock, RUNNERS, check, calls, set, todo, alone, chain, attempts, outs, end, counts>>

\* `build`: Base, then each member merged; those that conflict, or trip the
\* config rule, leave, the chain as it was before them.
Build ==
  /\ pc = "build"
  /\ \E left \in SUBSET members(set) :
       chain' = [base |-> base, in |-> members(set) \ left, left |-> left]
  /\ Goto("leave")
  /\ UNCHANGED <<disk, lock, RUNNERS, check, calls, set, todo, alone, attempts, outs, end, counts>>

BuildFails ==
  /\ pc = "build"
  /\ outs' = members(set) /\ end' = "none" /\ Goto("refuse")
  /\ UNCHANGED <<disk, lock, RUNNERS, check, calls, set, todo, alone, chain, attempts, counts>>

LeftQueued(w) == Put(w, "queued_batch")       \* slip: it goes on waiting in the queue
Left(w)       == Put(w, "locking")

\* The members that left land alone after the batch; the chain is written on
\* the others' records (`mark`).
Leave ==
  /\ pc = "leave"
  /\ rec' = [w \in Workers |->
               CASE w \in chain.left -> Left(w)
                 [] w \in chain.in -> [rec[w] EXCEPT !.tested = chain.base \cup chain.in]
                 [] OTHER -> rec[w]]
  /\ alone' = alone \cup chain.left
  /\ Goto(IF chain.in = {} THEN "pop" ELSE "start")
  /\ UNCHANGED <<base, log, lock, RUNNERS, check, calls, set, todo, chain, attempts, outs, end, counts>>

----------------------------------------------------------------------------
(* The chain's one check (`check`, `await_check`, `on_check_end`). *)

Start ==
  /\ pc = "start"
  /\ job' = "queued" /\ slot' = "none" /\ Goto("mark")
  /\ UNCHANGED <<disk, lock, RUNNERS, ACTIVE, calls, set, todo, alone, chain, attempts, outs, end, counts>>

StartFails ==
  /\ pc = "start"
  /\ end' = "unfinished" /\ Goto("ended")
  /\ UNCHANGED <<disk, lock, RUNNERS, check, calls, set, todo, alone, chain, attempts, outs, counts>>

\* `mark_job`: the check's job on each member's record.
Mark ==
  /\ pc = "mark"
  /\ rec' = [w \in Workers |->
               IF w \in chain.in THEN [rec[w] EXCEPT !.state = "checking", !.repo = "checking"]
                                 ELSE rec[w]]
  /\ Goto("await")
  /\ UNCHANGED <<base, log, lock, RUNNERS, check, calls, set, todo, alone, chain, attempts, outs, end, counts>>

KeptWaited(e) == IF slot = "waiting" THEN e ELSE slot  \* slip: an end before the wait is lost
Kept(e)       == IF slot = "waiting" \/ ACTIVE THEN e ELSE slot

\* The check ends on the tip: the run awaiting it is woken, or its end is kept
\* for the run that will.  One that moved the commit it tested, or ran past its
\* time, is spoiled: it counts as failed whatever the tip holds.
OnCheckEnd ==
  /\ job = "queued"
  /\ \E e \in {IF Fails(chain.base \cup chain.in) THEN "failed" ELSE "passed",
               "spoiled", "unfinished"} :
       job' = e /\ slot' = Kept(e)
  /\ UNCHANGED <<disk, lock, RUNNERS, ACTIVE, calls, run, counts>>

AwaitCheck ==
  /\ pc = "await"
  /\ IF slot \in Ends
       THEN end' = slot /\ slot' = "none" /\ job' = "none" /\ Goto("ended")
       ELSE slot' = "waiting" /\ Goto("rx") /\ UNCHANGED <<end, job>>
  /\ UNCHANGED <<disk, lock, RUNNERS, ACTIVE, calls, set, todo, alone, chain, attempts, outs, counts>>

Hear ==
  /\ pc = "rx" /\ slot \in Ends
  /\ end' = slot /\ slot' = "none" /\ job' = "none" /\ Goto("ended")
  /\ UNCHANGED <<disk, lock, RUNNERS, ACTIVE, calls, set, todo, alone, chain, attempts, outs, counts>>

\* What the end says of the chain: members refused, the chain split, or the
\* members marked as advancing before Base moves.
CheckEnded ==
  /\ pc = "ended" /\ end \notin Failed
  /\ IF end = "unfinished"
       THEN outs' = chain.in /\ Goto("refuse") /\ UNCHANGED rec
       ELSE /\ rec' = [w \in Workers |->
                         IF w \in chain.in THEN [rec[w] EXCEPT !.state = "advancing", !.repo = "advancing"]
                                           ELSE rec[w]]
            /\ Goto("advance") /\ UNCHANGED outs
  /\ UNCHANGED <<base, log, lock, RUNNERS, check, calls, set, todo, alone, chain, attempts, end, counts>>

LoneAny == chain.in # {}                      \* slip: the whole chain is refused
Lone    == Cardinality(chain.in) = 1

Culprit ==
  /\ pc = "ended" /\ end \in Failed /\ Lone
  /\ outs' = chain.in /\ Goto("refuse")
  /\ UNCHANGED <<disk, lock, RUNNERS, check, calls, set, todo, alone, chain, attempts, end, counts>>

Halves(s) == {p \in (SUBSET s) \X (SUBSET s) :
                /\ p[1] \cup p[2] = s /\ p[1] \cap p[2] = {}
                /\ Cardinality(p[1]) = (Cardinality(s) + 1) \div 2}

\* Each half is tried on its own, the first first.
Split ==
  /\ pc = "ended" /\ end \in Failed /\ ~Lone
  /\ rec' = [w \in Workers |-> IF w \in chain.in THEN Put(w, "queued_batch") ELSE rec[w]]
  /\ \E p \in Halves(chain.in) : todo' = <<p[1], p[2]>> \o todo
  /\ Goto("pop")
  /\ set' = {} /\ chain' = NoChain /\ attempts' = 0 /\ end' = "none"
  /\ UNCHANGED <<base, log, lock, RUNNERS, check, calls, alone, outs, counts>>

----------------------------------------------------------------------------
(* Step 2 (`lg::advance`), and what comes of the members. *)

AdvanceAny   == TRUE                          \* slip: Base is set without a look
FastForwards == base = chain.base

Advance ==
  /\ pc = "advance" /\ FastForwards
  /\ base' = chain.base \cup chain.in
  /\ outs' = chain.in /\ Goto("land")
  /\ UNCHANGED <<rec, log, lock, RUNNERS, check, calls, set, todo, alone, chain, attempts, end, counts>>

\* Base isn't where the chain was built: built again, three times at most.
GivesUpLate(n) == n > MaxAttempts             \* slip: one try too many
GivesUp(n)     == n >= MaxAttempts

BaseMoved ==
  /\ pc = "advance" /\ ~FastForwards
  /\ attempts' = attempts + 1
  /\ IF GivesUp(attempts') THEN outs' = chain.in /\ Goto("hold")
                            ELSE Goto("again") /\ UNCHANGED outs
  /\ end' = "none"
  /\ UNCHANGED <<disk, lock, RUNNERS, check, calls, set, todo, alone, chain, counts>>

\* The checkout is busy, or has uncommitted work in the way.
AdvanceHeld ==
  /\ pc = "advance"
  /\ outs' = chain.in /\ Goto("hold")
  /\ UNCHANGED <<disk, lock, RUNNERS, check, calls, set, todo, alone, chain, attempts, end, counts>>

AdvanceFails ==
  /\ pc = "advance"
  /\ outs' = chain.in /\ Goto("refuse")
  /\ UNCHANGED <<disk, lock, RUNNERS, check, calls, set, todo, alone, chain, attempts, end, counts>>

\* `land_members`: each member is logged, its record saved as landed, and the
\* worker retired; one that can't be retired is held, landed.
LandLog(w) ==
  /\ pc = "land" /\ w \in outs /\ rec[w].repo = "advancing"
  /\ log' = [log EXCEPT ![w] = LogRepo(@)]
  /\ UNCHANGED <<rec, base, lock, RUNNERS, check, calls, run, counts>>

LandSave(w) ==
  /\ pc = "land" /\ w \in outs /\ log[w] = 1 /\ rec[w].repo = "advancing"
  /\ rec' = [rec EXCEPT ![w].repo = "landed"]
  /\ UNCHANGED <<base, log, lock, RUNNERS, check, calls, run, counts>>

LandRetire(w) ==
  /\ pc = "land" /\ w \in outs /\ rec[w].repo = "landed"
  /\ \E s \in {"retired", "held"} : rec' = [rec EXCEPT ![w].state = s]
  /\ outs' = outs \ {w}
  /\ UNCHANGED <<base, log, lock, RUNNERS, check, calls, pc, set, todo, alone, chain, attempts, end, counts>>

\* `refuse_member`: back in Reported, nothing of it landed.
Refuse(w) ==
  /\ pc = "refuse" /\ w \in outs /\ outs' = outs \ {w}
  /\ rec' = [rec EXCEPT ![w] = Put(w, "reported")]
  /\ UNCHANGED <<base, log, lock, RUNNERS, check, calls, pc, set, todo, alone, chain, attempts, end, counts>>

\* `hold_member`: the coordinator's hiveLand resumes it.
Hold(w) ==
  /\ pc = "hold" /\ w \in outs /\ outs' = outs \ {w}
  /\ rec' = [rec EXCEPT ![w] = Put(w, "held")]
  /\ UNCHANGED <<base, log, lock, RUNNERS, check, calls, pc, set, todo, alone, chain, attempts, end, counts>>

\* Every set left would move the same checkout: held with the one that was.
HoldRest ==
  /\ pc = "hold" /\ outs = {} /\ todo # <<>>
  /\ outs' = InSets(todo) /\ todo' = <<>>
  /\ UNCHANGED <<disk, lock, RUNNERS, check, calls, pc, set, alone, chain, attempts, end, counts>>

----------------------------------------------------------------------------
(* Others: lands of other Hives, the human's commits, a restart. *)

OtherTakes ==
  /\ lock = None /\ others < MaxOthers
  /\ lock' = Other /\ others' = others + 1
  /\ UNCHANGED <<disk, RUNNERS, check, calls, run, lands, crashes>>

OtherReleases ==
  /\ lock = Other /\ lock' = None
  /\ UNCHANGED <<disk, RUNNERS, check, calls, run, counts>>

HumanCommits(f) ==
  /\ f \notin base /\ base' = base \cup {f}
  /\ UNCHANGED <<rec, log, lock, RUNNERS, check, calls, run, counts>>

\* Their own commits they may also take back, as long as nothing landed on them.
HumanResets(f) ==
  /\ base \subseteq Foreign /\ base' = base \ {f}
  /\ UNCHANGED <<rec, log, lock, RUNNERS, check, calls, run, counts>>

\* `reconcile_in`: a repo caught in step 2 landed if Base holds its merge.
landed(w) ==
  \/ rec[w].repo = "landed"
  \/ rec[w].repo = "advancing" /\ rec[w].tested \subseteq base

reconciled(w) ==
  [state |-> "held",
   repo |-> IF landed(w) THEN "landed" ELSE IF rec[w].repo = "tested" THEN "tested" ELSE "pending",
   tested |-> IF landed(w) THEN rec[w].tested ELSE {}]

\* maiTerm stops at any moment and starts again: every land under way is
\* settled from the repo and held, and no run, call or check is left.
Restart ==
  /\ crashes < MaxCrashes /\ crashes' = crashes + 1
  /\ rec' = [w \in Workers |-> IF rec[w].state \in InProgress THEN reconciled(w) ELSE rec[w]]
  /\ log' = [w \in Workers |->
               IF rec[w].state \in InProgress /\ rec[w].repo = "advancing" /\ landed(w)
               THEN LogRepo(log[w]) ELSE log[w]]
  /\ lock' = IF lock = Other THEN Other ELSE None
  /\ RUNNERS' = FALSE /\ ACTIVE' = FALSE /\ slot' = "none" /\ job' = "none"
  /\ calling' = {} /\ solo' = {}
  /\ pc' = "off" /\ set' = {} /\ todo' = <<>> /\ alone' = {} /\ chain' = NoChain
  /\ attempts' = 0 /\ outs' = {} /\ end' = "none"
  /\ UNCHANGED <<base, lands, others>>

----------------------------------------------------------------------------

RunSteps ==
  \/ Scan \/ Last \/ TakeLock \/ LockFails \/ Gather \/ Release
  \/ Driven \/ NoneAlone \/ Pop \/ BatchDone \/ Again \/ Build \/ BuildFails \/ Leave
  \/ Start \/ StartFails \/ Mark \/ AwaitCheck \/ Hear \/ CheckEnded \/ Culprit \/ Split
  \/ Advance \/ BaseMoved \/ AdvanceHeld \/ AdvanceFails \/ HoldRest
  \/ \E w \in Workers : LandAlone(w) \/ LandLog(w) \/ LandSave(w) \/ LandRetire(w)
                        \/ Refuse(w) \/ Hold(w)

Solo(w) == SoloLocks(w) \/ SoloLands(w) \/ SoloStops(w) \/ SoloRetires(w)

Next ==
  \/ RunSteps
  \/ OnCheckEnd
  \/ \E w \in Workers : Call(w) \/ Join(w) \/ Straight(w) \/ Solo(w)
  \/ OtherTakes \/ OtherReleases
  \/ \E f \in Foreign : HumanCommits(f) \/ HumanResets(f)
  \/ Restart

Spec == Init /\ [][Next]_vars

\* The run's task, the tasks of the calls and of the lands alone, the run
\* queue's check and the other Hive's land all go on; nobody has to call.
Fairness ==
  /\ WF_vars(RunSteps) /\ WF_vars(OnCheckEnd) /\ WF_vars(OtherReleases)
  /\ \A w \in Workers : WF_vars(Join(w) \/ Straight(w)) /\ WF_vars(Solo(w))

FairSpec == Spec /\ Fairness

----------------------------------------------------------------------------
(* What the queue promises. *)

\* Where the run is working on a set, and where it has a chain in hand.
Working == {"pop", "again", "build", "leave", "start", "mark", "await", "rx", "ended", "advance", "land"}
Chained == {"leave", "start", "mark", "await", "rx", "ended", "advance"}

\* The hands a land under way may be in, that will end it: a call, a land alone,
\* the queue of a run that goes on, the run's list of those to land alone, or
\* the members it is landing, refusing or holding.
InHand == \A w \in Workers : rec[w].state \in InProgress =>
  \/ w \in calling \cup solo \cup alone
  \/ rec[w].state = "queued_batch" /\ RUNNERS
  \/ w \in chain.in \cup chain.left /\ pc \in Chained
  \/ rec[w].state = "advancing" /\ w \in set /\ pc = "again"
  \/ w \in outs /\ pc \in {"land", "refuse", "hold"}

\* A land under way is in hands that will end it, none left in a state nobody
\* looks at (batch.rs:162, the join that races the run's end), and in one pair
\* of hands: never driven alone while the batch lands it, or while it waits in
\* the queue (`land_alone`'s filter).
OneDriver == InHand /\ \A w \in Workers :
  /\ w \in solo => w \notin calling \cup alone /\ rec[w].state # "queued_batch"
  /\ w \in alone /\ pc \notin {"release", "alone", "drive"} => rec[w].state = "locking"
  /\ w \in chain.in /\ pc \in Chained \ {"leave"} => w \notin solo \cup calling \cup alone

\* The land log has one line for a land in Base that has ended or is held, and
\* none for one that isn't in Base, through every restart (`log_repo`).
LogIsTrue == \A w \in Workers :
  /\ log[w] <= 1
  /\ log[w] = 1 => w \in base
  /\ rec[w].state \notin InProgress => (log[w] = 1 <=> w \in base)

\* A land refused for a check that failed on what it tested fails it alone on
\* the Base its chain was built on: no other member is blamed for it.  A spoiled
\* check says nothing of the tip, and may refuse a land that breaks nothing.
Innocent ==
  pc = "refuse" /\ end = "failed" => \A w \in outs : Fails(chain.base \cup {w})

\* The queue lands as the abstract specification says: Base gains only checked
\* work, and no land that is in Base is refused.
L == INSTANCE Landings WITH
  who <- [w \in Workers |->
            CASE rec[w].state = "reported" -> "out"
              [] rec[w].state = "held" -> "held"
              [] rec[w].state = "retired" -> "done"
              [] OTHER -> "in"],
  base <- base

Lands == L!Spec

\* A land waiting in the queue is answered: landed, refused or held.
QueuedEnds == \A w \in Workers :
  rec[w].state = "queued_batch" ~> rec[w].state \notin InProgress

=============================================================================
