--------------------------------- MODULE Undo ---------------------------------
(***************************************************************************)
(* Undoing a land (hive/land/undo.rs): a revert commit on the target,      *)
(* landed under the repository's land lock, through the config rule and    *)
(* the land check, by compare-and-swap; held, refused or put to the human  *)
(* on the way; settled at startup if maiTerm died in it.  With it the      *)
(* check of the target alone (base_check.rs) and the land log's standing.  *)
(*                                                                         *)
(* One repository.  Its target is the sequence of its commits, each the    *)
(* tree it has and who made it; a tree is a set of changes.  An undo is a  *)
(* file (undo) and at most one async call working on it, on its own copy;  *)
(* an await of the call ends a step.  Lands and people's commits move the  *)
(* target beside it.                                                       *)
(***************************************************************************)
EXTENDS LandLog, FiniteSets

CONSTANTS
  Lands,        \* the lands that may land here
  Adds, Drops,  \* land -> the changes it brings, those it takes away
  Root,         \* the changes the target has to begin with
  Foreign,      \* the changes people bring or take away past maiTerm
  Bad,          \* the changes with which the land check fails
  Config,       \* the changes of files that configure agents or run code
  Races,        \* the orders of steps admitted beyond the usual ones: "early
                \* end" (a check ends before its undo is saved as checking),
                \* "quick human" (a card is answered before that), "late
                \* verdict" (a check of the target alone counts though it moved)
  MaxAttempts,  \* MAX_ATTEMPTS
  MaxUndos,     \* bound: undos begun
  MaxMishaps,   \* bound: calls that fail, deaths of maiTerm, commits people make,
                \* lands whose failed check has the target checked alone, and
                \* undos after the first
  Human, None

Undos   == 1..MaxUndos
Changes == Root \cup Foreign \cup UNION {Adds[l] \cup Drops[l] : l \in Lands}

Fps     == {None} \cup ((SUBSET Config) \X (SUBSET Config))
States  == {"locking", "checking", "advancing", "held", "awaiting_human", "done", "refused"}

UndoState ==
  [undoes : Lands, by : {"coordinator", "human"}, tip : Nat, revert : (SUBSET Changes) \cup {None},
   state : States, checked : BOOLEAN, attempts : 0..MaxAttempts, approved : Fps, shown : Fps,
   same : BOOLEAN]

ASSUME UndoAssumption ==
  /\ Human \notin Lands \cup Undos /\ None \notin Lands \cup Undos
  /\ Lands \cap Undos = {}
  /\ Races \subseteq {"early end", "quick human", "late verdict"}
  /\ MaxAttempts \in Nat \ {0}
  /\ {MaxUndos, MaxMishaps} \subseteq Nat
  /\ (\A t \in SUBSET Changes : t # None) /\ \A f \in (SUBSET Config) \X (SUBSET Config) : f # None
  /\ None \notin UndoState /\ None \notin [who : Lands, at : Nat, check : {"passed", ""}]

VARIABLES
  target,   \* the target's commits, oldest first
  log,      \* logs/lands.jsonl
  undo,     \* logs/undos: per undo its file, None before it begins
  undone,   \* lands whose worker is marked undone
  task,     \* per undo the call that works on it
  lock,     \* who has the repository's land lock
  job,      \* per undo its land check in the queue, or how it ended
  card,     \* per undo the config change its card asks about
  shown,    \* per land the config change the human's confirmation shows, if any
  landing,  \* a land that moved the target and isn't logged yet
  CHECK,    \* whether the folder has a land check
  RUNNING,  \* the tip whose check of the target alone runs; 0 when none does
  up,       \* maiTerm: "up", "down", or "settling" what it finds at startup
  seen,     \* history: the config changes the human agreed to, per undo not over
  mishaps   \* what MaxMishaps counts

rest  == <<landing, CHECK>>
world == <<landing, CHECK, mishaps>>
vars  == <<target, log, undo, undone, task, lock, job, card, shown, RUNNING, up, seen, world>>

tip      == Len(target)
tree(n)  == target[n].tree
Idle     == [pc |-> "idle", u |-> None, check |-> FALSE, failed |-> FALSE]
Driving  == [Idle EXCEPT !.pc = "drive", !.check = CHECK]

\* A step with something going wrong in it, say a call that fails, and without.
Fault == mishaps < MaxMishaps /\ mishaps' = mishaps + 1
Fine  == UNCHANGED mishaps

\* Among an undo's states: it runs; it isn't over.
in_progress(u) == u # None /\ u.state \in {"locking", "checking", "advancing"}
open(u)        == in_progress(u) \/ (u # None /\ u.state \in {"awaiting_human", "held"})

\* The config files that differ from one tree to another (`config_rule::caught`).
caught(from, to) ==
  LET gone == (from \ to) \cap Config  new == (to \ from) \cap Config
  IN  IF gone \cup new = {} THEN None ELSE <<gone, new>>

\* What undo u would change of the config, and whether nobody agreed to that.
config_fp(u) == caught(tree(u.tip), u.revert)
config_unapproved_once(u) == config_fp(u) # None /\ u.approved = None   \* slip: any will do
config_unapproved(u) == config_fp(u) # None /\ u.approved # config_fp(u)

Init ==
  /\ target = <<[tree |-> Root, by |-> Human]>>
  /\ log = <<>> /\ undone = {} /\ seen = {}
  /\ undo = [u \in Undos |-> None] /\ task = [u \in Undos |-> Idle]
  /\ lock = None /\ landing = None /\ RUNNING = 0 /\ up = "up"
  /\ job = [u \in Undos |-> "none"] /\ card = [u \in Undos |-> None]
  /\ shown = [l \in Lands |-> {}]
  /\ CHECK \in BOOLEAN
  /\ mishaps = 0

-------------------------------------------------------------------------------
(* What can be undone, and what its revert is.                              *)

entry_of(l) == log[CHOOSE i \in DOMAIN log : log[i].id = l]

\* A land that is logged and no undo of which is.
resolve(l) == has(log, l) /\ undone_by(log, l) = {}

\* The inverse of what line l changed, applied to a tree.
inverse(l, t) ==
  LET before == tree(entry_of(l).at - 1)  after == tree(entry_of(l).at)
  IN  (t \ (after \ before)) \cup (before \ after)

\* slip: held ones are over
prior_running(l) == {u \in Undos : in_progress(undo[u]) /\ undo[u].undoes = l}
prior(l) == {u \in Undos : open(undo[u]) /\ undo[u].undoes = l}
fresh    == {u \in Undos : undo[u] = None}

\* "A new undo of it, or a held one of it resumed": its revert is made again.
start_state(u, l, by, fp) ==
  [undoes |-> l, by |-> by, state |-> "locking", tip |-> 0, revert |-> None, checked |-> FALSE,
   attempts |-> 0, approved |-> IF undo[u] = None THEN None ELSE undo[u].approved, shown |-> fp,
   same |-> TRUE]

Begin(u, l, by, fp) ==
  /\ up = "up" /\ resolve(l)
  /\ \A p \in prior(l) : undo[p].state = "held"
  /\ IF prior(l) # {} THEN u \in prior(l) ELSE u \in fresh /\ \A v \in fresh : u <= v
  /\ undo' = [undo EXCEPT ![u] = start_state(u, l, by, fp)]
  /\ IF undo[u] = None /\ u > 1 THEN Fault ELSE Fine
  /\ UNCHANGED <<target, log, undone, lock, job, card, RUNNING, up, rest>>

\* hiveUndoLand.  In a Hive that is done the coordinator undoes nothing.
CoordinatorUndoes(u, l) ==
  /\ Begin(u, l, "coordinator", None)
  /\ \/ task' = [task EXCEPT ![u] = Driving]
     \/ task' = [task EXCEPT ![u] = [Idle EXCEPT !.pc = "refused", !.u = undo'[u]]]
  /\ UNCHANGED <<shown, seen>>

\* The human's confirmation, built as the undo would be.
Preview(l) ==
  /\ up = "up" /\ resolve(l) /\ \A p \in prior(l) : undo[p].state = "held"
  /\ inverse(l, tree(tip)) # tree(tip)
  /\ shown' = [k \in Lands |-> IF k = l THEN {caught(tree(tip), inverse(l, tree(tip)))} ELSE {}]
  /\ UNCHANGED <<target, log, undo, undone, task, lock, job, card, RUNNING, up, seen, world>>

\* Their click on it, whenever that comes.
HumanUndoes(u, l) == \E fp \in shown[l] :
  /\ Begin(u, l, "human", fp)
  /\ task' = [task EXCEPT ![u] = Driving]
  /\ seen' = seen \cup {<<u, fp>>}
  /\ shown' = [shown EXCEPT ![l] = {}]

-------------------------------------------------------------------------------
(* The run.  `Go` writes nothing; the call goes on with copy x at pc.       *)

At(u, pc) == up = "up" /\ task[u].pc = pc
Go(u, pc, x) == task' = [task EXCEPT ![u].pc = pc, ![u].u = x]
End(u)       == task' = [task EXCEPT ![u] = Idle]
Refuse(u, x) == Go(u, "refused", x)
Hold(u, x)   == Go(u, "held", x)
save(u, x)   == undo' = [undo EXCEPT ![u] = x]

\* Its end or hold saved.  What no later step reads of the file is dropped:
\* of a held one that is all that start_state sets anew.
over(x, s) ==
  [x EXCEPT !.state = s, !.tip = 0, !.revert = None, !.checked = FALSE, !.attempts = 0,
            !.shown = None, !.same = TRUE, !.by = "coordinator",
            !.approved = IF s = "held" THEN @ ELSE None]

\* `drive` reads the file and the line, and takes the lock, waiting a while.
Drive(u) ==
  /\ At(u, "drive")
  /\ \/ Fine /\ lock \in {None, u} /\ lock' = u /\ Go(u, "tip", undo[u])
     \/ Fine /\ lock \notin {None, u} /\ Hold(u, undo[u]) /\ UNCHANGED lock
     \/ Fault /\ Refuse(u, undo[u]) /\ UNCHANGED lock
  /\ UNCHANGED <<target, log, undo, undone, job, card, shown, RUNNING, up, seen, rest>>

\* The revert, reused while the target is where it was made and it needs no
\* check more, or made on the tip: it may conflict with later work, or be gone.
reusable(u) ==
  LET x == task[u].u
  IN  x.revert # None /\ (x.checked \/ ~task[u].check) /\ x.tip = tip

build(u) ==
  LET x == task[u].u
  IN  [x EXCEPT !.tip = tip, !.revert = inverse(x.undoes, tree(tip)), !.checked = FALSE]

Built(u) == IF task[u].check THEN "queue" ELSE "advance"

as_shown(u) == u.shown = config_fp(u)
Tip(u) ==
  /\ At(u, "tip")
  /\ LET x == task[u].u  b == build(u) IN
     \/ reusable(u) /\ Fine /\ Go(u, "advance", x)
     \/ /\ ~reusable(u)
        /\ \/ /\ Fine /\ (tip > entry_of(x.undoes).at \/ b.revert = tree(tip)) /\ Refuse(u, x)
           \/ Fault /\ Refuse(u, x)
           \/ /\ Fine /\ b.revert # tree(tip)
              /\ \/ ~config_unapproved(b) /\ Go(u, Built(u), b)
                 \/ /\ config_unapproved(b) /\ b.by = "human"
                    /\ IF as_shown(b)
                       THEN Go(u, Built(u), [b EXCEPT !.approved = config_fp(b)])
                       ELSE Refuse(u, b)
                 \/ config_unapproved(b) /\ b.by = "coordinator" /\ Go(u, "ask", b)
  /\ UNCHANGED <<target, log, undo, undone, lock, job, card, shown, RUNNING, up, seen, rest>>

\* The land check, queued; then the undo saved as checking, and the call ends.
Queue(u) ==
  /\ At(u, "queue")
  /\ \/ Fine /\ job' = [job EXCEPT ![u] = "queued"] /\ Go(u, "queued", task[u].u)
     \/ Fault /\ Refuse(u, task[u].u) /\ UNCHANGED job
  /\ UNCHANGED <<target, log, undo, undone, lock, card, shown, RUNNING, up, seen, rest>>

Queued(u) ==
  LET x == [task[u].u EXCEPT !.state = "checking"] IN
  /\ At(u, "queued")
  /\ \/ Fine /\ save(u, x) /\ End(u)
     \/ Fault /\ Refuse(u, x) /\ UNCHANGED undo
  /\ UNCHANGED <<target, log, undone, lock, job, card, shown, RUNNING, up, seen, rest>>

\* The queue ends it; or it doesn't finish (interrupted, dirty).
CheckEnds(u) ==
  /\ up = "up" /\ job[u] = "queued"
  /\ undo[u].state = "checking" \/ "early end" \in Races
  /\ LET t == IF undo[u].state = "checking" THEN undo[u].revert ELSE task[u].u.revert
         verdict == IF t \cap Bad = {} THEN "passed" ELSE "failed"
     IN  \/ Fine /\ job' = [job EXCEPT ![u] = verdict]
         \/ Fault /\ job' = [job EXCEPT ![u] = "unfinished"]
  /\ UNCHANGED <<target, log, undo, undone, task, lock, card, shown, RUNNING, up, seen, rest>>

\* `on_check_end`, on a task of its own: dropped unless the undo is checking.
CheckHeard(u) ==
  LET x == undo[u]  y == [x EXCEPT !.state = "locking", !.checked = TRUE] IN
  /\ up = "up" /\ job[u] \in {"passed", "failed", "unfinished"}
  /\ CASE x.state # "checking" -> Fine /\ UNCHANGED <<undo, task>>
       [] x.state = "checking" /\ job[u] = "passed" ->
            \/ Fine /\ save(u, y) /\ task' = [task EXCEPT ![u] = Driving]
            \/ /\ Fault /\ UNCHANGED undo
               /\ task' = [task EXCEPT ![u] = [Idle EXCEPT !.pc = "refused", !.u = y]]
       [] OTHER ->
            /\ Fine /\ UNCHANGED undo
            /\ task' = [task EXCEPT ![u] =
                 [pc |-> "refused", u |-> [y EXCEPT !.checked = FALSE], check |-> CHECK,
                  failed |-> job[u] = "failed"]]
  /\ job' = [job EXCEPT ![u] = "none"]
  /\ UNCHANGED <<target, log, undone, lock, card, shown, RUNNING, up, seen, rest>>

\* Step 2: "persisted before the target moves, so a restart reads the repo".
Advance(u) ==
  LET x == [task[u].u EXCEPT !.state = "advancing"] IN
  /\ At(u, "advance")
  /\ \/ Fine /\ save(u, x) /\ Go(u, "cas", x)
     \/ Fault /\ Refuse(u, x) /\ UNCHANGED undo
  /\ UNCHANGED <<target, log, undone, lock, job, card, shown, RUNNING, up, seen, rest>>

\* The compare-and-swap.  A target that moved has the revert made again; files
\* in its checkout may hold it.
unmoved_any(x) == TRUE                          \* slip: the target is set, whatever it has become
unmoved(x) == x.tip = tip
Cas(u) ==
  LET x == task[u].u  n == x.attempts + 1 IN
  /\ At(u, "cas")
  /\ \/ /\ Fine /\ unmoved(x) /\ Go(u, "log", x)
        /\ target' = Append(target, [tree |-> x.revert, by |-> u])
     \/ /\ Fine /\ ~unmoved(x) /\ UNCHANGED target
        /\ IF n >= MaxAttempts THEN Hold(u, [x EXCEPT !.attempts = n])
           ELSE Go(u, "tip", [x EXCEPT !.attempts = n, !.state = "locking",
                                       !.revert = None, !.checked = FALSE])
     \/ Fault /\ (Hold(u, x) \/ Refuse(u, x)) /\ UNCHANGED target
  /\ UNCHANGED <<log, undo, undone, lock, job, card, shown, RUNNING, up, seen, rest>>

-------------------------------------------------------------------------------
(* The check of the target alone, and the lines of the log.                 *)

Line(id, kind, of, at, check, same) ==
  [id |-> id, kind |-> kind, undoes |-> of, at |-> at, check |-> check, same |-> same]

\* `run`: none where there is no check, or one already runs there.
base_check == RUNNING' = IF CHECK /\ RUNNING = 0 THEN tip ELSE RUNNING

\* `ended`: its line is logged, unless it didn't finish.
BaseEnds ==
  /\ up = "up" /\ RUNNING # 0
  /\ \/ /\ Fine /\ (RUNNING = tip \/ "late verdict" \in Races)
        /\ log' = Append(log, Line(None, "base_check", None, RUNNING,
                    IF tree(RUNNING) \cap Bad = {} THEN "passed" ELSE "failed", TRUE))
     \/ Fault /\ UNCHANGED log
     \/ Fine /\ RUNNING # tip /\ "late verdict" \notin Races /\ UNCHANGED log
  /\ RUNNING' = 0
  /\ UNCHANGED <<target, undo, undone, task, lock, job, card, shown, up, seen, rest>>

undo_line_next(u, x) ==                         \* slip: one commit too far
  Line(u, "undo", x.undoes, x.tip + 2, IF x.checked THEN "passed" ELSE "", x.same)
undo_line(u, x) ==
  Line(u, "undo", x.undoes, x.tip + 1, IF x.checked THEN "passed" ELSE "", x.same)

\* `log_undo`: its line, unless it has one.
log_undo(u, x) == log' = IF has(log, u) THEN log ELSE Append(log, undo_line(u, x))

-------------------------------------------------------------------------------
(* How it ends.                                                             *)

\* `finish`: the tree that landed is read and the line logged; the lock let go
\* and the land's worker marked; and the undo done, one after the other.  A
\* confirmation still open has nothing left to undo.
Log(u) ==
  LET x == [task[u].u EXCEPT !.same = tree(tip) = task[u].u.revert] IN
  /\ At(u, "log") /\ log_undo(u, x) /\ Go(u, "mark", x)
  /\ shown' = [shown EXCEPT ![x.undoes] = {}]
  /\ UNCHANGED <<target, undo, undone, lock, job, card, RUNNING, up, seen, world>>

Mark(u) ==
  /\ At(u, "mark")
  /\ lock' = None /\ undone' = undone \cup {task[u].u.undoes}
  /\ Go(u, "done", task[u].u)
  /\ UNCHANGED <<target, log, undo, job, card, shown, RUNNING, up, seen, world>>

\* A tree that isn't the tested one has the target checked alone.
Done(u) ==
  /\ At(u, "done")
  /\ save(u, over(task[u].u, "done"))
  /\ seen' = seen \ ({u} \X Fps)
  /\ IF task[u].u.same THEN End(u) ELSE Go(u, "post", None)
  /\ UNCHANGED <<target, log, undone, lock, job, card, shown, RUNNING, up, world>>

Post(u) ==
  /\ At(u, "post") /\ base_check /\ End(u)
  /\ UNCHANGED <<target, log, undo, undone, lock, job, card, shown, up, seen, world>>

\* `cleanup`: its check interrupted if it waits for one, its lock let go.
cleanup(u, x) ==
  /\ lock' = IF lock = u THEN None ELSE lock
  /\ job' = IF x.state = "checking" THEN [job EXCEPT ![u] = "none"] ELSE job

\* `refuse` and `hold`: cleaned up and saved; a failed check has the target
\* checked alone.
Close(u) ==
  /\ up = "up" /\ task[u].pc \in {"refused", "held"}
  /\ cleanup(u, task[u].u) /\ save(u, over(task[u].u, task[u].pc))
  /\ seen' = IF task[u].pc = "refused" THEN seen \ ({u} \X Fps) ELSE seen
  /\ IF task[u].failed THEN Go(u, "post", None) ELSE End(u)
  /\ UNCHANGED <<target, log, undone, card, shown, RUNNING, up, world>>

\* `await_human`: cleaned up and the card filed, then the undo saved as waiting.
Ask(u) ==
  /\ At(u, "ask") /\ cleanup(u, task[u].u)
  /\ \/ Fine /\ card' = [card EXCEPT ![u] = config_fp(task[u].u)] /\ Go(u, "asked", task[u].u)
     \/ Fault /\ Refuse(u, task[u].u) /\ UNCHANGED card
  /\ UNCHANGED <<target, log, undo, undone, shown, RUNNING, up, seen, rest>>

Asked(u) ==
  LET x == [task[u].u EXCEPT !.state = "awaiting_human", !.checked = FALSE] IN
  /\ At(u, "asked")
  /\ \/ Fine /\ save(u, x) /\ End(u) /\ UNCHANGED card
     \/ Fault /\ Refuse(u, x) /\ card' = [card EXCEPT ![u] = None] /\ UNCHANGED undo
  /\ UNCHANGED <<target, log, undone, lock, job, shown, RUNNING, up, seen, rest>>

\* The card's answer: `approved` takes the undo on with the human's say-so,
\* `closed` (denied, lapsed) refuses it; an undo not waiting on it stays.
Answered(u) ==
  /\ up = "up" /\ card[u] # None
  /\ undo[u].state = "awaiting_human" \/ "quick human" \in Races
  /\ card' = [card EXCEPT ![u] = None]
  /\ UNCHANGED <<target, log, undone, lock, job, shown, RUNNING, up, world>>

Approve(u) ==
  /\ Answered(u)
  /\ seen' = seen \cup {<<u, card[u]>>}
  /\ IF undo[u].state = "awaiting_human"
     THEN /\ save(u, [undo[u] EXCEPT !.state = "locking", !.approved = card[u]])
          /\ task' = [task EXCEPT ![u] = Driving]
     ELSE UNCHANGED <<undo, task>>

Deny(u) ==
  /\ Answered(u) /\ UNCHANGED <<undo, seen>>
  /\ IF undo[u].state = "awaiting_human"
     THEN task' = [task EXCEPT ![u] = [Idle EXCEPT !.pc = "refused", !.u = undo[u]]]
     ELSE UNCHANGED task

-------------------------------------------------------------------------------
(* The world: lands and people move the target; a check is configured; a    *)
(* land's check fails; maiTerm dies, and settles what it finds.             *)

landed(l)  == \E n \in 1..tip : target[n].by = l
merged(l)  == (tree(tip) \cup Adds[l]) \ Drops[l]
passes(t)  == ~CHECK \/ t \cap Bad = {}

LandMoves(l) ==
  /\ up = "up" /\ lock = None /\ landing = None /\ ~landed(l)
  /\ merged(l) # tree(tip) /\ passes(merged(l))
  /\ target' = Append(target, [tree |-> merged(l), by |-> l])
  /\ lock' = l
  /\ landing' = [who |-> l, at |-> tip + 1, check |-> IF CHECK THEN "passed" ELSE ""]
  /\ UNCHANGED <<log, undo, undone, task, job, card, shown, RUNNING, up, seen,
                 CHECK, mishaps>>

\* Logged by its run, or by `reconcile` from what the run had saved.
LandLogged ==
  LET same == tree(tip) = tree(landing.at) IN
  /\ up # "down" /\ landing # None
  /\ log' = Append(log, Line(landing.who, "land", None, landing.at, landing.check,
                             up = "settling" \/ same))
  /\ IF up = "up" /\ ~same THEN base_check ELSE UNCHANGED RUNNING
  /\ lock' = None /\ landing' = None
  /\ UNCHANGED <<target, undo, undone, task, job, card, shown, up, seen,
                 CHECK, mishaps>>

LandFails(l) ==
  /\ up = "up" /\ ~landed(l) /\ ~passes(merged(l)) /\ Fault /\ base_check
  /\ UNCHANGED <<target, log, undo, undone, task, lock, job, card, shown, up, seen,
                 landing, CHECK>>

\* Somebody commits on the target, bringing a change or taking it back.
Commit(c) ==
  /\ Fault
  /\ LET t == IF c \in tree(tip) THEN tree(tip) \ {c} ELSE tree(tip) \cup {c}
     IN  target' = Append(target, [tree |-> t, by |-> Human])
  /\ UNCHANGED <<log, undo, undone, task, lock, job, card, shown, RUNNING, up, seen,
                 landing, CHECK>>

SetCheck ==
  /\ up = "up" /\ ~CHECK /\ CHECK' = TRUE
  /\ UNCHANGED <<target, log, undo, undone, task, lock, job, card, shown, RUNNING, up,
                 seen, landing, mishaps>>

\* What only memory holds is lost, and the lock is a dead process's.
Crash ==
  /\ up # "down" /\ Fault /\ up' = "down"
  /\ task' = [u \in Undos |-> Idle] /\ job' = [u \in Undos |-> "none"]
  /\ card' = [u \in Undos |-> None] /\ shown' = [l \in Lands |-> {}]
  /\ lock' = None /\ RUNNING' = 0
  /\ UNCHANGED <<target, log, undo, undone, seen, landing, CHECK>>

Restart ==
  /\ up = "down" /\ up' = "settling"
  /\ UNCHANGED <<target, log, undo, undone, task, lock, job, card, shown, RUNNING, seen, world>>

\* `reconcile_in`, per undo left running: caught in step 2 with its revert in
\* the target, it landed, and its line and mark are written now; else it holds.
in_target_trusting(u) == undo[u].state = "advancing"   \* slip: taken for landed unseen
in_target(u) ==
  /\ undo[u].state = "advancing" /\ tip > undo[u].tip
  /\ target[undo[u].tip + 1] = [tree |-> undo[u].revert, by |-> u]

Settle(u) ==
  LET x == [undo[u] EXCEPT !.same = TRUE] IN
  /\ up = "settling" /\ landing = None /\ in_progress(undo[u])
  /\ \/ in_target(u) /\ ~has(log, u) /\ log_undo(u, x) /\ UNCHANGED <<undo, undone>>
     \/ /\ in_target(u) /\ has(log, u) /\ UNCHANGED log
        /\ undone' = undone \cup {x.undoes} /\ save(u, over(x, "done"))
     \/ ~in_target(u) /\ save(u, over(x, "held")) /\ UNCHANGED <<log, undone>>
  /\ UNCHANGED <<target, task, lock, job, card, shown, RUNNING, up, seen, world>>

\* `refile_in`: what waited on the human is asked again; then tabs come up.
Refile ==
  /\ up = "settling" /\ landing = None /\ \A u \in Undos : ~in_progress(undo[u])
  /\ up' = "up"
  /\ card' = [u \in Undos |-> IF undo[u] # None /\ undo[u].state = "awaiting_human"
                              THEN config_fp(undo[u]) ELSE None]
  /\ UNCHANGED <<target, log, undo, undone, task, lock, job, shown, RUNNING, seen, world>>

-------------------------------------------------------------------------------
Step(u) ==
  \/ Drive(u) \/ Tip(u) \/ Queue(u) \/ Queued(u) \/ Advance(u) \/ Cas(u)
  \/ Log(u) \/ Mark(u) \/ Done(u) \/ Post(u)
  \/ Close(u) \/ Ask(u) \/ Asked(u)

Startup == Restart \/ Refile \/ (\E u \in Undos : Settle(u))

Next ==
  \/ \E u \in Undos, l \in Lands : CoordinatorUndoes(u, l) \/ HumanUndoes(u, l)
  \/ \E l \in Lands : Preview(l) \/ LandMoves(l) \/ LandFails(l)
  \/ \E u \in Undos : Step(u) \/ CheckEnds(u) \/ CheckHeard(u) \/ Approve(u) \/ Deny(u)
  \/ \E c \in Foreign : Commit(c)
  \/ BaseEnds \/ LandLogged \/ SetCheck \/ Crash \/ Startup

Spec == Init /\ [][Next]_vars

-------------------------------------------------------------------------------
(* Properties                                                               *)

TypeOK ==
  /\ \A n \in 1..tip : tree(n) \subseteq Changes /\ target[n].by \in {Human} \cup Lands \cup Undos
  /\ \A i \in DOMAIN log :
       /\ log[i].kind \in {"land", "undo", "base_check"} /\ log[i].at \in 1..tip
       /\ log[i].check \in {"passed", "failed", ""} /\ log[i].same \in BOOLEAN
  /\ undone \subseteq Lands /\ seen \subseteq Undos \X Fps
  /\ \A u \in Undos :
       /\ {undo[u], task[u].u} \subseteq UndoState \cup {None}
       /\ \A x \in {undo[u], task[u].u} \ {None} : x.tip <= tip
       /\ {task[u].check, task[u].failed} \subseteq BOOLEAN
       /\ job[u] \in {"none", "queued", "passed", "failed", "unfinished"} /\ card[u] \in Fps
  /\ \A l \in Lands : shown[l] \subseteq Fps
  /\ lock \in Lands \cup Undos \cup {None} /\ RUNNING \in 0..tip
  /\ landing # None => landing.who \in Lands /\ landing.at \in 1..tip
  /\ CHECK \in BOOLEAN /\ up \in {"up", "down", "settling"}

Lines(u)   == {i \in DOMAIN log : log[i].id = u}
Reverts(u) == {n \in 1..tip : target[n].by = u}

\* At rest, after any crash too, an undo is what its file says: done exactly if
\* its one revert is in the target, under one line of the log, its worker
\* marked; checking with a check to hear of, waiting with a card to answer;
\* and only a checking one keeps the lock.
Settled == \A u \in Undos :
  up = "up" /\ undo[u] # None /\ task[u].pc \in {"idle", "post"} =>
    LET s == undo[u].state IN
    /\ Cardinality(Reverts(u)) = (IF s = "done" THEN 1 ELSE 0)
    /\ Cardinality(Lines(u)) = Cardinality(Reverts(u))
    /\ s = "done" => undo[u].undoes \in undone
    /\ s \notin {"locking", "advancing"}
    /\ s = "checking" => job[u] # "none" /\ lock = u
    /\ s = "awaiting_human" => card[u] # None
    /\ lock = u => s = "checking"

\* A land is taken back once, whoever asks how often and maiTerm dies when it
\* may: one undo of it is open at a time, one revert of it is in the target.
OnceUndone == \A l \in Lands :
  LET mine == {u \in Undos : undo[u] # None /\ undo[u].undoes = l}
  IN  /\ Cardinality({u \in mine : open(undo[u])}) <= 1
      /\ Cardinality(UNION {Reverts(u) : u \in mine}) <= 1

Moves(u) == task[u].pc = "cas" /\ task'[u].pc = "log"

\* A revert that changes agent or execution config changes exactly what the
\* human agreed to, on the card or in their confirmation, wherever the target
\* has moved since (undo.rs:14).
RevertSeen == [][\A u \in Undos : Moves(u) =>
  LET change == caught(tree(tip), tree(tip)')
  IN  change # None => <<u, change>> \in seen]_vars

\* A revert takes back what its land changed on the target as it is, nothing
\* that came later, and, where the run has a land check, to a tree that passes.
RevertClean == [][\A u \in Undos : Moves(u) =>
  /\ tree(tip)' = inverse(task[u].u.undoes, tree(tip))
  /\ task[u].check => tree(tip)' \cap Bad = {}]_vars

\* When the target fails its check alone, each line that brought what it fails
\* with is a suspect (base_check.rs:9), through passes, reverts and races.
brought(c, n) ==
  {k \in 2..n : c \in tree(k) \ tree(k - 1) /\ \A m \in k..n : c \in tree(m)}
CulpritNamed == [][
  Len(log') > Len(log) /\ log'[Len(log')].check = "failed" =>
    LET n == log'[Len(log')].at IN
    \A i \in DOMAIN log : moved_target(log[i]) =>
      \A c \in tree(n) \cap Bad :
        log[i].at \in brought(c, n) => log[i].id \in fold(log').suspect]_vars
================================================================================
