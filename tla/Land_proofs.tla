------------------------------ MODULE Land_proofs ------------------------------
(***************************************************************************)
(* Theorems about Land, for any workers, repositories, orders, checks,     *)
(* config files and orders of steps (Races).  They follow from Inv: what a *)
(* copy of a land, on disk or in a task's hands, says of Base, of the      *)
(* commits named and tested, and of what the human agreed to.              *)
(***************************************************************************)
EXTENDS Land, FiniteSetTheorems, WellFoundedInduction, TLAPS

-------------------------------------------------------------------------------
(* The invariant.  World is all a copy of a land is measured against; it    *)
(* only grows, but for the queue, whose new jobs nothing mentions yet.      *)

World == [base |-> base, reviewed |-> reviewed, passed |-> passed, approved |-> approved,
          queued |-> jobs \cup {e.job : e \in ends}]

Grows(V, U) ==
    /\ \A r \in Repos : V.base[r] \subseteq U.base[r]
    /\ \A w \in Workers : \A r \in Of[w] : V.reviewed[w][r] \subseteq U.reviewed[w][r]
    /\ V.passed \subseteq U.passed /\ V.approved \subseteq U.approved

\* A worker's own commits are its first n, for some n.
Upto(w, n) == {<<w, i>> : i \in 1..n}
Own(w, S)  == \E n \in 1..MaxWork : S \cap Work(w) = Upto(w, n)

\* What a branch points at and hiveLand names: own commits, and others' only as
\* Base has them.
Tip(V, w, r, S) == S \in Commits /\ Own(w, S) /\ S \ Work(w) \subseteq V.base[r]

\* The catch is that of the tested commit.
Stepped(e) == e.tested # None => e.fp = caught(e.base_before, e.tested)

Proven(V, r, e) == r \in Checked /\ e.tested # None => <<r, e.tested>> \in V.passed

\* The commit tested is Base as step 1 found it, with the commit named.
Merged(V, w, r, e) ==
    e.tested # None => /\ e.base_before # None /\ e.base_before \subseteq V.base[r]
                       /\ e.tested = e.base_before \cup e.pinned /\ Own(w, e.tested)

\* A check queued for this entry checks its tested commit.
Asked(V, w, r, e) ==
    \A q \in V.queued : q.worker = w /\ q.repo = r /\ q.id = e.job /\ e.tested # None
                          => q.tested = e.tested

\* What a status claims.
Claims(V, w, r, e) ==
    /\ e.status \in {"tested", "landed"} => e.tested # None
    /\ e.status = "landed" => e.tested \subseteq V.base[r]
    /\ e.status \in {"tested", "advancing", "held"} => Proven(V, r, e) /\ Stepped(e)
    /\ e.status = "checking" => Stepped(e) /\ Asked(V, w, r, e)

\* A repository of a copy of worker w's land.
Entry(V, w, r, e) ==
    /\ e \in LandRepo /\ Tip(V, w, r, e.pinned) /\ Merged(V, w, r, e) /\ Claims(V, w, r, e)
    /\ e.config_approved # None => <<w, r, e.config_approved>> \in V.approved

Whole(V, w, l) == l \in LandState(w) /\ \A r \in Of[w] : Entry(V, w, r, l.repos[r])
Seen(V, w, l)  == \A r \in Of[w] : l.repos[r].pinned \in V.reviewed[w][r]

\* A copy of a land that goes on: no attempt too many, and a tested commit where
\* a check or step 2 is under way.
Sane(e)  == /\ e.status # "landed" => e.attempts < MaxAttempts
            /\ e.status \in {"checking", "advancing"} => e.tested # None
Clean(w, l) == \A r \in Of[w] : Sane(l.repos[r])
Plain(w, l) == \A r \in Of[w] : l.repos[r].status \in {"landed", "tested", "pending"}
Post(w, l)  == \A r \in Of[w] : l.repos[r].status = "pending" => Stepped(l.repos[r])

\* A land fit for worker.json.
Fit(V, w, l) ==
    /\ Whole(V, w, l) /\ Seen(V, w, l)
    /\ l.state # "held" => Clean(w, l)
    /\ l.state = "checking" => Post(w, l)

RecordOf(V, w, d) ==
    /\ d.phase \in Phases /\ d.land \in LandState(w) \cup {None}
    /\ d.phase = "landing" => d.land # None
    /\ d.land # None => Fit(V, w, d.land)

\* A task of worker w, by where it stands.
Ending  == {"finish", "finishSave", "unretire", "retire", "saveEnd", "after"}
Holding == {"holdClean", "holdSave"}

TaskOf(V, w, x) ==
    /\ x \in [pc : PCs, land : LandState(w) \cup {None}, todo : SUBSET Of[w],
              repo : Of[w] \cup {None}, again : BOOLEAN]
    /\ x.pc = "idle" => x = Idle
    /\ x.pc # "idle" => Whole(V, w, x.land)
    /\ x.pc \notin {"idle", "called"} => Seen(V, w, x.land)
    /\ x.pc \notin {"idle", "hold"} \cup Holding => Clean(w, x.land)
    /\ x.pc \notin {"idle", "refuse", "clean", "hold"} => x.land.state # "checking"
    /\ x.pc = "called" \/ (x.pc = "ask" /\ x.land.state # "advancing") => Plain(w, x.land)
    /\ x.pc = "prep" =>
         /\ x.todo \subseteq unlanded(x.land)
         /\ \A r \in Of[w] \ x.todo :
              x.land.repos[r].status = "pending" => Stepped(x.land.repos[r])
    /\ x.pc = "check" => \A r \in x.todo : /\ x.land.repos[r].status = "pending"
                                           /\ x.land.repos[r].tested # None
    /\ x.pc \in {"check", "gate", "cas", "log", "saveLanded"} => Post(w, x.land)
    /\ x.pc \in {"gate", "cas", "log", "saveLanded"} => x.land.state = "advancing"
    /\ x.pc \in {"cas", "log"} =>
         LET e == x.land.repos[x.repo] IN
           x.repo \in Of[w] /\ e.status = "advancing" /\ ~config_unapproved(e)
    /\ x.pc = "log" => x.land.repos[x.repo].tested \subseteq V.base[x.repo]
    /\ x.pc = "hold" /\ x.repo \in Of[w] =>
         Proven(V, x.repo, x.land.repos[x.repo]) /\ Stepped(x.land.repos[x.repo])
    /\ x.pc \in Holding => x.land.state = "held"
    /\ x.pc \in Ending => unlanded(x.land) = {}

Lands   == UNION {LandState(w) : w \in Workers}
AnyLand == Lands \cup {None}
Record  == [phase : Phases, land : AnyLand]
Task    == [pc : PCs, land : AnyLand, todo : SUBSET Repos, repo : Repos \cup {None},
            again : BOOLEAN]

CardOf(d) ==
    /\ d.worker \in Workers
    /\ DOMAIN d.fps \subseteq Of[d.worker] /\ \A r \in DOMAIN d.fps : d.fps[r] \in Catches

Counters == /\ up \in BOOLEAN /\ seq \in 0..MaxLands /\ crashes \in 0..MaxCrashes
            /\ lock \in [Repos -> (1..MaxLands) \cup {None}]

Trees ==
    /\ base \in [Repos -> Commits]
    /\ DOMAIN branch = Workers /\ DOMAIN reviewed = Workers
    /\ \A w \in Workers :
         /\ branch[w] \in [Of[w] -> Commits] /\ reviewed[w] \in [Of[w] -> SUBSET Commits]
         /\ \A r \in Of[w] : /\ Tip(World, w, r, branch[w][r])
                             /\ \A pin \in reviewed[w][r] : Own(w, pin)
    /\ LandedIsReviewed

Queue ==
    /\ jobs \subseteq JobSet /\ ends \subseteq [job : JobSet, passed : BOOLEAN]
    /\ \A q \in jobs : q.repo \in Of[q.worker]
    /\ \A e \in ends : /\ e.job.repo \in Of[e.job.worker]
                       /\ e.passed => <<e.job.repo, e.job.tested>> \in passed

Cards   == \A d \in cards : CardOf(d)
Records == disk \in [Workers -> Record] /\ \A w \in Workers : RecordOf(World, w, disk[w])
Hands   == task \in [Tasks -> Task] /\ \A t \in Tasks : TaskOf(World, t[1], task[t])

Inv == Counters /\ Trees /\ Queue /\ Cards /\ Records /\ Hands

-------------------------------------------------------------------------------
(* Sequences of repositories, and sets of commits.                          *)

Below == {ss \in Nat \X Nat : ss[1] < ss[2]}

\* A nonempty set of naturals has a least element.
LEMMA Least == ASSUME NEW T \in SUBSET Nat, T # {} PROVE \E x \in T : \A y \in T : x <= y
  <1>1. IsWellFoundedOn(Below, Nat)
    BY NatLessThanWellFounded DEF OpToRel, Below
  <1>2. PICK x \in T : \A y \in T : ~ (<<y, x>> \in Below)
    BY <1>1, WFMin
  <1>3. \A y \in T : ~(y < x)
    BY <1>2 DEF Below
  <1> QED BY <1>3

\* First is one of the repositories asked for.
LEMMA FirstIn ==
  ASSUME NEW s \in Seq(Repos), NEW S, \E i \in DOMAIN s : s[i] \in S
  PROVE  First(s, S) \in S
  <1> DEFINE at == {i \in DOMAIN s : s[i] \in S}
  <1>1. at \in SUBSET Nat /\ at # {}
    OBVIOUS
  <1>2. \E x \in at : \A y \in at : x <= y
    BY <1>1, Least
  <1> DEFINE c == CHOOSE i \in at : \A j \in at : i <= j
  <1>3. c \in at
    BY <1>2
  <1> QED BY <1>3 DEF First

LEMMA FirstFolder == ASSUME NEW S \in SUBSET Repos, S # {} PROVE First(Folders, S) \in S
  <1>1. Folders \in Seq(Repos)
    BY LandAssumption
  <1>2. \E i \in DOMAIN Folders : Folders[i] \in S
    BY DEF Repos
  <1> QED BY <1>1, <1>2, FirstIn

LEMMA OfRepos == \A w \in Workers : Of[w] \subseteq Repos
  BY LandAssumption

LEMMA NextIn ==
  ASSUME NEW w \in Workers, NEW l \in LandState(w), unlanded(l) # {}
  PROVE  next_in_order(l) \in unlanded(l) /\ next_in_order(l) \in Of[w]
  <1>1. l.order \in Seq(Repos) /\ unlanded(l) \subseteq Of[w]
    BY LandAssumption DEF LandState, unlanded, landed
  <1>2. next_in_order(l) \in unlanded(l)
    <2>1. CASE \E i \in DOMAIN l.order : l.order[i] \in unlanded(l)
      BY <2>1, <1>1, FirstIn DEF next_in_order
    <2>2. CASE ~ \E i \in DOMAIN l.order : l.order[i] \in unlanded(l)
      BY <2>2, <1>1, FirstFolder, OfRepos DEF next_in_order
    <2> QED BY <2>1, <2>2
  <1> QED BY <1>1, <1>2

\* A union of a worker's commits is one of them.
LEMMA OwnUnion == ASSUME NEW w, NEW S, NEW T, Own(w, S), Own(w, T) PROVE Own(w, S \cup T)
  <1>1. PICK n \in 1..MaxWork : S \cap Work(w) = Upto(w, n)
    BY DEF Own
  <1>2. PICK m \in 1..MaxWork : T \cap Work(w) = Upto(w, m)
    BY DEF Own
  <1>3. (S \cup T) \cap Work(w) = Upto(w, n) \cup Upto(w, m)
    BY <1>1, <1>2
  <1>4. CASE n <= m
    <2>1. Upto(w, n) \cup Upto(w, m) = Upto(w, m)
      BY <1>4 DEF Upto
    <2> QED BY <1>3, <2>1 DEF Own
  <1>5. CASE m <= n
    <2>1. Upto(w, n) \cup Upto(w, m) = Upto(w, n)
      BY <1>5 DEF Upto
    <2> QED BY <1>3, <2>1 DEF Own
  <1> QED BY <1>4, <1>5

\* Two of a worker's commits: one contains the other's own changes.
LEMMA OwnEither ==
  ASSUME NEW w, NEW S, NEW T, Own(w, S), Own(w, T)
  PROVE  \/ (S \cup T) \cap Work(w) = S \cap Work(w)
         \/ (S \cup T) \cap Work(w) = T \cap Work(w)
  <1>1. PICK n \in 1..MaxWork : S \cap Work(w) = Upto(w, n)
    BY DEF Own
  <1>2. PICK m \in 1..MaxWork : T \cap Work(w) = Upto(w, m)
    BY DEF Own
  <1>3. (S \cup T) \cap Work(w) = Upto(w, n) \cup Upto(w, m)
    BY <1>1, <1>2
  <1>4. Upto(w, n) \subseteq Upto(w, m) \/ Upto(w, m) \subseteq Upto(w, n)
    BY DEF Upto
  <1> QED BY <1>1, <1>2, <1>3, <1>4

LEMMA OwnMore ==
  ASSUME NEW w, NEW S, NEW T, Own(w, S), T \cap Work(w) = {} PROVE Own(w, S \cup T)
  <1>1. (S \cup T) \cap Work(w) = S \cap Work(w)
    OBVIOUS
  <1> QED BY <1>1 DEF Own

\* What Base holds of a worker's work adds nothing of its own.
LEMMA OwnBase ==
  ASSUME Trees, NEW w \in Workers, NEW r \in Of[w], NEW S, Own(w, S)
  PROVE  Own(w, base[r] \cup S)
  <1>1. CASE base[r] \cap Work(w) = {}
    <2>1. S \cup base[r] = base[r] \cup S
      OBVIOUS
    <2> QED BY <1>1, <2>1, OwnMore
  <1>2. CASE base[r] \cap Work(w) # {}
    <2>1. PICK pin \in reviewed[w][r] : pin \cap Work(w) = base[r] \cap Work(w)
      BY <1>2 DEF Trees, LandedIsReviewed
    <2>2. Own(w, pin)
      BY <2>1 DEF Trees
    <2>3. Own(w, base[r])
      BY <2>1, <2>2 DEF Own
    <2> QED BY <2>3, OwnUnion
  <1> QED BY <1>1, <1>2

-------------------------------------------------------------------------------
(* What a copy says stays true as the world grows.                          *)

LEMMA EntryKept ==
  ASSUME NEW V, NEW U, Grows(V, U), NEW w \in Workers, NEW r \in Of[w], NEW e,
         Entry(V, w, r, e),
         \A q \in U.queued : q \in V.queued \/ q.id # e.job
  PROVE  Entry(U, w, r, e)
  <1>1. V.base[r] \subseteq U.base[r] /\ V.passed \subseteq U.passed
        /\ V.approved \subseteq U.approved
    BY OfRepos DEF Grows
  <1>2. Tip(U, w, r, e.pinned) /\ Merged(U, w, r, e)
    BY <1>1 DEF Entry, Tip, Merged
  <1>3. Claims(U, w, r, e)
    BY <1>1 DEF Entry, Claims, Proven, Asked
  <1> QED BY <1>1, <1>2, <1>3 DEF Entry

LEMMA WholeKept ==
  ASSUME NEW V, NEW U, Grows(V, U), NEW w \in Workers, NEW l, Whole(V, w, l),
         \A q \in U.queued : q \in V.queued \/ \A r \in Of[w] : l.repos[r].job # q.id
  PROVE  Whole(U, w, l)
  <1>1. ASSUME NEW r \in Of[w] PROVE Entry(U, w, r, l.repos[r])
    BY EntryKept DEF Whole
  <1> QED BY <1>1 DEF Whole

LEMMA SeenKept ==
  ASSUME NEW V, NEW U, Grows(V, U), NEW w \in Workers, NEW l, Seen(V, w, l)
  PROVE  Seen(U, w, l)
  BY DEF Seen, Grows

LEMMA RecordKept ==
  ASSUME NEW V, NEW U, Grows(V, U), NEW w \in Workers, NEW d, RecordOf(V, w, d),
         d.land # None => \A q \in U.queued : q \in V.queued \/
                            \A r \in Of[w] : d.land.repos[r].job # q.id
  PROVE  RecordOf(U, w, d)
  BY WholeKept, SeenKept DEF RecordOf, Fit

LEMMA TaskKept ==
  ASSUME NEW V, NEW U, Grows(V, U), NEW w \in Workers, NEW x, TaskOf(V, w, x),
         x.land # None => \A q \in U.queued : q \in V.queued \/
                            \A r \in Of[w] : x.land.repos[r].job # q.id
  PROVE  TaskOf(U, w, x)
  <1>1. x.pc # "idle" => x.land # None
    BY NoneAssumption DEF TaskOf, Whole
  <1>2. x.pc # "idle" => Whole(U, w, x.land)
    BY <1>1, WholeKept DEF TaskOf
  <1>3. x.pc \notin {"idle", "called"} => Seen(U, w, x.land)
    BY SeenKept DEF TaskOf
  <1>4. x.pc = "log" => x.land.repos[x.repo].tested \subseteq U.base[x.repo]
    BY OfRepos DEF TaskOf, Grows
  <1>5. x.pc = "hold" /\ x.repo \in Of[w] => Proven(U, x.repo, x.land.repos[x.repo])
    BY DEF TaskOf, Grows, Proven
  <1> QED BY <1>2, <1>3, <1>4, <1>5 DEF TaskOf

\* Only the queue may hold something new: a job nothing mentions.
Unmentioned(q) ==
    /\ \A v \in Workers : disk[v].land # None =>
         \A r \in Of[v] : disk[v].land.repos[r].job # q.id
    /\ \A t \in Tasks : task[t].land # None =>
         \A r \in Of[t[1]] : task[t].land.repos[r].job # q.id

Onward == Grows(World, World') /\ \A q \in World'.queued : q \in World.queued \/ Unmentioned(q)

LEMMA TaskWorker == \A t \in Tasks : t[1] \in Workers
  BY DEF Tasks

LEMMA LandAny == \A w \in Workers : LandState(w) \cup {None} \subseteq AnyLand
  <1>1. ASSUME NEW w \in Workers, NEW l \in LandState(w) PROVE l \in Lands
    <2> DEFINE all == {LandState(v) : v \in Workers}
    <2>1. LandState(w) \in all
      OBVIOUS
    <2> QED BY <2>1 DEF Lands
  <1> QED BY <1>1 DEF AnyLand

LEMMA TaskTyped ==
  ASSUME NEW V, NEW w \in Workers, NEW x, TaskOf(V, w, x) PROVE x \in Task
  BY OfRepos, LandAny DEF TaskOf, Task

LEMMA RecordTyped ==
  ASSUME NEW V, NEW w \in Workers, NEW d, d \in [phase : Phases, land : LandState(w) \cup {None}]
  PROVE  d \in Record
  BY LandAny DEF Record

\* The records stay as they are.
LEMMA RecordsKept == ASSUME Records, Onward, disk' = disk PROVE Records'
  <1>1. ASSUME NEW w \in Workers PROVE RecordOf(World', w, disk[w])
    <2>1. RecordOf(World, w, disk[w])
      BY DEF Records
    <2> QED BY <2>1, RecordKept DEF Onward, Unmentioned
  <1> QED BY <1>1 DEF Records

\* One record is written.
LEMMA RecordsWith ==
  ASSUME Records, Onward, NEW w \in Workers, NEW d, disk' = [disk EXCEPT ![w] = d],
         d \in [phase : Phases, land : LandState(w) \cup {None}], RecordOf(World', w, d)
  PROVE  Records'
  <1>1. ASSUME NEW v \in Workers PROVE RecordOf(World', v, disk'[v])
    <2>1. CASE v = w
      BY <2>1 DEF Records
    <2>2. CASE v # w
      <3>1. RecordOf(World, v, disk[v]) /\ disk'[v] = disk[v]
        BY <2>2 DEF Records
      <3> QED BY <3>1, RecordKept DEF Onward, Unmentioned
    <2> QED BY <2>1, <2>2
  <1>2. disk' \in [Workers -> Record]
    BY RecordTyped DEF Records
  <1> QED BY <1>1, <1>2 DEF Records

\* The tasks stay as they are.
LEMMA HandsKept == ASSUME Hands, Onward, task' = task PROVE Hands'
  <1>1. ASSUME NEW t \in Tasks PROVE TaskOf(World', t[1], task[t])
    <2>1. TaskOf(World, t[1], task[t])
      BY DEF Hands
    <2> QED BY <2>1, TaskKept, TaskWorker DEF Onward, Unmentioned
  <1> QED BY <1>1 DEF Hands

\* One task takes a step.
LEMMA HandsWith ==
  ASSUME Hands, Onward, NEW t \in Tasks, NEW x, task' = [task EXCEPT ![t] = x],
         TaskOf(World', t[1], x)
  PROVE  Hands'
  <1>1. ASSUME NEW s \in Tasks PROVE TaskOf(World', s[1], task'[s])
    <2>1. CASE s = t
      BY <2>1 DEF Hands
    <2>2. CASE s # t
      <3>1. TaskOf(World, s[1], task[s]) /\ task'[s] = task[s]
        BY <2>2 DEF Hands
      <3> QED BY <3>1, TaskKept, TaskWorker DEF Onward, Unmentioned
    <2> QED BY <2>1, <2>2
  <1>2. task' \in [Tasks -> Task]
    BY TaskTyped, TaskWorker DEF Hands
  <1> QED BY <1>1, <1>2 DEF Hands

-------------------------------------------------------------------------------
(* A step that leaves alone what a part of the invariant speaks of.         *)

LEMMA Still ==
  ASSUME Inv, UNCHANGED <<env, hist>>, World'.queued \subseteq World.queued
  PROVE  Onward /\ Trees'
  <1>1. Onward
    BY DEF Onward, Grows, World, env, hist
  <1>2. World'.base = World.base
    BY DEF World, env
  <1>3. Trees'
    BY <1>2 DEF Inv, Trees, Tip, LandedIsReviewed, env, hist
  <1> QED BY <1>1, <1>3

LEMMA StillQueue ==
  ASSUME Inv, UNCHANGED <<env, jobs, ends, hist>> PROVE Onward /\ Trees' /\ Queue'
  <1>1. World'.queued \subseteq World.queued
    BY DEF World
  <1>2. Queue'
    BY DEF Inv, Queue, hist
  <1> QED BY <1>1, <1>2, Still

LEMMA StillCards == ASSUME Inv, cards' = cards PROVE Cards'
  BY DEF Inv, Cards

LEMMA StillCounters == ASSUME Inv, UNCHANGED <<up, seq, crashes, lock>> PROVE Counters'
  BY DEF Inv, Counters

LEMMA TaskNext ==
  ASSUME Inv, Onward, NEW t \in Tasks PROVE TaskOf(World', t[1], task[t]) /\ t[1] \in Workers
  <1>1. TaskOf(World, t[1], task[t])
    BY DEF Inv, Hands
  <1> QED BY <1>1, TaskKept, TaskWorker DEF Onward, Unmentioned

LEMMA RecordNext ==
  ASSUME Inv, Onward, NEW w \in Workers PROVE RecordOf(World', w, disk[w])
  <1>1. RecordOf(World, w, disk[w])
    BY DEF Inv, Records
  <1> QED BY <1>1, RecordKept DEF Onward, Unmentioned

\* Nothing is written but, if it is still the same land, this copy.
LEMMA Saved ==
  ASSUME Inv, Onward, NEW w \in Workers, NEW l, Fit(World', w, l), Save(w, l)
  PROVE  Records'
  <1> DEFINE d == [phase |-> disk[w].phase, land |-> l]
  <1>1. CASE ~Ours(w, l)
    BY <1>1, RecordsKept DEF Inv, Save
  <1>2. CASE Ours(w, l)
    <2>1. disk[w] \in Record /\ disk[w].phase \in Phases
      BY DEF Inv, Records, Record
    <2>2. disk' = [disk EXCEPT ![w] = d]
      <3>1. [disk[w] EXCEPT !.land = l] = d
        BY <2>1 DEF Record
      <3>2. disk' = [disk EXCEPT ![w].land = l]
        BY <1>2 DEF Save
      <3> QED BY <3>1, <3>2
    <2>3. l \in LandState(w) /\ l # None
      BY NoneAssumption DEF Fit, Whole
    <2>4. RecordOf(World', w, d)
      BY <2>1, <2>3 DEF RecordOf
    <2> QED BY <2>1, <2>2, <2>3, <2>4, RecordsWith DEF Inv
  <1> QED BY <1>1, <1>2

LEMMA IdleIs == ASSUME NEW V, NEW w \in Workers PROVE TaskOf(V, w, Idle)
  BY DEF TaskOf, Idle, PCs, Ending, Holding

LEMMA Stopped == ASSUME Inv, Onward, NEW t \in Tasks, Stop(t) PROVE Hands'
  BY IdleIs, TaskWorker, HandsWith DEF Inv, Stop

\* A task goes to pc with land l (with repositories S to do, or at repository r), and keeps the rest.
GoneTo(x, pc, l, S) == [pc |-> pc, land |-> l, todo |-> S, repo |-> x.repo, again |-> x.again]
Gone(x, pc, l)      == [pc |-> pc, land |-> l, todo |-> x.todo, repo |-> x.repo, again |-> x.again]
GoneAt(x, pc, l, r) == [pc |-> pc, land |-> l, todo |-> x.todo, repo |-> r, again |-> x.again]

LEMMA GoneIs ==
  ASSUME NEW x \in Task, NEW pc, NEW l, NEW y, y = [x EXCEPT !.pc = pc, !.land = l]
  PROVE  y = Gone(x, pc, l)
  <1> DEFINE a == [x EXCEPT !.pc = pc]
             b == [a EXCEPT !.land = l]
  <1>1. a = [pc |-> pc, land |-> x.land, todo |-> x.todo, repo |-> x.repo, again |-> x.again]
    BY DEF Task
  <1> HIDE DEF a
  <1>2. b = Gone(x, pc, l)
    BY <1>1 DEF Gone
  <1> QED BY <1>2 DEF a, b

LEMMA GoneToIs ==
  ASSUME NEW x \in Task, NEW pc, NEW l, NEW s, NEW y,
         y = [x EXCEPT !.pc = pc, !.land = l, !.todo = s]
  PROVE  y = GoneTo(x, pc, l, s)
  <1> DEFINE a == [x EXCEPT !.pc = pc, !.land = l]
             b == [a EXCEPT !.todo = s]
  <1>1. a = Gone(x, pc, l)
    BY GoneIs
  <1> HIDE DEF a
  <1>2. b = GoneTo(x, pc, l, s)
    BY <1>1 DEF Gone, GoneTo
  <1> QED BY <1>2 DEF a, b

LEMMA GoneAtIs ==
  ASSUME NEW x \in Task, NEW pc, NEW l, NEW r, NEW y,
         y = [x EXCEPT !.pc = pc, !.land = l, !.repo = r]
  PROVE  y = GoneAt(x, pc, l, r)
  <1> DEFINE a == [x EXCEPT !.pc = pc, !.land = l]
             b == [a EXCEPT !.repo = r]
  <1>1. a = Gone(x, pc, l)
    BY GoneIs
  <1> HIDE DEF a
  <1>2. b = GoneAt(x, pc, l, r)
    BY <1>1 DEF Gone, GoneAt
  <1> QED BY <1>2 DEF a, b

LEMMA Went ==
  ASSUME Inv, Onward, NEW t \in Tasks, NEW pc, NEW l, Go(t, pc, l),
         TaskOf(World', t[1], Gone(task[t], pc, l))
  PROVE  Hands'
  <1> DEFINE y == [task[t] EXCEPT !.pc = pc, !.land = l]
  <1>1. task[t] \in Task
    BY DEF Inv, Hands
  <1>2. task' = [task EXCEPT ![t] = y]
    BY DEF Go
  <1>3. y = Gone(task[t], pc, l)
    BY <1>1, GoneIs
  <1> HIDE DEF y
  <1> QED BY <1>2, <1>3, HandsWith DEF Inv

LEMMA WentTo ==
  ASSUME Inv, Onward, NEW t \in Tasks, NEW pc, NEW l, NEW S, GoTodo(t, pc, l, S),
         TaskOf(World', t[1], GoneTo(task[t], pc, l, S))
  PROVE  Hands'
  <1> DEFINE y == [task[t] EXCEPT !.pc = pc, !.land = l, !.todo = S]
  <1>1. task[t] \in Task
    BY DEF Inv, Hands
  <1>2. task' = [task EXCEPT ![t] = y]
    BY DEF GoTodo
  <1>3. y = GoneTo(task[t], pc, l, S)
    BY <1>1, GoneToIs
  <1> HIDE DEF y
  <1> QED BY <1>2, <1>3, HandsWith DEF Inv

LEMMA WentAt ==
  ASSUME Inv, Onward, NEW t \in Tasks, NEW pc, NEW l, NEW r, GoRepo(t, pc, l, r),
         TaskOf(World', t[1], GoneAt(task[t], pc, l, r))
  PROVE  Hands'
  <1> DEFINE y == [task[t] EXCEPT !.pc = pc, !.land = l, !.repo = r]
  <1>1. task[t] \in Task
    BY DEF Inv, Hands
  <1>2. task' = [task EXCEPT ![t] = y]
    BY DEF GoRepo
  <1>3. y = GoneAt(task[t], pc, l, r)
    BY <1>1, GoneAtIs
  <1> HIDE DEF y
  <1> QED BY <1>2, <1>3, HandsWith DEF Inv

-------------------------------------------------------------------------------
(* Copies changed.                                                          *)

LEMMA WithState ==
  ASSUME NEW V, NEW w \in Workers, NEW l, Whole(V, w, l), NEW s \in States,
         NEW m, m = [l EXCEPT !.state = s]
  PROVE  /\ Whole(V, w, m) /\ m.repos = l.repos /\ m.state = s /\ m.id = l.id
         /\ m.approved = l.approved /\ m.request = l.request /\ m.order = l.order
  BY DEF Whole, LandState

LEMMA WithRepos ==
  ASSUME NEW V, NEW w \in Workers, NEW l, Whole(V, w, l), NEW F,
         F = [r \in Of[w] |-> F[r]], \A r \in Of[w] : Entry(V, w, r, F[r]),
         NEW m, m = [l EXCEPT !.repos = F]
  PROVE  /\ Whole(V, w, m) /\ m.repos = F /\ m.state = l.state /\ m.id = l.id
         /\ m.approved = l.approved /\ m.request = l.request /\ m.order = l.order
  <1>1. F \in [Of[w] -> LandRepo]
    BY DEF Entry
  <1> QED BY <1>1 DEF Whole, LandState

LEMMA RepoOf ==
  ASSUME NEW w \in Workers, NEW l \in LandState(w), NEW r \in Of[w], NEW e, NEW q \in Of[w]
  PROVE  SetRepo(l, r, e).repos[q] = IF q = r THEN e ELSE l.repos[q]
  BY DEF SetRepo, LandState

LEMMA WithRepo ==
  ASSUME NEW V, NEW w \in Workers, NEW l, Whole(V, w, l), NEW r \in Of[w], NEW e,
         Entry(V, w, r, e), NEW m, m = SetRepo(l, r, e)
  PROVE  /\ Whole(V, w, m) /\ m.state = l.state /\ m.id = l.id
         /\ m.approved = l.approved /\ m.request = l.request /\ m.order = l.order
  <1> DEFINE F == [l.repos EXCEPT ![r] = e]
  <1>1. l \in LandState(w) /\ l.repos \in [Of[w] -> LandRepo]
    BY DEF Whole, LandState
  <1>2. \A q \in Of[w] : F[q] = IF q = r THEN e ELSE l.repos[q]
    BY <1>1
  <1>3. F = [q \in Of[w] |-> F[q]]
    BY <1>1
  <1>4. \A q \in Of[w] : Entry(V, w, q, F[q])
    BY <1>2 DEF Whole
  <1>5. m = [l EXCEPT !.repos = F]
    BY <1>1 DEF SetRepo, LandState
  <1> HIDE DEF F
  <1>6. Whole(V, w, m) /\ m.repos = F /\ m.state = l.state /\ m.id = l.id
        /\ m.approved = l.approved /\ m.request = l.request /\ m.order = l.order
    BY <1>3, <1>4, <1>5, WithRepos
  <1> QED BY <1>6

-------------------------------------------------------------------------------
(* Every step of a task keeps the invariant.                                *)

\* Where a failure sends a copy: refused, or held at a repository whose catch
\* and check stand.
LEMMA Failed ==
  ASSUME Inv, Onward, NEW t \in Tasks, NEW l, Fail(t, l),
         Whole(World', t[1], l), Seen(World', t[1], l), Clean(t[1], l)
  PROVE  Hands'
  <1> DEFINE w  == t[1]
             F  == [r \in Of[w] |-> IF l.repos[r].status \in {"landed", "tested"} THEN l.repos[r]
                                    ELSE [l.repos[r] EXCEPT !.tested = None, !.base_before = None]]
             m  == [l EXCEPT !.repos = F]
             stuck == {r \in unlanded(l) : l.repos[r].status # "tested"}
             at == IF unlanded(l) = {} THEN None
                   ELSE First(Folders, IF stuck # {} THEN stuck ELSE unlanded(l))
  <1>1. w \in Workers /\ TaskOf(World', w, task[t])
    BY TaskNext
  <1>2. l \in LandState(w) /\ DOMAIN l.repos = Of[w] /\ l.repos \in [Of[w] -> LandRepo]
    BY <1>1 DEF Whole, LandState
  <1>3. CASE landed(l) = {}
    <2>1. Go(t, "refuse", l)
      BY <1>3 DEF Fail
    <2>2. TaskOf(World', w, Gone(task[t], "refuse", l))
      BY <1>1, <1>2 DEF TaskOf, Gone, PCs, Ending, Holding
    <2> QED BY <2>1, <2>2, Went
  <1>4. CASE landed(l) # {}
    <2>1. GoRepo(t, "hold", m, at)
      BY <1>2, <1>4 DEF Fail
    <2>2. ASSUME NEW r \in Of[w] PROVE Entry(World', w, r, F[r]) /\ F[r].pinned = l.repos[r].pinned
      <3> DEFINE e == l.repos[r]
      <3>1. Entry(World', w, r, e) /\ e \in LandRepo
        BY <1>2 DEF Whole
      <3>2. CASE e.status \in {"landed", "tested"}
        BY <3>1, <3>2
      <3>3. CASE e.status \notin {"landed", "tested"}
        <4> DEFINE f == [e EXCEPT !.tested = None, !.base_before = None]
        <4>1. /\ f \in LandRepo /\ f.tested = None /\ f.pinned = e.pinned /\ f.status = e.status
              /\ f.config_approved = e.config_approved
          BY <3>1 DEF LandRepo
        <4> HIDE DEF f
        <4>2. Entry(World', w, r, f)
          BY <3>1, <3>3, <4>1 DEF Entry, Merged, Claims, Proven, Stepped, Asked
        <4>3. F[r] = f
          BY <3>3 DEF f
        <4> QED BY <4>1, <4>2, <4>3
      <3> QED BY <3>2, <3>3
    <2>3. Whole(World', w, m) /\ m.repos = F /\ m \in LandState(w)
      <3>1. F = [r \in Of[w] |-> F[r]]
        OBVIOUS
      <3>2. \A r \in Of[w] : Entry(World', w, r, F[r])
        BY <2>2
      <3> HIDE DEF F
      <3>3. m = [l EXCEPT !.repos = F] /\ Whole(World', w, l)
        OBVIOUS
      <3> HIDE DEF m, w
      <3>4. Whole(World', w, m) /\ m.repos = F
        BY <1>1, <3>1, <3>2, <3>3, WithRepos
      <3> QED BY <3>4 DEF Whole
    <2>4. Seen(World', w, m)
      BY <2>2, <2>3 DEF Seen
    <2>5. at \in Of[w] =>
            Proven(World', at, m.repos[at]) /\ Stepped(m.repos[at])
      <3>1. SUFFICES ASSUME at \in Of[w] PROVE Proven(World', at, F[at]) /\ Stepped(F[at])
        BY <2>3
      <3>2. CASE F[at].tested = None
        BY <3>2 DEF Proven, Stepped
      <3>3. CASE F[at].tested # None
        <4>1. l.repos[at].status \in {"landed", "tested"} /\ F[at] = l.repos[at]
          <5> DEFINE x == at
                     e == l.repos[x]
          <5>1. x \in Of[w] /\ F[x].tested # None
            BY <3>1, <3>3
          <5> HIDE DEF x
          <5>2. CASE e.status \in {"landed", "tested"}
            <6>1. F[x] = e
              BY <5>1, <5>2
            <6> QED BY <5>2, <6>1 DEF x, e
          <5>3. CASE e.status \notin {"landed", "tested"}
            <6>1. F[x] = [e EXCEPT !.tested = None, !.base_before = None]
              BY <5>1, <5>3
            <6>2. e \in LandRepo
              BY <1>2, <5>1
            <6> HIDE DEF e, F
            <6>3. F[x].tested = None
              BY <6>1, <6>2 DEF LandRepo
            <6> QED BY <5>1, <6>3
          <5> QED BY <5>2, <5>3
        <4>2. l.repos[at].status = "tested"
          <5>1. unlanded(l) # {} => at \in unlanded(l)
            <6>1. unlanded(l) \in SUBSET Repos /\ stuck \in SUBSET Repos
              BY <1>1, <1>2, OfRepos DEF unlanded
            <6> QED BY <6>1, FirstFolder
          <5>2. unlanded(l) # {}
            <6>1. unlanded(l) = {} => at = None
              OBVIOUS
            <6>2. at \in Repos /\ None \notin Repos
              BY <1>1, <3>1, OfRepos, NoneAssumption
            <6> HIDE DEF at
            <6> QED BY <6>1, <6>2
          <5> QED BY <4>1, <5>1, <5>2 DEF unlanded, landed
        <4> QED BY <2>2, <3>1, <4>1, <4>2 DEF Entry, Claims
      <3> QED BY <3>2, <3>3
    <2>6. at \in Of[w] \cup {None}
      <3>1. stuck \in SUBSET Repos /\ unlanded(l) \in SUBSET Repos /\ unlanded(l) \subseteq Of[w]
        BY <1>1, <1>2, OfRepos DEF unlanded
      <3> QED BY <3>1, FirstFolder
    <2> HIDE DEF m, at
    <2>7. TaskOf(World', w, GoneAt(task[t], "hold", m, at))
      BY <1>1, <2>3, <2>4, <2>5, <2>6 DEF TaskOf, GoneAt, PCs, Ending, Holding
    <2> QED BY <2>1, <2>7, WentAt
  <1> QED BY <1>3, <1>4

LEMMA StartLandStep == ASSUME Inv, NEW t \in Tasks, StartLand(t) PROVE Inv'
  <1> DEFINE w == t[1]
             l == task[t].land
  <1>1. /\ task[t].pc = "called" /\ UNCHANGED <<up, env, lock, jobs, ends, cards, log, seq,
                                                 crashes, passed, approved>>
        /\ w \in Workers /\ TaskOf(World, w, task[t])
    BY TaskWorker DEF StartLand, At, Inv, Hands
  <1>2. Cards' /\ Counters'
    BY <1>1, StillCards, StillCounters
  <1>3. CASE ~Landable(w)
    <2>1. Stop(t) /\ UNCHANGED <<disk, reviewed>>
      BY <1>3 DEF StartLand
    <2>2. Onward /\ Trees' /\ Queue'
      BY <1>1, <2>1, StillQueue DEF hist
    <2> QED BY <1>2, <2>1, <2>2, RecordsKept, Stopped DEF Inv
  <1>4. CASE Landable(w)
    <2> DEFINE R == [reviewed EXCEPT ![w] = [r \in Of[w] |-> @[r] \cup {l.repos[r].pinned}]]
               pc == IF AsksFirst /\ ~l.approved THEN "ask" ELSE "drive"
               d == [phase |-> "landing", land |-> l]
    <2>1. disk' = [disk EXCEPT ![w] = d] /\ reviewed' = R /\ Go(t, pc, l)
      BY <1>4 DEF StartLand, land
    <2>2. Whole(World, w, l) /\ Clean(w, l) /\ Plain(w, l) /\ l.state # "checking"
          /\ l \in LandState(w)
      BY <1>1 DEF TaskOf, Whole, Holding
    <2>3. \A v \in Workers : \A r \in Of[v] :
            R[v][r] = IF v = w THEN reviewed[v][r] \cup {l.repos[r].pinned} ELSE reviewed[v][r]
      BY <1>1 DEF Inv, Trees
    <2>4. Onward
      BY <1>1, <2>1, <2>3 DEF Onward, Grows, World, env
    <2>5. Trees'
      <3>1. UNCHANGED <<base, branch>> /\ World'.base = World.base
        BY <1>1 DEF World, env
      <3>2. DOMAIN reviewed' = Workers
        BY <2>1 DEF Inv, Trees
      <3>3. ASSUME NEW v \in Workers, NEW r \in Of[v]
            PROVE /\ reviewed'[v][r] \in SUBSET Commits
                  /\ \A pin \in reviewed'[v][r] : Own(v, pin)
        <4>1. reviewed[v][r] \in SUBSET Commits /\ \A pin \in reviewed[v][r] : Own(v, pin)
          BY DEF Inv, Trees
        <4>2. v = w => l.repos[r].pinned \in Commits /\ Own(w, l.repos[r].pinned)
          BY <2>2 DEF Whole, Entry, Tip
        <4> QED BY <2>1, <2>3, <4>1, <4>2
      <3>4. ASSUME NEW v \in Workers PROVE reviewed'[v] \in [Of[v] -> SUBSET Commits]
        <4>1. reviewed[v] \in [Of[v] -> SUBSET Commits]
          BY DEF Inv, Trees
        <4>2. v # w => reviewed'[v] = reviewed[v]
          BY <2>1 DEF Inv, Trees
        <4>3. v = w => reviewed'[v] = [r \in Of[w] |-> reviewed[w][r] \cup {l.repos[r].pinned}]
          BY <1>1, <2>1 DEF Inv, Trees
        <4> QED BY <3>3, <4>1, <4>2, <4>3
      <3>5. \A v \in Workers : \A r \in Of[v] : reviewed[v][r] \subseteq reviewed'[v][r]
        BY <2>1, <2>3
      <3>6. LandedIsReviewed'
        BY <3>1, <3>5 DEF Inv, Trees, LandedIsReviewed
      <3> QED BY <3>1, <3>2, <3>3, <3>4, <3>6 DEF Inv, Trees, Tip
    <2>6. Queue'
      BY <1>1 DEF Inv, Queue
    <2>7. Whole(World', w, l)
      BY <2>4, TaskNext, <1>1 DEF TaskOf
    <2>8. Seen(World', w, l)
      <3>1. World'.reviewed = R
        BY <2>1 DEF World
      <3> HIDE DEF R, l
      <3>2. \A r \in Of[w] : l.repos[r].pinned \in R[w][r]
        BY <1>1, <2>3
      <3> QED BY <3>1, <3>2 DEF Seen
    <2>9. Records'
      <3>1. d \in [phase : Phases, land : LandState(w) \cup {None}]
        BY <2>2 DEF Phases
      <3>2. RecordOf(World', w, d)
        BY <2>2, <2>7, <2>8, NoneAssumption, <1>1 DEF RecordOf, Fit, Phases
      <3> HIDE DEF d
      <3> QED BY <1>1, <2>1, <2>4, <3>1, <3>2, RecordsWith DEF Inv
    <2>10. Hands'
      <3>1. TaskOf(World', w, Gone(task[t], pc, l))
        BY <1>1, <2>2, <2>7, <2>8 DEF TaskOf, Gone, PCs, Ending, Holding
      <3> HIDE DEF pc
      <3> QED BY <2>1, <2>4, <3>1, Went
    <2> QED BY <1>2, <2>5, <2>6, <2>9, <2>10 DEF Inv
  <1> QED BY <1>3, <1>4

LEMMA DriveStep == ASSUME Inv, NEW t \in Tasks, Drive(t) PROVE Inv'
  <1> DEFINE w == t[1]
             l == disk[w].land
  <1>1. UNCHANGED <<up, env, disk, lock, jobs, ends, cards, log, seq, crashes, hist>>
    BY DEF Drive
  <1>2. Onward /\ Trees' /\ Queue' /\ Cards' /\ Counters'
    BY <1>1, StillQueue, StillCards, StillCounters
  <1>3. Records'
    BY <1>1, <1>2, RecordsKept DEF Inv
  <1>4. Hands'
    <2>1. CASE l # None /\ l.state = "locking"
      <3> DEFINE x == [Idle EXCEPT !.pc = "lock", !.land = l, !.todo = unlanded(l)]
      <3>1. task' = [task EXCEPT ![t] = x]
        BY <2>1 DEF Drive
      <3>2. w \in Workers /\ RecordOf(World', w, disk[w])
        BY <1>2, RecordNext, TaskWorker
      <3>3. Fit(World', w, l) /\ l \in LandState(w) /\ Clean(w, l)
        BY <2>1, <3>2 DEF RecordOf, Fit
      <3>4. unlanded(l) \subseteq Of[w]
        BY <3>3 DEF unlanded, LandState
      <3>5. x = [pc |-> "lock", land |-> l, todo |-> unlanded(l), repo |-> None, again |-> FALSE]
        <4>1. Idle \in Task
          BY DEF Idle, Task, PCs, AnyLand
        <4>2. x = GoneTo(Idle, "lock", l, unlanded(l))
          <5>1. x = [Idle EXCEPT !.pc = "lock", !.land = l, !.todo = unlanded(l)]
            OBVIOUS
          <5> HIDE DEF x, l
          <5> QED BY <4>1, <5>1, GoneToIs
        <4> QED BY <4>2 DEF GoneTo, Idle
      <3> HIDE DEF x, l
      <3>6. TaskOf(World', w, x)
        BY <2>1, <3>3, <3>4, <3>5 DEF TaskOf, Fit, PCs, Ending, Holding
      <3> QED BY <1>2, <3>1, <3>6, HandsWith DEF Inv
    <2>2. CASE ~(l # None /\ l.state = "locking")
      BY <1>2, <2>2, Stopped DEF Drive
    <2> QED BY <2>1, <2>2
  <1> QED BY <1>2, <1>3, <1>4 DEF Inv

LEMMA TodoFirst ==
  ASSUME Inv, NEW t \in Tasks, task[t].todo # {}
  PROVE  First(Folders, task[t].todo) \in task[t].todo /\ task[t].todo \subseteq Of[t[1]]
  <1>1. t[1] \in Workers /\ task[t].todo \subseteq Of[t[1]] /\ task[t].todo \subseteq Repos
    BY TaskWorker, OfRepos DEF Inv, Hands, TaskOf
  <1> QED BY <1>1, FirstFolder

LEMMA TakeLockStep == ASSUME Inv, NEW t \in Tasks, TakeLock(t) PROVE Inv'
  <1> DEFINE w == t[1]
             l == task[t].land
             r == First(Folders, task[t].todo)
             rest == task[t].todo \ {r}
  <1>1. /\ task[t].pc = "lock" /\ r \in task[t].todo /\ r \in Repos
        /\ lock' = [lock EXCEPT ![r] = l.id] /\ GoTodo(t, "lock", l, rest)
        /\ UNCHANGED <<up, env, disk, jobs, ends, cards, log, seq, crashes, hist>>
    BY TodoFirst, TaskWorker, OfRepos DEF TakeLock, At, land
  <1>2. Onward /\ Trees' /\ Queue' /\ Cards'
    BY <1>1, StillQueue, StillCards
  <1>3. Records'
    BY <1>1, <1>2, RecordsKept DEF Inv
  <1>4. w \in Workers /\ TaskOf(World', w, task[t]) /\ l \in LandState(w)
    BY <1>1, <1>2, TaskNext DEF TaskOf, Whole
  <1>5. Counters'
    BY <1>1, <1>4 DEF Inv, Counters, LandState
  <1>6. TaskOf(World', w, GoneTo(task[t], "lock", l, rest))
    BY <1>1, <1>4 DEF TaskOf, GoneTo, Ending, Holding
  <1> HIDE DEF l, rest
  <1>7. Hands'
    BY <1>1, <1>2, <1>6, WentTo
  <1> QED BY <1>2, <1>3, <1>5, <1>7 DEF Inv

LEMMA LockBusyStep == ASSUME Inv, NEW t \in Tasks, LockBusy(t) PROVE Inv'
  <1> DEFINE w == t[1]
             l == task[t].land
  <1>1. /\ task[t].pc = "lock" /\ Save(w, l) /\ Go(t, "drive", l)
        /\ lock' = [q \in Repos |-> IF q \in unlanded(l) \ task[t].todo /\ lock[q] = l.id
                                    THEN None ELSE lock[q]]
        /\ UNCHANGED <<up, env, jobs, ends, cards, log, seq, crashes, hist>>
    BY DEF LockBusy, At, land
  <1>2. Onward /\ Trees' /\ Queue' /\ Cards'
    BY <1>1, StillQueue, StillCards
  <1>3. Counters'
    BY <1>1 DEF Inv, Counters
  <1>4. w \in Workers /\ TaskOf(World', w, task[t])
    BY <1>2, TaskNext
  <1>5. Fit(World', w, l)
    BY <1>1, <1>4 DEF TaskOf, Fit, Holding
  <1>6. TaskOf(World', w, Gone(task[t], "drive", l))
    BY <1>1, <1>4 DEF TaskOf, Gone, PCs, Ending, Holding
  <1> HIDE DEF l
  <1>7. Records' /\ Hands'
    BY <1>1, <1>2, <1>4, <1>5, <1>6, Saved, Went
  <1> QED BY <1>2, <1>3, <1>7 DEF Inv

LEMMA LockedStep == ASSUME Inv, NEW t \in Tasks, Locked(t) PROVE Inv'
  <1> DEFINE w == t[1]
             l == task[t].land
  <1>1. /\ task[t].pc = "lock"
        /\ UNCHANGED <<up, env, disk, lock, jobs, ends, cards, log, seq, crashes, hist>>
    BY DEF Locked, At
  <1>2. Onward /\ Trees' /\ Queue' /\ Cards' /\ Counters'
    BY <1>1, StillQueue, StillCards, StillCounters
  <1>3. Records'
    BY <1>1, <1>2, RecordsKept DEF Inv
  <1>4. w \in Workers /\ TaskOf(World', w, task[t]) /\ l \in LandState(w)
    BY <1>1, <1>2, TaskNext DEF TaskOf, Whole
  <1>5. unlanded(l) \subseteq Of[w] /\ \A r \in Of[w] \ unlanded(l) : l.repos[r].status = "landed"
    BY <1>4 DEF unlanded, landed, LandState
  <1>6. GoTodo(t, "prep", l, unlanded(l))
    BY DEF Locked, land
  <1>7. TaskOf(World', w, GoneTo(task[t], "prep", l, unlanded(l)))
    BY <1>1, <1>4, <1>5 DEF TaskOf, GoneTo, PCs, Ending, Holding
  <1> HIDE DEF l
  <1> QED BY <1>2, <1>3, <1>6, <1>7, WentTo DEF Inv

LEMMA CaughtIn == \A from, to : caught(from, to) \in Catches
  BY DEF caught, Catches

LEMMA SteppedIn ==
  ASSUME Inv, NEW w \in Workers, NEW r \in Of[w], NEW V, V.base = base, NEW e, Entry(V, w, r, e),
         NEW f, f = step1(w, r, e)
  PROVE  /\ Entry(V, w, r, f) /\ Stepped(f)
         /\ f.status = "pending" /\ f.pinned = e.pinned /\ f.attempts = e.attempts
  <1> DEFINE to == base[r] \cup e.pinned
  <1>1. base[r] \in Commits /\ e \in LandRepo /\ e.pinned \in Commits /\ Own(w, e.pinned)
    BY OfRepos DEF Entry, Tip, Inv, Trees
  <1>2. to \in Commits /\ to # None /\ base[r] # None
    BY <1>1, NoneAssumption DEF Commits
  <1>3. Own(w, to)
    BY <1>1, OwnBase DEF Inv
  <1>4. /\ f.status = "pending" /\ f.pinned = e.pinned /\ f.attempts = e.attempts /\ f.tested = to
        /\ f.base_before = base[r] /\ f.fp = caught(base[r], to)
        /\ f.config_approved = e.config_approved /\ f \in LandRepo
    BY <1>1, <1>2, CaughtIn DEF step1, merge, LandRepo, Statuses
  <1> HIDE DEF to
  <1>5. Stepped(f)
    BY <1>4 DEF Stepped
  <1>6. Merged(V, w, r, f)
    BY <1>2, <1>3, <1>4 DEF Merged, to
  <1> QED BY <1>4, <1>5, <1>6 DEF Entry, Claims, Tip

\* A copy with a repository prepared: left as it is, or through step 1.
LEMMA PreparedCopy ==
  ASSUME Inv, NEW w \in Workers, NEW r \in Of[w], NEW V, V.base = base, NEW l,
         Whole(V, w, l), Seen(V, w, l), Clean(w, l), l.repos[r].status # "landed", NEW m,
         \/ m = SetRepo(l, r, step1(w, r, l.repos[r]))
         \/ m = l /\ l.repos[r].status = "tested"
  PROVE  /\ Whole(V, w, m) /\ Seen(V, w, m) /\ Clean(w, m) /\ m.state = l.state
         /\ \A q \in Of[w] : q # r => m.repos[q] = l.repos[q]
         /\ m.repos[r].status = "pending" => Stepped(m.repos[r])
  <1>1. CASE m = SetRepo(l, r, step1(w, r, l.repos[r]))
    <2>1. Entry(V, w, r, l.repos[r])
      BY DEF Whole
    <2>2. PICK f : f = step1(w, r, l.repos[r])
      OBVIOUS
    <2>3. /\ Entry(V, w, r, f) /\ Stepped(f) /\ f.status = "pending"
          /\ f.pinned = l.repos[r].pinned /\ f.attempts = l.repos[r].attempts
      BY <2>1, <2>2, SteppedIn
    <2>4. Whole(V, w, m) /\ m.state = l.state
      BY <1>1, <2>2, <2>3, WithRepo
    <2>5. m.repos[r] = f /\ \A q \in Of[w] : q # r => m.repos[q] = l.repos[q]
      BY <1>1, <2>2, RepoOf DEF Whole
    <2>6. Seen(V, w, m)
      BY <2>3, <2>5 DEF Seen
    <2>7. Clean(w, m)
      BY <2>3, <2>5 DEF Clean, Sane
    <2> QED BY <2>3, <2>4, <2>5, <2>6, <2>7
  <1>2. CASE m = l /\ l.repos[r].status = "tested"
    BY <1>2
  <1> QED BY <1>1, <1>2

LEMMA PrepareStep == ASSUME Inv, NEW t \in Tasks, Prepare(t) PROVE Inv'
  <1> DEFINE w == t[1]
             l == task[t].land
             r == First(Folders, task[t].todo)
             e == l.repos[r]
             stands == e.status = "tested" /\ e.base_before = base[r]
             m == IF stands THEN l ELSE SetRepo(l, r, step1(w, r, e))
             rest == task[t].todo \ {r}
  <1>1. /\ task[t].pc = "prep" /\ r \in task[t].todo /\ task[t].todo \subseteq Of[w]
        /\ UNCHANGED <<up, env, disk, lock, jobs, ends, cards, log, seq, crashes, hist>>
        /\ GoTodo(t, "prep", m, rest) \/ Fail(t, l)
    BY TodoFirst DEF Prepare, At, land
  <1>2. Onward /\ Trees' /\ Queue' /\ Cards' /\ Counters'
    BY <1>1, StillQueue, StillCards, StillCounters
  <1>3. Records'
    BY <1>1, <1>2, RecordsKept DEF Inv
  <1>4. w \in Workers /\ TaskOf(World', w, task[t]) /\ l \in LandState(w)
    BY <1>1, <1>2, TaskNext DEF TaskOf, Whole
  <1>5. Whole(World', w, l) /\ Seen(World', w, l) /\ Clean(w, l) /\ l.state # "checking"
    BY <1>1, <1>4 DEF TaskOf, Holding
  <1>8. l.repos[r].status # "landed"
    BY <1>1, <1>4 DEF TaskOf, unlanded, landed
  <1>6. CASE Fail(t, l)
    BY <1>2, <1>3, <1>5, <1>6, Failed DEF Inv
  <1>7. CASE GoTodo(t, "prep", m, rest)
    <2>1. World'.base = base
      BY <1>1 DEF World, env
    <2>2. \/ m = SetRepo(l, r, step1(w, r, l.repos[r]))
          \/ m = l /\ l.repos[r].status = "tested"
      OBVIOUS
    <2> HIDE DEF m
    <2>3. /\ Whole(World', w, m) /\ Seen(World', w, m) /\ Clean(w, m) /\ m.state = l.state
          /\ \A q \in Of[w] : q # r => m.repos[q] = l.repos[q]
          /\ m.repos[r].status = "pending" => Stepped(m.repos[r])
      BY <1>1, <1>4, <1>5, <1>8, <2>1, <2>2, PreparedCopy
    <2>7. rest \subseteq unlanded(m)
      <3>1. rest \subseteq unlanded(l) /\ rest \subseteq Of[w] /\ \A q \in rest : q # r
        BY <1>1, <1>4 DEF TaskOf
      <3> HIDE DEF rest
      <3> QED BY <1>4, <2>3, <3>1 DEF unlanded, landed, Whole, LandState
    <2>4. \A q \in Of[w] \ rest : m.repos[q].status = "pending" => Stepped(m.repos[q])
      <3>1. \A q \in Of[w] \ task[t].todo : l.repos[q].status = "pending" => Stepped(l.repos[q])
        BY <1>1, <1>4 DEF TaskOf
      <3> HIDE DEF r, l, w
      <3> QED BY <2>3, <3>1
    <2>5. TaskOf(World', w, GoneTo(task[t], "prep", m, rest))
      BY <1>1, <1>4, <1>5, <2>3, <2>4, <2>7 DEF TaskOf, GoneTo, PCs, Ending, Holding, Whole
    <2> HIDE DEF rest
    <2>6. Hands'
      BY <1>2, <1>7, <2>5, WentTo
    <2> QED BY <1>2, <1>3, <2>6 DEF Inv
  <1> QED BY <1>1, <1>6, <1>7

LEMMA PreparedStep == ASSUME Inv, NEW t \in Tasks, Prepared(t) PROVE Inv'
  <1> DEFINE w == t[1]
             l == task[t].land
             S == {r \in DOMAIN l.repos : l.repos[r].status = "pending" /\ l.repos[r].tested # None}
  <1>1. /\ task[t].pc = "prep" /\ task[t].todo = {}
        /\ UNCHANGED <<up, env, lock, jobs, ends, cards, log, seq, crashes, hist>>
        /\ disk' = disk \/ Save(w, l)
        /\ GoTodo(t, "check", l, S)
    BY DEF Prepared, At, land
  <1>2. Onward /\ Trees' /\ Queue' /\ Cards' /\ Counters'
    BY <1>1, StillQueue, StillCards, StillCounters
  <1>3. w \in Workers /\ TaskOf(World', w, task[t]) /\ l \in LandState(w)
    BY <1>1, <1>2, TaskNext DEF TaskOf, Whole
  <1>4. Post(w, l) /\ S \subseteq Of[w]
    BY <1>1, <1>3 DEF TaskOf, Post, LandState
  <1>5. Fit(World', w, l)
    BY <1>1, <1>3 DEF TaskOf, Fit, Holding
  <1>6. TaskOf(World', w, GoneTo(task[t], "check", l, S))
    BY <1>1, <1>3, <1>4 DEF TaskOf, GoneTo, PCs, Ending, Holding
  <1> HIDE DEF S, l
  <1>7. Hands' /\ Records'
    BY <1>1, <1>2, <1>3, <1>5, <1>6, WentTo, Saved, RecordsKept DEF Inv
  <1> QED BY <1>2, <1>7 DEF Inv

\* A copy with one repository written.
LEMMA CopyWith ==
  ASSUME NEW V, NEW w \in Workers, NEW l, Whole(V, w, l), NEW r \in Of[w], NEW e,
         Entry(V, w, r, e), e.pinned = l.repos[r].pinned, NEW m, m = SetRepo(l, r, e)
  PROVE  /\ Whole(V, w, m) /\ m.state = l.state /\ m.id = l.id /\ m.repos[r] = e
         /\ Seen(V, w, l) => Seen(V, w, m)
         /\ Clean(w, l) /\ Sane(e) => Clean(w, m)
         /\ Post(w, l) /\ (e.status = "pending" => Stepped(e)) => Post(w, m)
  <1>1. Whole(V, w, m) /\ m.state = l.state /\ m.id = l.id
    BY WithRepo
  <1>2. m.repos[r] = e /\ \A q \in Of[w] : q # r => m.repos[q] = l.repos[q]
    BY RepoOf DEF Whole
  <1>3. Seen(V, w, l) => Seen(V, w, m)
    BY <1>2 DEF Seen
  <1>4. Clean(w, l) /\ Sane(e) => Clean(w, m)
    BY <1>2 DEF Clean
  <1>5. Post(w, l) /\ (e.status = "pending" => Stepped(e)) => Post(w, m)
    BY <1>2 DEF Post
  <1> QED BY <1>1, <1>2, <1>3, <1>4, <1>5

LEMMA StartCheckStep == ASSUME Inv, NEW t \in Tasks, StartCheck(t) PROVE Inv'
  <1> DEFINE w == t[1]
             l == task[t].land
             r == First(Folders, task[t].todo)
             e == l.repos[r]
             rest == task[t].todo \ {r}
  <1>1. /\ task[t].pc = "check" /\ r \in task[t].todo /\ task[t].todo \subseteq Of[w]
        /\ UNCHANGED <<up, env, disk, lock, ends, cards, log, seq, crashes, hist>>
    BY TodoFirst DEF StartCheck, At
  <1>2. w \in Workers /\ TaskOf(World, w, task[t]) /\ Cards' /\ Counters'
    BY <1>1, TaskWorker, StillCards, StillCounters DEF Inv, Hands
  <1>3. /\ Whole(World, w, l) /\ Seen(World, w, l) /\ Clean(w, l) /\ Post(w, l)
        /\ l.state # "checking" /\ l \in LandState(w) /\ r \in Of[w]
        /\ e.status = "pending" /\ e.tested # None
    BY <1>1, <1>2 DEF TaskOf, Holding, Whole
  <1>4. Entry(World, w, r, e) /\ e \in LandRepo /\ Stepped(e)
    BY <1>3 DEF Whole, Entry, Post
  <1>5. ASSUME Onward, NEW f, Entry(World', w, r, f), f.pinned = e.pinned, f.attempts = e.attempts,
               f.tested = e.tested, f.status \in {"tested", "checking"},
               GoTodo(t, "check", SetRepo(l, r, f), rest)
        PROVE  Hands'
    <2> DEFINE m == SetRepo(l, r, f)
    <2>1. Whole(World', w, l) /\ Seen(World', w, l) /\ TaskOf(World', w, task[t])
      BY <1>1, <1>5, TaskNext DEF TaskOf
    <2>2. Sane(f)
      BY <1>3, <1>5 DEF Sane, Clean
    <2>3. /\ Whole(World', w, m) /\ m.state = l.state /\ Seen(World', w, m) /\ Clean(w, m)
          /\ Post(w, m)
      <3>1. /\ w \in Workers /\ r \in Of[w] /\ Whole(World', w, l) /\ Seen(World', w, l)
            /\ Clean(w, l) /\ Post(w, l) /\ Entry(World', w, r, f) /\ f.status # "pending"
            /\ f.pinned = l.repos[r].pinned /\ m = SetRepo(l, r, f)
        BY <1>2, <1>3, <1>5, <2>1
      <3> HIDE DEF m, r, l, w
      <3> QED BY <2>2, <3>1, CopyWith
    <2>4. \A q \in rest : m.repos[q] = l.repos[q]
      BY <1>1, <1>2, <1>3, RepoOf
    <2>5. \A q \in rest : l.repos[q].status = "pending" /\ l.repos[q].tested # None
      BY <1>1, <1>2 DEF TaskOf
    <2> HIDE DEF m
    <2>6. TaskOf(World', w, GoneTo(task[t], "check", m, rest))
      BY <1>1, <1>2, <1>3, <2>1, <2>3, <2>4, <2>5
         DEF TaskOf, GoneTo, PCs, Ending, Holding, Whole
    <2> HIDE DEF rest
    <2> QED BY <1>5, <2>6, WentTo DEF m
  <1>6. CASE r \notin Checked /\ jobs' = jobs
             /\ GoTodo(t, "check", SetRepo(l, r, [e EXCEPT !.status = "tested"]), rest)
    <2>1. Onward /\ Trees' /\ Queue'
      BY <1>1, <1>6, StillQueue
    <2>2. PICK f : f = [e EXCEPT !.status = "tested"]
      OBVIOUS
    <2>3. /\ f \in LandRepo /\ f.status = "tested" /\ f.pinned = e.pinned /\ f.attempts = e.attempts
          /\ f.tested = e.tested /\ f.base_before = e.base_before /\ f.fp = e.fp
          /\ f.config_approved = e.config_approved
      BY <1>4, <2>2 DEF LandRepo, Statuses
    <2>4. Entry(World', w, r, e)
      BY <1>1, <1>2, <1>3, <2>1, TaskNext DEF TaskOf, Whole
    <2>5. Entry(World', w, r, f)
      BY <1>3, <1>4, <1>6, <2>3, <2>4 DEF Entry, Merged, Claims, Proven, Stepped, Tip
    <2>6. Hands'
      BY <1>5, <1>6, <2>1, <2>2, <2>3, <2>5
    <2>7. Records'
      BY <1>1, <2>1, RecordsKept DEF Inv
    <2> QED BY <1>2, <2>1, <2>6, <2>7 DEF Inv
  <1>7. CASE /\ r \in Checked /\ FreshJobs(w) # {}
             /\ \E j \in FreshJobs(w) : jobs' = jobs \cup {Job(j, w, l, r)} /\ GoTodo(t, "check",
                       SetRepo(l, r, [e EXCEPT !.status = "checking", !.job = j]), rest)
    <2>1. PICK j \in FreshJobs(w) : jobs' = jobs \cup {Job(j, w, l, r)} /\ GoTodo(t, "check",
                       SetRepo(l, r, [e EXCEPT !.status = "checking", !.job = j]), rest)
      BY <1>7
    <2>2. PICK q : q = Job(j, w, l, r)
      OBVIOUS
    <2>3. q.id = j /\ q.worker = w /\ q.repo = r /\ q.tested = e.tested /\ q \in JobSet
      <3>1. j \in JobIds /\ e.tested \in Commits /\ l.id \in 1..MaxLands /\ r \in Repos
        BY <1>2, <1>3, <1>4, OfRepos DEF LandRepo, FreshJobs, LandState
      <3> QED BY <1>2, <2>2, <3>1 DEF Job, JobSet
    <2>4. World'.queued = World.queued \cup {q}
      BY <1>1, <2>1, <2>2 DEF World
    <2>5. Unmentioned(q)
      BY <2>1, <2>3 DEF FreshJobs, Unmentioned, land
    <2>6. Onward
      BY <1>1, <2>4, <2>5 DEF Onward, Grows, World, env, hist
    <2>7. Trees'
      <3>1. World'.base = World.base
        BY <1>1 DEF World, env
      <3> QED BY <1>1, <3>1 DEF Inv, Trees, Tip, LandedIsReviewed, env, hist
    <2>8. Queue'
      BY <1>1, <1>3, <2>1, <2>2, <2>3 DEF Inv, Queue, hist
    <2>9. PICK f : f = [e EXCEPT !.status = "checking", !.job = j]
      OBVIOUS
    <2>10. /\ f \in LandRepo /\ f.status = "checking" /\ f.pinned = e.pinned
           /\ f.attempts = e.attempts /\ f.tested = e.tested /\ f.base_before = e.base_before
           /\ f.fp = e.fp /\ f.config_approved = e.config_approved /\ f.job = j
      BY <1>4, <2>1, <2>9 DEF LandRepo, Statuses, FreshJobs
    <2>11. Entry(World', w, r, e)
      BY <1>1, <1>2, <1>3, <2>6, TaskNext DEF TaskOf, Whole
    <2>12. \A p \in World.queued : p.id # j
      BY <2>1 DEF FreshJobs, World
    <2>13. Asked(World', w, r, f)
      BY <2>3, <2>4, <2>10, <2>12 DEF Asked
    <2>14. Entry(World', w, r, f)
      BY <1>4, <2>10, <2>11, <2>13 DEF Entry, Merged, Claims, Stepped, Tip
    <2>15. Hands'
      BY <1>5, <2>1, <2>6, <2>9, <2>10, <2>14
    <2>16. Records'
      BY <1>1, <2>6, RecordsKept DEF Inv
    <2> QED BY <1>2, <2>7, <2>8, <2>15, <2>16 DEF Inv
  <1>8. CASE Fail(t, l) /\ jobs' = jobs
    <2>1. Onward /\ Trees' /\ Queue'
      BY <1>1, <1>8, StillQueue
    <2>2. Whole(World', w, l) /\ Seen(World', w, l)
      BY <1>1, <2>1, TaskNext DEF TaskOf
    <2>3. Hands' /\ Records'
      BY <1>1, <1>3, <1>8, <2>1, <2>2, Failed, RecordsKept DEF Inv
    <2> QED BY <1>2, <2>1, <2>3 DEF Inv
  <1> QED
    <2>1. \/ r \notin Checked /\ jobs' = jobs
             /\ GoTodo(t, "check", SetRepo(l, r, [e EXCEPT !.status = "tested"]), rest)
          \/ /\ r \in Checked /\ FreshJobs(w) # {}
             /\ LET j == CHOOSE j \in FreshJobs(w) : TRUE IN
                  jobs' = jobs \cup {Job(j, w, l, r)} /\ GoTodo(t, "check",
                       SetRepo(l, r, [e EXCEPT !.status = "checking", !.job = j]), rest)
          \/ Fail(t, l) /\ jobs' = jobs
      BY DEF StartCheck, land
    <2> HIDE DEF e, r, l, w, rest
    <2> QED BY <1>6, <1>7, <1>8, <2>1

\* A copy in another state.
LEMMA StateCopy ==
  ASSUME NEW V, NEW w \in Workers, NEW l, Whole(V, w, l), NEW s \in States,
         NEW m, m = [l EXCEPT !.state = s]
  PROVE  /\ Whole(V, w, m) /\ m.state = s /\ m.repos = l.repos /\ m.id = l.id
         /\ m.approved = l.approved
         /\ Seen(V, w, l) => Seen(V, w, m)
         /\ Clean(w, l) => Clean(w, m)
         /\ Post(w, l) => Post(w, m)
         /\ unlanded(m) = unlanded(l)
  <1>1. Whole(V, w, m) /\ m.state = s /\ m.repos = l.repos /\ m.id = l.id /\ m.approved = l.approved
    BY WithState
  <1> QED BY <1>1 DEF Seen, Clean, Post, unlanded, landed

LEMMA ChecksStartedStep == ASSUME Inv, NEW t \in Tasks, ChecksStarted(t) PROVE Inv'
  <1> DEFINE w == t[1]
             l == task[t].land
  <1>1. /\ task[t].pc = "check"
        /\ UNCHANGED <<up, env, lock, jobs, ends, cards, log, seq, crashes, hist>>
        /\ \/ Save(w, [l EXCEPT !.state = "checking"]) /\ Stop(t)
           \/ Go(t, "gate", [l EXCEPT !.state = "advancing"]) /\ disk' = disk
    BY DEF ChecksStarted, At, land
  <1>2. Onward /\ Trees' /\ Queue' /\ Cards' /\ Counters'
    BY <1>1, StillQueue, StillCards, StillCounters
  <1>3. w \in Workers /\ TaskOf(World', w, task[t])
    BY <1>1, <1>2, TaskNext
  <1>4. Whole(World', w, l) /\ Seen(World', w, l) /\ Clean(w, l) /\ Post(w, l)
    BY <1>1, <1>3 DEF TaskOf, Holding
  <1>5. CASE Save(w, [l EXCEPT !.state = "checking"]) /\ Stop(t)
    <2>1. PICK m : m = [l EXCEPT !.state = "checking"]
      OBVIOUS
    <2>2. "checking" \in States
      BY DEF States
    <2> HIDE DEF l, w
    <2>3. Fit(World', w, m)
      BY <1>3, <1>4, <2>1, <2>2, StateCopy DEF Fit
    <2>4. Save(w, m)
      BY <1>5, <2>1
    <2> QED BY <1>2, <1>3, <1>5, <2>3, <2>4, Saved, Stopped DEF Inv
  <1>6. CASE Go(t, "gate", [l EXCEPT !.state = "advancing"]) /\ disk' = disk
    <2>1. PICK m : m = [l EXCEPT !.state = "advancing"]
      OBVIOUS
    <2>2. "advancing" \in States
      BY DEF States
    <2> HIDE DEF l
    <2>3. Whole(World', w, m) /\ Seen(World', w, m) /\ Clean(w, m) /\ Post(w, m)
          /\ m.state = "advancing"
      BY <1>3, <1>4, <2>1, <2>2, StateCopy
    <2>4. TaskOf(World', w, Gone(task[t], "gate", m))
      BY <1>1, <1>3, <2>3 DEF TaskOf, Gone, PCs, Ending, Holding, Whole
    <2>5. Go(t, "gate", m)
      BY <1>6, <2>1
    <2> QED BY <1>2, <1>6, <2>4, <2>5, Went, RecordsKept DEF Inv
  <1> QED BY <1>1, <1>5, <1>6

LEMMA CheckEndsStep == ASSUME Inv, NEW q \in jobs, CheckEnds(q) PROVE Inv'
  <1>1. PICK ok \in BOOLEAN :
          /\ ends' = ends \cup {[job |-> q, passed |-> ok]}
          /\ passed' = IF ok THEN passed \cup {<<q.repo, q.tested>>} ELSE passed
    BY DEF CheckEnds
  <1>2. /\ jobs' = jobs \ {q}
        /\ UNCHANGED <<up, env, disk, task, lock, cards, log, seq, crashes, reviewed, approved>>
    BY DEF CheckEnds
  <1>3. Cards' /\ Counters'
    BY <1>2, StillCards, StillCounters
  <1>4. World'.queued \subseteq World.queued
    <2>1. \A e \in ends' : e \in ends \/ e.job = q
      BY <1>1
    <2> QED BY <1>2, <2>1 DEF World
  <1>5. Onward
    BY <1>1, <1>2, <1>4 DEF Onward, Grows, World, env
  <1>6. Trees'
    <2>1. World'.base = World.base
      BY <1>2 DEF World, env
    <2> QED BY <1>2, <2>1 DEF Inv, Trees, Tip, LandedIsReviewed, env
  <1>7. Queue'
    BY <1>1, <1>2 DEF Inv, Queue
  <1>8. Records' /\ Hands'
    BY <1>2, <1>5, RecordsKept, HandsKept DEF Inv
  <1> QED BY <1>3, <1>6, <1>7, <1>8 DEF Inv

LEMMA MarkEndedStep == ASSUME Inv, NEW e \in ends, MarkEnded(e) PROVE Inv'
  <1> DEFINE q == e.job
             w == q.worker
             t == <<w, q.id>>
             r == q.repo
             d == disk[w].land
             f == [d.repos[r] EXCEPT !.status = IF e.passed THEN "tested" ELSE "pending"]
             m == SetRepo(d, r, f)
             hit == Recorded(q) /\ d.repos[r].status = "checking" /\ d.repos[r].job = q.id
  <1>1. /\ task[t].pc = "idle" /\ ends' = ends \ {e}
        /\ UNCHANGED <<up, env, lock, jobs, cards, log, seq, crashes, hist>>
        /\ hit => /\ disk' = [disk EXCEPT ![w].land = m]
                  /\ \/ ~e.passed /\ Fail(t, m)
                     \/ e.passed /\ Go(t, "gate", [m EXCEPT !.state = "advancing"])
                     \/ e.passed /\ task' = task
        /\ ~hit => UNCHANGED <<disk, task>>
    BY DEF MarkEnded
  <1>2. q \in JobSet /\ w \in Workers /\ t \in Tasks /\ t[1] = w /\ q.repo \in Repos
    BY DEF Inv, Queue, JobSet, Tasks, Slots
  <1>3. Cards' /\ Counters'
    BY <1>1, StillCards, StillCounters
  <1>4. World'.queued \subseteq World.queued
    BY <1>1 DEF World
  <1>5. Onward /\ Trees'
    BY <1>1, <1>4, Still
  <1>6. Queue'
    BY <1>1 DEF Inv, Queue, hist
  <1>7. CASE ~hit
    BY <1>1, <1>3, <1>5, <1>6, <1>7, RecordsKept, HandsKept DEF Inv
  <1>8. CASE hit
    <2>1. RecordOf(World, w, disk[w]) /\ RecordOf(World', w, disk[w])
      BY <1>2, <1>5, RecordNext DEF Inv, Records
    <2>2. /\ Fit(World, w, d) /\ Fit(World', w, d) /\ d.state = "checking" /\ d # None
      BY <1>8, <2>1 DEF RecordOf, Recorded
    <2>3. /\ Whole(World', w, d) /\ Seen(World', w, d) /\ Clean(w, d) /\ Post(w, d)
          /\ d \in LandState(w)
      BY <2>2 DEF Fit, Whole
    <2>4. r \in Of[w] /\ e.passed \in BOOLEAN
      BY DEF Inv, Queue
    <2>5. Entry(World, w, r, d.repos[r]) /\ Entry(World', w, r, d.repos[r])
      BY <2>2, <2>4 DEF Fit, Whole
    <2>6. PICK g : g = f
      OBVIOUS
    <2>7. /\ g \in LandRepo /\ g.status = IF e.passed THEN "tested" ELSE "pending"
          /\ g.pinned = d.repos[r].pinned /\ g.attempts = d.repos[r].attempts
          /\ g.tested = d.repos[r].tested /\ g.base_before = d.repos[r].base_before
          /\ g.fp = d.repos[r].fp /\ g.config_approved = d.repos[r].config_approved
      BY <2>5, <2>6 DEF Entry, LandRepo, Statuses
    <2>8. d.repos[r].tested # None /\ Stepped(g) /\ Sane(g)
      BY <1>8, <2>3, <2>4, <2>5, <2>7 DEF Clean, Sane, Entry, Claims, Stepped
    <2>9. e.passed => Proven(World', r, g)
      <3>1. q \in World.queued
        BY DEF World
      <3>2. q.tested = d.repos[r].tested
        BY <1>8, <2>5, <2>8, <3>1 DEF Entry, Claims, Asked
      <3>3. World'.passed = passed
        BY <1>1 DEF World, hist
      <3> QED BY <2>7, <3>2, <3>3 DEF Proven, Inv, Queue
    <2>10. Entry(World', w, r, g)
      BY <2>4, <2>5, <2>7, <2>8, <2>9 DEF Entry, Merged, Claims, Stepped, Tip
    <2>11. PICK n : n = m
      OBVIOUS
    <2>12. n = SetRepo(d, r, g)
      BY <2>6, <2>11
    <2>13. /\ disk' = [disk EXCEPT ![w].land = n]
           /\ \/ Fail(t, n)
              \/ e.passed /\ Go(t, "gate", [n EXCEPT !.state = "advancing"])
              \/ task' = task
      BY <1>1, <1>8, <2>11
    <2> HIDE DEF m, f
    <2>14. /\ Whole(World', w, n) /\ Seen(World', w, n) /\ Clean(w, n) /\ Post(w, n)
           /\ n.state = "checking" /\ n.id = d.id
      <3> HIDE DEF d, r, w
      <3> QED BY <1>2, <2>2, <2>3, <2>4, <2>7, <2>8, <2>10, <2>12, CopyWith
    <2>15. Records'
      <3>1. Fit(World', w, n) /\ Save(w, n)
        BY <2>2, <2>13, <2>14 DEF Fit, Save, Ours
      <3> QED BY <1>2, <1>5, <3>1, Saved
    <2>16. Hands'
      <3>1. CASE Fail(t, n)
        BY <1>2, <1>5, <2>14, <3>1, Failed
      <3>2. CASE Go(t, "gate", [n EXCEPT !.state = "advancing"])
        <4>1. PICK k : k = [n EXCEPT !.state = "advancing"]
          OBVIOUS
        <4>2. "advancing" \in States
          BY DEF States
        <4>3. /\ Whole(World', w, k) /\ Seen(World', w, k) /\ Clean(w, k) /\ Post(w, k)
              /\ k.state = "advancing"
          BY <1>2, <2>14, <4>1, <4>2, StateCopy
        <4>4. TaskOf(World', w, task[t])
          BY <1>2, <1>5, TaskNext
        <4>5. TaskOf(World', w, Gone(task[t], "gate", k))
          BY <1>2, <4>3, <4>4 DEF TaskOf, Gone, PCs, Ending, Holding, Whole
        <4> HIDE DEF t, w
        <4> QED BY <1>2, <1>5, <3>2, <4>1, <4>5, Went
      <3>3. CASE task' = task
        BY <1>5, <3>3, HandsKept DEF Inv
      <3> QED BY <2>13, <3>1, <3>2, <3>3
    <2> QED BY <1>3, <1>5, <1>6, <2>15, <2>16 DEF Inv
  <1> QED BY <1>7, <1>8

LEMMA GateStep == ASSUME Inv, NEW t \in Tasks, Gate(t) PROVE Inv'
  <1> DEFINE w == t[1]
             l == task[t].land
             r == next_in_order(l)
             e == l.repos[r]
             go == SetRepo(l, r, [e EXCEPT !.status = "advancing"])
  <1>1. /\ task[t].pc = "gate"
        /\ UNCHANGED <<up, env, lock, jobs, ends, cards, log, seq, crashes, hist>>
        /\ \/ unlanded(l) = {} /\ Go(t, "finish", l) /\ disk' = disk
           \/ Fail(t, l) /\ disk' = disk
           \/ Go(t, "ask", l) /\ disk' = disk
           \/ /\ unlanded(l) # {} /\ e.status = "tested"
              /\ \A q \in unlanded(l) : ~config_unapproved(l.repos[q])
              /\ Save(w, go)
              /\ GoRepo(t, "cas", go, r) \/ Fail(t, go)
    BY DEF Gate, At, land
  <1>2. Onward /\ Trees' /\ Queue' /\ Cards' /\ Counters'
    BY <1>1, StillQueue, StillCards, StillCounters
  <1>3. w \in Workers /\ TaskOf(World', w, task[t])
    BY <1>1, <1>2, TaskNext
  <1>4. /\ Whole(World', w, l) /\ Seen(World', w, l) /\ Clean(w, l) /\ Post(w, l)
        /\ l.state = "advancing" /\ l \in LandState(w)
    BY <1>1, <1>3 DEF TaskOf, Holding, Whole
  <1>5. CASE unlanded(l) = {} /\ Go(t, "finish", l) /\ disk' = disk
    <2>1. TaskOf(World', w, Gone(task[t], "finish", l))
      BY <1>3, <1>4, <1>5 DEF TaskOf, Gone, PCs, Ending, Holding
    <2> HIDE DEF l
    <2> QED BY <1>2, <1>5, <2>1, Went, RecordsKept DEF Inv
  <1>6. CASE Fail(t, l) /\ disk' = disk
    BY <1>2, <1>4, <1>6, Failed, RecordsKept DEF Inv
  <1>7. CASE Go(t, "ask", l) /\ disk' = disk
    <2>1. TaskOf(World', w, Gone(task[t], "ask", l))
      BY <1>3, <1>4 DEF TaskOf, Gone, PCs, Ending, Holding
    <2> HIDE DEF l
    <2> QED BY <1>2, <1>7, <2>1, Went, RecordsKept DEF Inv
  <1>8. CASE /\ unlanded(l) # {} /\ e.status = "tested"
             /\ \A q \in unlanded(l) : ~config_unapproved(l.repos[q])
             /\ Save(w, go)
             /\ GoRepo(t, "cas", go, r) \/ Fail(t, go)
    <2>1. r \in unlanded(l) /\ r \in Of[w]
      BY <1>3, <1>4, <1>8, NextIn
    <2>2. Entry(World', w, r, e) /\ e \in LandRepo
      BY <1>4, <2>1 DEF Whole, Entry
    <2>3. PICK f : f = [e EXCEPT !.status = "advancing"]
      OBVIOUS
    <2>4. /\ f \in LandRepo /\ f.status = "advancing" /\ f.pinned = e.pinned
          /\ f.attempts = e.attempts /\ f.tested = e.tested /\ f.base_before = e.base_before
          /\ f.fp = e.fp /\ f.config_approved = e.config_approved
      BY <2>2, <2>3 DEF LandRepo, Statuses
    <2>5. Entry(World', w, r, f)
      BY <1>8, <2>2, <2>4 DEF Entry, Merged, Claims, Proven, Stepped, Tip
    <2>6. Sane(f)
      BY <1>4, <1>8, <2>1, <2>2, <2>4 DEF Sane, Clean, Entry, Claims
    <2>7. ~config_unapproved(f)
      BY <1>8, <2>1, <2>4 DEF config_unapproved
    <2>8. PICK m : m = SetRepo(l, r, f)
      OBVIOUS
    <2>9. Save(w, m) /\ (GoRepo(t, "cas", m, r) \/ Fail(t, m))
      BY <1>8, <2>3, <2>8
    <2>10. /\ Whole(World', w, m) /\ Seen(World', w, m) /\ Clean(w, m) /\ Post(w, m)
           /\ m.state = "advancing" /\ m.repos[r] = f
      <3>1. f.pinned = l.repos[r].pinned
        BY <2>4
      <3> HIDE DEF go, e, r, l, w
      <3> QED BY <1>3, <1>4, <2>1, <2>4, <2>5, <2>6, <2>8, <3>1, CopyWith
    <2>11. Records'
      <3>1. Fit(World', w, m)
        BY <2>10 DEF Fit
      <3> QED BY <1>2, <1>3, <2>9, <3>1, Saved
    <2>12. Hands'
      <3>1. TaskOf(World', w, GoneAt(task[t], "cas", m, r))
        BY <1>3, <2>1, <2>4, <2>7, <2>10 DEF TaskOf, GoneAt, PCs, Ending, Holding, Whole
      <3> HIDE DEF r
      <3> QED BY <1>2, <2>9, <2>10, <3>1, WentAt, Failed
    <2> QED BY <1>2, <2>11, <2>12 DEF Inv
  <1> QED
    <2> HIDE DEF go, e, r, l, w
    <2> QED BY <1>1, <1>5, <1>6, <1>7, <1>8

LEMMA LogStep == ASSUME Inv, NEW t \in Tasks, Log(t) PROVE Inv'
  <1> DEFINE w == t[1]
             l == task[t].land
             r == task[t].repo
             e == l.repos[r]
  <1>1. /\ task[t].pc = "log"
        /\ UNCHANGED <<up, env, disk, lock, jobs, ends, cards, seq, crashes, hist>>
        /\ Go(t, "saveLanded", SetRepo(l, r, [e EXCEPT !.status = "landed"]))
    BY DEF Log, At, land
  <1>2. Onward /\ Trees' /\ Queue' /\ Cards' /\ Counters'
    BY <1>1, StillQueue, StillCards, StillCounters
  <1>3. w \in Workers /\ TaskOf(World', w, task[t])
    BY <1>1, <1>2, TaskNext
  <1>4. /\ Whole(World', w, l) /\ Seen(World', w, l) /\ Clean(w, l) /\ Post(w, l)
        /\ l.state = "advancing" /\ r \in Of[w] /\ e.status = "advancing"
        /\ e.tested \subseteq World'.base[r]
    BY <1>1, <1>3 DEF TaskOf, Holding
  <1>5. Entry(World', w, r, e) /\ e \in LandRepo /\ Sane(e)
    BY <1>4 DEF Whole, Entry, Clean
  <1>6. PICK f : f = [e EXCEPT !.status = "landed"]
    OBVIOUS
  <1>7. /\ f \in LandRepo /\ f.status = "landed" /\ f.pinned = e.pinned
        /\ f.tested = e.tested /\ f.base_before = e.base_before
        /\ f.config_approved = e.config_approved
    BY <1>5, <1>6 DEF LandRepo, Statuses
  <1>8. Entry(World', w, r, f) /\ Sane(f)
    BY <1>4, <1>5, <1>7 DEF Entry, Merged, Claims, Tip, Sane
  <1>9. PICK m : m = SetRepo(l, r, f)
    OBVIOUS
  <1>10. /\ Whole(World', w, m) /\ Seen(World', w, m) /\ Clean(w, m) /\ Post(w, m)
         /\ m.state = "advancing"
    <2>1. f.pinned = l.repos[r].pinned
      BY <1>7
    <2> HIDE DEF e, r, l, w
    <2> QED BY <1>3, <1>4, <1>7, <1>8, <1>9, <2>1, CopyWith
  <1>11. TaskOf(World', w, Gone(task[t], "saveLanded", m))
    BY <1>3, <1>10 DEF TaskOf, Gone, PCs, Ending, Holding, Whole
  <1>12. Go(t, "saveLanded", m)
    BY <1>1, <1>6, <1>9
  <1> QED BY <1>1, <1>2, <1>11, <1>12, Went, RecordsKept DEF Inv

LEMMA SaveLandedStep == ASSUME Inv, NEW t \in Tasks, SaveLanded(t) PROVE Inv'
  <1> DEFINE w == t[1]
             l == task[t].land
  <1>1. /\ task[t].pc = "saveLanded" /\ Save(w, l)
        /\ UNCHANGED <<up, env, lock, jobs, ends, cards, log, seq, crashes, hist>>
        /\ task' = [task EXCEPT ![t] = [task[t] EXCEPT !.pc = "gate", !.again = FALSE]]
    BY DEF SaveLanded, At, land
  <1>2. Onward /\ Trees' /\ Queue' /\ Cards' /\ Counters'
    BY <1>1, StillQueue, StillCards, StillCounters
  <1>3. w \in Workers /\ TaskOf(World', w, task[t])
    BY <1>1, <1>2, TaskNext
  <1>4. Fit(World', w, l)
    BY <1>1, <1>3 DEF TaskOf, Fit, Holding
  <1>5. PICK x : x = [task[t] EXCEPT !.pc = "gate", !.again = FALSE]
    OBVIOUS
  <1>6. TaskOf(World', w, x)
    BY <1>1, <1>3, <1>5 DEF TaskOf, PCs, Ending, Holding
  <1>7. task' = [task EXCEPT ![t] = x]
    BY <1>1, <1>5
  <1> HIDE DEF l
  <1> QED BY <1>1, <1>2, <1>3, <1>4, <1>6, <1>7, Saved, HandsWith DEF Inv

\* Base moved to what was tested holds of each worker what was named.
LEMMA LandedStaysReviewed ==
  ASSUME Inv, NEW w \in Workers, NEW r \in Of[w], NEW e,
         Entry(World, w, r, e), e.tested # None, e.base_before = base[r],
         e.pinned \in reviewed[w][r],
         base' = [base EXCEPT ![r] = e.tested], reviewed' = reviewed
  PROVE  /\ LandedIsReviewed' /\ e.tested \in Commits /\ base[r] \subseteq e.tested
         /\ e.tested = base[r] \cup e.pinned
  <1>1. /\ e.tested = base[r] \cup e.pinned /\ e.tested \in Commits /\ Own(w, e.pinned)
        /\ e.pinned \ Work(w) \subseteq base[r] /\ World.base = base
    BY DEF Entry, Merged, Tip, LandRepo, World
  <1>2. ASSUME NEW v \in Workers, NEW q \in Of[v], base'[q] \cap Work(v) # {}
        PROVE  \E pin \in reviewed[v][q] : pin \cap Work(v) = base'[q] \cap Work(v)
    <2>1. base[q] \cap Work(v) # {} =>
            \E pin \in reviewed[v][q] : pin \cap Work(v) = base[q] \cap Work(v)
      BY DEF Inv, Trees, LandedIsReviewed
    <2>2. CASE q # r
      BY <1>2, <2>1, <2>2 DEF Inv, Trees
    <2>3. CASE q = r /\ v # w
      <3>1. Work(v) \cap Work(w) = {}
        BY <2>3 DEF Work
      <3>2. base'[q] = e.tested
        BY <2>3, OfRepos DEF Inv, Trees
      <3>3. base'[q] \cap Work(v) = base[q] \cap Work(v)
        BY <1>1, <2>3, <3>1, <3>2
      <3> QED BY <1>2, <2>1, <3>3
    <2>4. CASE q = r /\ v = w
      <3>1. base'[q] = base[r] \cup e.pinned
        BY <1>1, <2>4, OfRepos DEF Inv, Trees
      <3>2. CASE base[r] \cap Work(w) = {}
        <4>1. base'[q] \cap Work(v) = e.pinned \cap Work(w)
          BY <2>4, <3>1, <3>2
        <4> QED BY <2>4, <4>1
      <3>3. CASE base[r] \cap Work(w) # {}
        <4>1. PICK pin \in reviewed[w][r] : pin \cap Work(w) = base[r] \cap Work(w)
          BY <2>1, <2>4, <3>3
        <4>2. Own(w, pin)
          BY <4>1 DEF Inv, Trees
        <4>3. \/ (pin \cup e.pinned) \cap Work(w) = pin \cap Work(w)
              \/ (pin \cup e.pinned) \cap Work(w) = e.pinned \cap Work(w)
          BY <1>1, <4>2, OwnEither
        <4>4. base'[q] \cap Work(v) = (pin \cup e.pinned) \cap Work(w)
          BY <2>4, <3>1, <4>1
        <4> QED BY <2>4, <4>1, <4>3, <4>4
      <3> QED BY <3>2, <3>3
    <2> QED BY <2>2, <2>3, <2>4
  <1> QED BY <1>1, <1>2 DEF LandedIsReviewed

\* A growing Base leaves the rest of the trees as they were.
LEMMA TreesGrow ==
  ASSUME Inv, base' \in [Repos -> Commits], UNCHANGED <<branch, reviewed>>,
         \A r \in Repos : base[r] \subseteq base'[r], LandedIsReviewed'
  PROVE  Trees'
  <1>1. \A w \in Workers : \A r \in Of[w] : Tip(World', w, r, branch[w][r])
    <2>1. World'.base = base' /\ World.base = base
      BY DEF World
    <2> QED BY <2>1, OfRepos DEF Inv, Trees, Tip
  <1> QED BY <1>1 DEF Inv, Trees

LEMMA CasStep == ASSUME Inv, NEW t \in Tasks, Cas(t) PROVE Inv'
  <1> DEFINE w == t[1]
             l == task[t].land
             r == task[t].repo
             e == l.repos[r]
             tried == [e EXCEPT !.attempts = @ + 1]
             again == [tried EXCEPT !.status = "pending"]
             x     == [task[t] EXCEPT !.pc = "prep", !.todo = {r}, !.again = TRUE,
                         !.land = SetRepo(l, r, again)]
  <1>1. /\ task[t].pc = "cas"
        /\ UNCHANGED <<up, branch, disk, lock, jobs, ends, cards, log, seq, crashes, hist>>
        /\ \/ /\ base[r] = e.base_before /\ base' = [base EXCEPT ![r] = e.tested]
              /\ Go(t, "log", l)
           \/ Go(t, "hold", SetRepo(l, r, tried)) /\ base' = base
           \/ /\ tried.attempts < MaxAttempts /\ task' = [task EXCEPT ![t] = x]
              /\ base' = base
           \/ (Go(t, "hold", l) \/ Fail(t, l)) /\ base' = base
    BY DEF Cas, At, land, BaseMoved
  <1>2. Cards' /\ Counters'
    BY <1>1, StillCards, StillCounters
  <1>3. w \in Workers /\ TaskOf(World, w, task[t])
    BY TaskWorker DEF Inv, Hands
  <1>4. /\ Whole(World, w, l) /\ Seen(World, w, l) /\ Clean(w, l) /\ Post(w, l)
        /\ l.state = "advancing" /\ r \in Of[w] /\ e.status = "advancing"
        /\ ~config_unapproved(e) /\ l \in LandState(w)
    BY <1>1, <1>3 DEF TaskOf, Holding, Whole
  <1>5. /\ Entry(World, w, r, e) /\ e \in LandRepo /\ e.tested # None /\ e.attempts < MaxAttempts
        /\ Proven(World, r, e) /\ Stepped(e)
    BY <1>4 DEF Whole, Entry, Clean, Sane, Claims
  <1>6. CASE /\ base[r] = e.base_before /\ base' = [base EXCEPT ![r] = e.tested]
             /\ Go(t, "log", l)
    <2>1. e.pinned \in reviewed[w][r] /\ hist' = hist
      BY <1>1, <1>4 DEF Seen, World
    <2>2. /\ LandedIsReviewed' /\ e.tested \in Commits /\ base[r] \subseteq e.tested
      <3> HIDE DEF e, r, w
      <3> QED BY <1>3, <1>4, <1>5, <1>6, <2>1, LandedStaysReviewed DEF hist
    <2>3. /\ base' \in [Repos -> Commits] /\ \A q \in Repos : base[q] \subseteq base'[q]
          /\ base'[r] = e.tested
      BY <1>3, <1>4, <1>6, <2>2, OfRepos DEF Inv, Trees
    <2>4. Trees'
      BY <1>1, <2>1, <2>2, <2>3, TreesGrow DEF hist
    <2>5. Onward
      BY <1>1, <2>3 DEF Onward, Grows, World, hist
    <2>6. Queue'
      BY <1>1 DEF Inv, Queue, hist
    <2>7. Records'
      BY <1>1, <2>5, RecordsKept DEF Inv
    <2>8. TaskOf(World', w, task[t])
      BY <2>5, TaskNext
    <2>9. TaskOf(World', w, Gone(task[t], "log", l))
      <3>1. World'.base[r] = e.tested
        BY <2>3 DEF World
      <3> QED BY <1>1, <1>3, <1>4, <2>8, <3>1 DEF TaskOf, Gone, PCs, Ending, Holding
    <2> HIDE DEF l
    <2>10. Hands'
      BY <1>6, <2>5, <2>9, Went
    <2> QED BY <1>2, <2>4, <2>6, <2>7, <2>10 DEF Inv
  <1>7. ASSUME base' = base PROVE
          /\ Onward /\ Trees' /\ Queue' /\ Records' /\ TaskOf(World', w, task[t])
          /\ Whole(World', w, l) /\ Seen(World', w, l) /\ Entry(World', w, r, e)
          /\ Proven(World', r, e)
    <2>1. Onward /\ Trees' /\ Queue'
      BY <1>1, <1>7, StillQueue DEF env
    <2>2. Records'
      BY <1>1, <2>1, RecordsKept DEF Inv
    <2>3. TaskOf(World', w, task[t])
      BY <2>1, TaskNext
    <2>4. Whole(World', w, l) /\ Seen(World', w, l)
      BY <1>1, <2>3 DEF TaskOf
    <2>5. Entry(World', w, r, e)
      BY <1>4, <2>4 DEF Whole
    <2> QED BY <1>4, <2>1, <2>2, <2>3, <2>4, <2>5 DEF Entry, Claims
  <1>8. PICK f : f = tried
    OBVIOUS
  <1>9. /\ f \in LandRepo /\ f.attempts = e.attempts + 1 /\ f.pinned = e.pinned
        /\ f.status = "advancing" /\ f.tested = e.tested /\ f.base_before = e.base_before
        /\ f.fp = e.fp /\ f.config_approved = e.config_approved
    <2>1. e \in LandRepo /\ e.attempts \in 0..MaxAttempts /\ e.attempts < MaxAttempts
          /\ e.status = "advancing" /\ MaxAttempts \in Nat
      BY <1>4, <1>5, LandAssumption DEF LandRepo
    <2>2. f = [e EXCEPT !.attempts = e.attempts + 1]
      BY <1>8
    <2> HIDE DEF x, again, tried, e, r, l, w
    <2>3. e.attempts + 1 \in 0..MaxAttempts
      BY <2>1
    <2> QED BY <2>1, <2>2, <2>3 DEF LandRepo
  <1>10. CASE Go(t, "hold", SetRepo(l, r, tried)) /\ base' = base
    <2>1. PICK m : m = SetRepo(l, r, f)
      OBVIOUS
    <2>2. Entry(World', w, r, f) /\ Proven(World', r, f) /\ Stepped(f)
      BY <1>4, <1>5, <1>7, <1>9, <1>10 DEF Entry, Merged, Claims, Proven, Stepped, Tip
    <2>3. Whole(World', w, m) /\ Seen(World', w, m) /\ m.repos[r] = f
      <3>1. f.pinned = l.repos[r].pinned /\ Whole(World', w, l) /\ Seen(World', w, l)
        BY <1>7, <1>9, <1>10
      <3> HIDE DEF x, again, tried, e, r, l, w
      <3> QED BY <1>3, <1>4, <2>1, <2>2, <3>1, CopyWith
    <2>4. TaskOf(World', w, Gone(task[t], "hold", m))
      BY <1>3, <1>7, <1>10, <2>2, <2>3 DEF TaskOf, Gone, PCs, Ending, Holding, Whole
    <2>5. Go(t, "hold", m)
      BY <1>8, <1>10, <2>1
    <2>6. Hands'
      BY <1>7, <1>10, <2>4, <2>5, Went
    <2> QED BY <1>2, <1>7, <1>10, <2>6 DEF Inv
  <1>11. CASE /\ tried.attempts < MaxAttempts /\ task' = [task EXCEPT ![t] = x]
              /\ base' = base
    <2>1. PICK g : g = again
      OBVIOUS
    <2>2. /\ g \in LandRepo /\ g.attempts = e.attempts + 1 /\ g.pinned = e.pinned
          /\ g.status = "pending" /\ g.tested = e.tested /\ g.base_before = e.base_before
          /\ g.fp = e.fp /\ g.config_approved = e.config_approved
      BY <1>8, <1>9, <2>1 DEF LandRepo, Statuses
    <2>3. Entry(World', w, r, g) /\ Stepped(g) /\ Sane(g)
      BY <1>5, <1>7, <1>8, <1>9, <1>11, <2>2 DEF Entry, Merged, Claims, Stepped, Tip, Sane
    <2>4. PICK m : m = SetRepo(l, r, g)
      OBVIOUS
    <2>5. /\ Whole(World', w, m) /\ Seen(World', w, m) /\ Clean(w, m) /\ Post(w, m)
          /\ m.state = "advancing" /\ m.repos[r] = g
      <3>1. g.pinned = l.repos[r].pinned /\ Whole(World', w, l) /\ Seen(World', w, l)
        BY <1>7, <1>11, <2>2
      <3> HIDE DEF x, again, tried, e, r, l, w
      <3> QED BY <1>3, <1>4, <2>3, <2>4, <3>1, CopyWith
    <2>6. PICK y : y = x
      OBVIOUS
    <2>7. y = [task[t] EXCEPT !.pc = "prep", !.todo = {r}, !.again = TRUE, !.land = m]
      BY <2>1, <2>4, <2>6
    <2>8. m \in LandState(w) /\ {r} \subseteq unlanded(m)
      BY <1>4, <2>2, <2>5 DEF unlanded, landed, Whole, LandState
    <2>9. TaskOf(World', w, y)
      <3>1. TaskOf(World', w, task[t])
        BY <1>7, <1>11
      <3>2. /\ y.pc = "prep" /\ y.todo = {r} /\ y.again = TRUE /\ y.land = m /\ y.repo = r
            /\ y \in [pc : PCs, land : LandState(w) \cup {None}, todo : SUBSET Of[w],
                      repo : Of[w] \cup {None}, again : BOOLEAN]
        BY <1>4, <2>7, <2>8, <3>1 DEF TaskOf, PCs
      <3> HIDE DEF x, again, tried, e, r, l, w
      <3> QED BY <2>5, <2>8, <3>2 DEF TaskOf, Ending, Holding, Post
    <2>10. task' = [task EXCEPT ![t] = y]
      BY <1>11, <2>6
    <2>11. Hands'
      <3> HIDE DEF x, again, tried, e, r, l
      <3> QED BY <1>7, <1>11, <2>9, <2>10, HandsWith DEF Inv
    <2> QED BY <1>2, <1>7, <1>11, <2>11 DEF Inv
  <1>12. CASE Go(t, "hold", l) /\ base' = base
    <2>1. TaskOf(World', w, Gone(task[t], "hold", l))
      BY <1>3, <1>4, <1>5, <1>7, <1>12 DEF TaskOf, Gone, PCs, Ending, Holding
    <2> HIDE DEF l
    <2> QED BY <1>2, <1>7, <1>12, <2>1, Went DEF Inv
  <1>13. CASE Fail(t, l) /\ base' = base
    BY <1>2, <1>4, <1>7, <1>13, Failed DEF Inv
  <1> QED
    <2> HIDE DEF x, again, tried, e, r, l, w
    <2> QED BY <1>1, <1>6, <1>10, <1>11, <1>12, <1>13

-------------------------------------------------------------------------------
(* How a run ends.                                                          *)

\* cleanup ends jobs of the land and frees its locks.
LEMMA CleanupKeeps ==
  ASSUME Inv, NEW w \in Workers, NEW l, cleanup(w, l), UNCHANGED <<up, env, seq, crashes, hist>>
  PROVE  Onward /\ Trees' /\ Queue' /\ Counters'
  <1>1. Dropped(w, l) \subseteq jobs
    BY DEF Dropped
  <1>2. /\ jobs' = jobs \ Dropped(w, l)
        /\ ends' = ends \cup {[job |-> q, passed |-> FALSE] : q \in Dropped(w, l)}
        /\ lock' = [r \in Repos |-> IF r \in Of[w] /\ lock[r] = l.id THEN None ELSE lock[r]]
    BY DEF cleanup
  <1>3. World'.queued \subseteq World.queued
    <2>1. \A e \in ends' : e.job \in jobs \cup {f.job : f \in ends}
      BY <1>1, <1>2
    <2> QED BY <1>2, <2>1 DEF World
  <1>4. Queue'
    <2>1. \A e \in ends' : e \in ends \/ \E q \in jobs : e = [job |-> q, passed |-> FALSE]
      BY <1>1, <1>2
    <2>2. passed' = passed
      BY DEF hist
    <2>3. ASSUME NEW e \in ends'
          PROVE  /\ e \in [job : JobSet, passed : BOOLEAN] /\ e.job.repo \in Of[e.job.worker]
                 /\ e.passed => <<e.job.repo, e.job.tested>> \in passed
      <3>1. CASE e \in ends
        BY <3>1 DEF Inv, Queue
      <3>2. CASE \E q \in jobs : e = [job |-> q, passed |-> FALSE]
        BY <3>2 DEF Inv, Queue
      <3> QED BY <2>1, <3>1, <3>2
    <2>4. jobs' \subseteq jobs
      BY <1>2
    <2> QED BY <2>2, <2>3, <2>4 DEF Inv, Queue
  <1>5. Counters'
    BY <1>2 DEF Inv, Counters
  <1> QED BY <1>3, <1>4, <1>5, Still

\* No job of the queue is named None.
LEMMA QueuedNamed == ASSUME Queue PROVE \A q \in World.queued : q.id # None
  BY NoneAssumption DEF Queue, World, JobSet

LEMMA QueuedNamedNext == ASSUME Queue' PROVE \A q \in World'.queued : q.id # None
  BY NoneAssumption DEF Queue, World, JobSet

LEMMA CleanedEntry ==
  ASSUME NEW V, \A q \in V.queued : q.id # None, NEW w \in Workers, NEW r \in Of[w], NEW e,
         Entry(V, w, r, e), NEW f, f = [e EXCEPT !.job = None]
  PROVE  /\ Entry(V, w, r, f) /\ f.status = e.status /\ f.pinned = e.pinned
         /\ f.tested = e.tested /\ f.base_before = e.base_before /\ f.attempts = e.attempts
         /\ f.fp = e.fp /\ f.config_approved = e.config_approved
  <1>1. e \in LandRepo
    BY DEF Entry
  <1>2. /\ f \in LandRepo /\ f.job = None /\ f.status = e.status /\ f.pinned = e.pinned
        /\ f.tested = e.tested /\ f.base_before = e.base_before /\ f.attempts = e.attempts
        /\ f.fp = e.fp /\ f.config_approved = e.config_approved
    BY <1>1 DEF LandRepo
  <1>3. Entry(V, w, r, f)
    BY <1>2 DEF Entry, Merged, Claims, Proven, Stepped, Asked, Tip
  <1> QED BY <1>2, <1>3

\* A copy whose checks are forgotten.
LEMMA CleanedCopy ==
  ASSUME NEW V, \A q \in V.queued : q.id # None, NEW w \in Workers, NEW l, Whole(V, w, l),
         NEW m, m = Cleaned(l)
  PROVE  /\ Whole(V, w, m) /\ m.state = l.state /\ m.id = l.id /\ m.approved = l.approved
         /\ m.request = l.request /\ m.order = l.order
         /\ Seen(V, w, l) => Seen(V, w, m)
         /\ Clean(w, l) => Clean(w, m)
         /\ Plain(w, l) => Plain(w, m)
         /\ unlanded(m) = unlanded(l)
  <1> DEFINE F == [r \in Of[w] |-> [l.repos[r] EXCEPT !.job = None]]
  <1>1. l \in LandState(w) /\ DOMAIN l.repos = Of[w]
    BY DEF Whole, LandState
  <1>2. ASSUME NEW r \in Of[w]
        PROVE /\ Entry(V, w, r, F[r]) /\ F[r].status = l.repos[r].status
              /\ F[r].pinned = l.repos[r].pinned /\ F[r].tested = l.repos[r].tested
              /\ F[r].attempts = l.repos[r].attempts
    <2>1. Entry(V, w, r, l.repos[r])
      BY DEF Whole
    <2>2. F[r] = [l.repos[r] EXCEPT !.job = None]
      OBVIOUS
    <2> HIDE DEF F
    <2> QED BY <2>1, <2>2, CleanedEntry
  <1>3. m = [l EXCEPT !.repos = F]
    BY <1>1 DEF Cleaned
  <1>4. F = [r \in Of[w] |-> F[r]]
    OBVIOUS
  <1> HIDE DEF F
  <1>5. /\ Whole(V, w, m) /\ m.repos = F /\ m.state = l.state /\ m.id = l.id
        /\ m.approved = l.approved /\ m.request = l.request /\ m.order = l.order
    BY <1>2, <1>3, <1>4, WithRepos
  <1>6. unlanded(m) = unlanded(l)
    <2>1. DOMAIN m.repos = Of[w]
      BY <1>4, <1>5
    <2> QED BY <1>1, <1>2, <1>5, <2>1 DEF unlanded, landed
  <1> QED BY <1>2, <1>5, <1>6 DEF Seen, Clean, Plain, Sane

LEMMA RefuseStep == ASSUME Inv, NEW t \in Tasks, Refuse(t) PROVE Inv'
  <1> DEFINE w == t[1]
             l == task[t].land
             d == [phase |-> "reported", land |-> None]
  <1>1. /\ task[t].pc = "refuse" /\ Go(t, "clean", l)
        /\ disk' = disk \/ disk' = [disk EXCEPT ![w] = d]
        /\ UNCHANGED <<up, env, lock, jobs, ends, cards, log, seq, crashes, hist>>
    BY DEF Refuse, At, land
  <1>2. Onward /\ Trees' /\ Queue' /\ Cards' /\ Counters'
    BY <1>1, StillQueue, StillCards, StillCounters
  <1>3. w \in Workers /\ TaskOf(World', w, task[t])
    BY <1>1, <1>2, TaskNext
  <1>4. TaskOf(World', w, Gone(task[t], "clean", l))
    BY <1>1, <1>3 DEF TaskOf, Gone, PCs, Ending, Holding
  <1>5. RecordOf(World', w, d) /\ d \in [phase : Phases, land : LandState(w) \cup {None}]
    BY DEF RecordOf, Phases
  <1> HIDE DEF l, d
  <1>6. Records'
    BY <1>1, <1>2, <1>3, <1>5, RecordsKept, RecordsWith DEF Inv
  <1> QED BY <1>1, <1>2, <1>4, <1>6, Went DEF Inv

LEMMA RefuseCleanStep == ASSUME Inv, NEW t \in Tasks, RefuseClean(t) PROVE Inv'
  <1> DEFINE w == t[1]
             l == task[t].land
  <1>1. /\ cleanup(w, l) /\ Stop(t) /\ w \in Workers
        /\ UNCHANGED <<up, env, disk, cards, log, seq, crashes, hist>>
    BY TaskWorker DEF RefuseClean, land
  <1>2. Onward /\ Trees' /\ Queue' /\ Cards' /\ Counters'
    BY <1>1, CleanupKeeps, StillCards
  <1> QED BY <1>1, <1>2, RecordsKept, Stopped DEF Inv

LEMMA HoldStep == ASSUME Inv, NEW t \in Tasks, Hold(t) PROVE Inv'
  <1> DEFINE w == t[1]
             l == task[t].land
             r == task[t].repo
             m == [l EXCEPT !.state = "held", !.repos[r].status = "held"]
  <1>1. /\ task[t].pc = "hold" /\ Save(w, m) /\ Go(t, "holdClean", m)
        /\ UNCHANGED <<up, env, lock, jobs, ends, cards, log, seq, crashes, hist>>
    BY DEF Hold, At, land
  <1>2. Onward /\ Trees' /\ Queue' /\ Cards' /\ Counters'
    BY <1>1, StillQueue, StillCards, StillCounters
  <1>3. w \in Workers /\ TaskOf(World', w, task[t])
    BY <1>1, <1>2, TaskNext
  <1>4. /\ Whole(World', w, l) /\ Seen(World', w, l) /\ l \in LandState(w)
        /\ r \in Of[w] \cup {None}
        /\ r \in Of[w] => Proven(World', r, l.repos[r]) /\ Stepped(l.repos[r])
    BY <1>1, <1>3 DEF TaskOf, Whole
  <1>5. PICK a : a = [l EXCEPT !.state = "held"]
    OBVIOUS
  <1>6. /\ Whole(World', w, a) /\ a.repos = l.repos /\ a.state = "held" /\ Seen(World', w, a)
        /\ a \in LandState(w)
    <2>1. "held" \in States
      BY DEF States
    <2> HIDE DEF l, w
    <2> QED BY <1>3, <1>4, <1>5, <2>1, StateCopy DEF Whole
  <1>7. PICK k : k = [a EXCEPT !.repos[r].status = "held"]
    OBVIOUS
  <1>8. m = k
    BY <1>4, <1>5, <1>7 DEF LandState
  <1>9. /\ Whole(World', w, k) /\ k.state = "held" /\ Seen(World', w, k)
    <2>1. CASE r \notin Of[w]
      <3>1. k = a
        BY <1>6, <1>7, <2>1 DEF LandState
      <3> QED BY <1>6, <3>1
    <2>2. CASE r \in Of[w]
      <3>1. PICK f : f = [l.repos[r] EXCEPT !.status = "held"]
        OBVIOUS
      <3>2. k = SetRepo(a, r, f)
        BY <1>6, <1>7, <2>2, <3>1 DEF SetRepo, LandState
      <3>3. Entry(World', w, r, l.repos[r]) /\ l.repos[r] \in LandRepo
        BY <1>4, <2>2 DEF Whole, Entry
      <3>4. /\ f \in LandRepo /\ f.status = "held" /\ f.pinned = l.repos[r].pinned
            /\ f.tested = l.repos[r].tested /\ f.base_before = l.repos[r].base_before
            /\ f.fp = l.repos[r].fp /\ f.config_approved = l.repos[r].config_approved
        BY <3>1, <3>3 DEF LandRepo, Statuses
      <3>5. Entry(World', w, r, f)
        BY <1>4, <2>2, <3>3, <3>4 DEF Entry, Merged, Claims, Proven, Stepped, Tip
      <3>6. ASSUME NEW q \in Of[w] PROVE k.repos[q] = IF q = r THEN f ELSE l.repos[q]
        BY <1>6, <2>2, <3>2, RepoOf, <1>3
      <3>7. Seen(World', w, k)
        BY <1>4, <3>4, <3>6 DEF Seen
      <3> HIDE DEF m, l, r, w
      <3> QED BY <1>3, <1>6, <2>2, <3>2, <3>5, <3>7, WithRepo
    <2> QED BY <2>1, <2>2
  <1>10. Save(w, k) /\ Go(t, "holdClean", k)
    BY <1>1, <1>8
  <1>11. TaskOf(World', w, Gone(task[t], "holdClean", k))
    BY <1>3, <1>9 DEF TaskOf, Gone, PCs, Ending, Holding, Whole
  <1>12. Fit(World', w, k)
    BY <1>9 DEF Fit
  <1> HIDE DEF m, l, r, w
  <1> QED BY <1>2, <1>3, <1>10, <1>11, <1>12, Saved, Went DEF Inv, w

LEMMA HoldCleanStep == ASSUME Inv, NEW t \in Tasks, HoldClean(t) PROVE Inv'
  <1> DEFINE w == t[1]
             l == task[t].land
  <1>1. /\ task[t].pc = "holdClean" /\ cleanup(w, l) /\ Go(t, "holdSave", Cleaned(l))
        /\ UNCHANGED <<up, env, disk, cards, log, seq, crashes, hist>>
    BY DEF HoldClean, At, land
  <1>2. w \in Workers
    BY TaskWorker
  <1>3. Onward /\ Trees' /\ Queue' /\ Cards' /\ Counters'
    BY <1>1, <1>2, CleanupKeeps, StillCards
  <1>4. TaskOf(World', w, task[t])
    BY <1>3, TaskNext
  <1>5. Whole(World', w, l) /\ Seen(World', w, l) /\ l.state = "held"
    BY <1>1, <1>4 DEF TaskOf, Holding
  <1>6. PICK m : m = Cleaned(l)
    OBVIOUS
  <1>7. Whole(World', w, m) /\ Seen(World', w, m) /\ m.state = "held"
    <2>1. \A q \in World'.queued : q.id # None
      BY <1>3, QueuedNamedNext
    <2> HIDE DEF l, w
    <2> QED BY <1>2, <1>5, <1>6, <2>1, CleanedCopy
  <1>8. TaskOf(World', w, Gone(task[t], "holdSave", m))
    BY <1>2, <1>4, <1>7 DEF TaskOf, Gone, PCs, Ending, Holding, Whole
  <1>9. Go(t, "holdSave", m)
    BY <1>1, <1>6
  <1> QED BY <1>1, <1>3, <1>8, <1>9, Went, RecordsKept DEF Inv

LEMMA HoldSaveStep == ASSUME Inv, NEW t \in Tasks, HoldSave(t) PROVE Inv'
  <1> DEFINE w == t[1]
             l == task[t].land
  <1>1. /\ task[t].pc = "holdSave" /\ Save(w, l) /\ Stop(t)
        /\ UNCHANGED <<up, env, lock, jobs, ends, cards, log, seq, crashes, hist>>
    BY DEF HoldSave, At, land
  <1>2. Onward /\ Trees' /\ Queue' /\ Cards' /\ Counters'
    BY <1>1, StillQueue, StillCards, StillCounters
  <1>3. w \in Workers /\ TaskOf(World', w, task[t])
    BY <1>1, <1>2, TaskNext
  <1>4. Fit(World', w, l)
    BY <1>1, <1>3 DEF TaskOf, Holding, Fit
  <1> HIDE DEF l, w
  <1> QED BY <1>1, <1>2, <1>3, <1>4, Saved, Stopped DEF Inv

LEMMA FinishStep == ASSUME Inv, NEW t \in Tasks, Finish(t) PROVE Inv'
  <1> DEFINE w == t[1]
             l == task[t].land
  <1>1. /\ task[t].pc = "finish" /\ cleanup(w, l) /\ Go(t, "finishSave", Cleaned(l))
        /\ UNCHANGED <<up, env, disk, cards, log, seq, crashes, hist>>
    BY DEF Finish, At, land
  <1>2. w \in Workers
    BY TaskWorker
  <1>3. Onward /\ Trees' /\ Queue' /\ Cards' /\ Counters'
    BY <1>1, <1>2, CleanupKeeps, StillCards
  <1>4. TaskOf(World', w, task[t])
    BY <1>3, TaskNext
  <1>5. Whole(World', w, l) /\ Seen(World', w, l) /\ Clean(w, l) /\ unlanded(l) = {}
        /\ l.state # "checking"
    BY <1>1, <1>4 DEF TaskOf, Holding, Ending
  <1>6. PICK m : m = Cleaned(l)
    OBVIOUS
  <1>7. Whole(World', w, m) /\ Seen(World', w, m) /\ Clean(w, m) /\ unlanded(m) = {}
        /\ m.state # "checking"
    <2>1. \A q \in World'.queued : q.id # None
      BY <1>3, QueuedNamedNext
    <2> HIDE DEF l, w
    <2> QED BY <1>2, <1>5, <1>6, <2>1, CleanedCopy
  <1>8. TaskOf(World', w, Gone(task[t], "finishSave", m))
    BY <1>2, <1>4, <1>7 DEF TaskOf, Gone, PCs, Ending, Holding, Whole
  <1>9. Go(t, "finishSave", m)
    BY <1>1, <1>6
  <1> QED BY <1>1, <1>3, <1>8, <1>9, Went, RecordsKept DEF Inv

LEMMA FinishSaveStep == ASSUME Inv, NEW t \in Tasks, FinishSave(t) PROVE Inv'
  <1> DEFINE w == t[1]
             l == task[t].land
  <1>1. /\ task[t].pc = "finishSave" /\ Save(w, l)
        /\ Go(t, "unretire", l) \/ Go(t, "retire", l)
        /\ UNCHANGED <<up, env, lock, jobs, ends, cards, log, seq, crashes, hist>>
    BY DEF FinishSave, At, land
  <1>2. Onward /\ Trees' /\ Queue' /\ Cards' /\ Counters'
    BY <1>1, StillQueue, StillCards, StillCounters
  <1>3. w \in Workers /\ TaskOf(World', w, task[t])
    BY <1>1, <1>2, TaskNext
  <1>4. Fit(World', w, l)
    BY <1>1, <1>3 DEF TaskOf, Holding, Fit
  <1>5. /\ TaskOf(World', w, Gone(task[t], "unretire", l))
        /\ TaskOf(World', w, Gone(task[t], "retire", l))
    BY <1>1, <1>3 DEF TaskOf, Gone, PCs, Ending, Holding
  <1> HIDE DEF l
  <1>6. Hands'
    BY <1>1, <1>2, <1>5, Went
  <1> HIDE DEF w
  <1> QED BY <1>1, <1>2, <1>3, <1>4, <1>6, Saved DEF Inv

LEMMA landed_unretiredStep == ASSUME Inv, NEW t \in Tasks, landed_unretired(t) PROVE Inv'
  <1> DEFINE w == t[1]
             l == task[t].land
             m == [l EXCEPT !.state = "landed"]
             d == [phase |-> "reported", land |-> m]
  <1>1. /\ task[t].pc = "unretire" /\ Stop(t)
        /\ disk' = disk \/ disk' = [disk EXCEPT ![w] = d]
        /\ UNCHANGED <<up, env, lock, jobs, ends, cards, log, seq, crashes, hist>>
    BY DEF landed_unretired, At, land
  <1>2. Onward /\ Trees' /\ Queue' /\ Cards' /\ Counters'
    BY <1>1, StillQueue, StillCards, StillCounters
  <1>3. w \in Workers /\ TaskOf(World', w, task[t])
    BY <1>1, <1>2, TaskNext
  <1>4. Whole(World', w, l) /\ Seen(World', w, l) /\ Clean(w, l)
    BY <1>1, <1>3 DEF TaskOf, Holding
  <1>5. Fit(World', w, m) /\ m \in LandState(w) /\ m # None
    <2>1. "landed" \in States /\ m = [l EXCEPT !.state = "landed"]
      BY DEF States
    <2> HIDE DEF l, w, m
    <2> QED BY <1>3, <1>4, <2>1, StateCopy, NoneAssumption DEF Fit, Whole
  <1> HIDE DEF l, m
  <1>6. RecordOf(World', w, d) /\ d \in [phase : Phases, land : LandState(w) \cup {None}]
    BY <1>5 DEF RecordOf, Phases
  <1> HIDE DEF d
  <1>7. Records'
    BY <1>1, <1>2, <1>3, <1>6, RecordsKept, RecordsWith DEF Inv
  <1> QED BY <1>1, <1>2, <1>7, Stopped DEF Inv

LEMMA RetireLandedStep == ASSUME Inv, NEW t \in Tasks, RetireLanded(t) PROVE Inv'
  <1> DEFINE w == t[1]
             l == task[t].land
             m == [l EXCEPT !.state = "landed"]
             h == [l EXCEPT !.state = "held"]
             d == [phase |-> "landed", land |-> disk[w].land]
  <1>1. /\ task[t].pc = "retire"
        /\ \/ /\ disk' = disk \/ disk' = [disk EXCEPT ![w].phase = "landed"]
              /\ Go(t, "saveEnd", m)
           \/ Save(w, h) /\ Stop(t)
        /\ UNCHANGED <<up, env, lock, jobs, ends, cards, log, seq, crashes, hist>>
    BY DEF RetireLanded, At, land
  <1>2. Onward /\ Trees' /\ Queue' /\ Cards' /\ Counters'
    BY <1>1, StillQueue, StillCards, StillCounters
  <1>3. /\ w \in Workers /\ TaskOf(World', w, task[t]) /\ RecordOf(World', w, disk[w])
        /\ disk[w] \in Record
    BY <1>1, <1>2, TaskNext, RecordNext DEF Inv, Records
  <1>4. Whole(World', w, l) /\ Seen(World', w, l) /\ Clean(w, l) /\ unlanded(l) = {}
    BY <1>1, <1>3 DEF TaskOf, Holding, Ending
  <1>5. CASE /\ disk' = disk \/ disk' = [disk EXCEPT ![w].phase = "landed"]
             /\ Go(t, "saveEnd", m)
    <2>1. RecordOf(World', w, d) /\ d \in [phase : Phases, land : LandState(w) \cup {None}]
      BY <1>3 DEF RecordOf, Phases
    <2>2. disk' = disk \/ disk' = [disk EXCEPT ![w] = d]
      <3>1. [disk[w] EXCEPT !.phase = "landed"] = d
        BY <1>3 DEF Record
      <3> HIDE DEF d
      <3> QED BY <1>5, <3>1
    <2>3. /\ Whole(World', w, m) /\ Seen(World', w, m) /\ Clean(w, m) /\ unlanded(m) = {}
          /\ m.state = "landed"
      <3>1. "landed" \in States /\ m = [l EXCEPT !.state = "landed"]
        BY DEF States
      <3> HIDE DEF l, w, m, h, d
      <3> QED BY <1>3, <1>4, <3>1, StateCopy
    <2> HIDE DEF d, m, h
    <2>4. TaskOf(World', w, Gone(task[t], "saveEnd", m))
      BY <1>3, <2>3 DEF TaskOf, Gone, PCs, Ending, Holding, Whole
    <2>5. Records'
      BY <1>2, <1>3, <2>1, <2>2, RecordsKept, RecordsWith DEF Inv
    <2> QED BY <1>2, <1>5, <2>4, <2>5, Went DEF Inv
  <1>6. CASE Save(w, h) /\ Stop(t)
    <2>1. Fit(World', w, h)
      <3>1. "held" \in States /\ h = [l EXCEPT !.state = "held"]
        BY DEF States
      <3> HIDE DEF l, w, m, h, d
      <3> QED BY <1>3, <1>4, <3>1, StateCopy DEF Fit
    <2> HIDE DEF h
    <2> QED BY <1>2, <1>3, <1>6, <2>1, Saved, Stopped DEF Inv
  <1> QED
    <2> HIDE DEF l, w, m, h, d
    <2> QED BY <1>1, <1>5, <1>6

LEMMA SaveEndStep == ASSUME Inv, NEW t \in Tasks, SaveEnd(t) PROVE Inv'
  <1> DEFINE w == t[1]
             l == task[t].land
  <1>1. /\ task[t].pc = "saveEnd" /\ Save(w, l) /\ Go(t, "after", l)
        /\ UNCHANGED <<up, env, lock, jobs, ends, cards, log, seq, crashes, hist>>
    BY DEF SaveEnd, At, land
  <1>2. Onward /\ Trees' /\ Queue' /\ Cards' /\ Counters'
    BY <1>1, StillQueue, StillCards, StillCounters
  <1>3. w \in Workers /\ TaskOf(World', w, task[t])
    BY <1>1, <1>2, TaskNext
  <1>4. Fit(World', w, l)
    BY <1>1, <1>3 DEF TaskOf, Holding, Fit
  <1>5. TaskOf(World', w, Gone(task[t], "after", l))
    BY <1>1, <1>3 DEF TaskOf, Gone, PCs, Ending, Holding
  <1> HIDE DEF l
  <1>6. Hands'
    BY <1>1, <1>2, <1>5, Went
  <1> HIDE DEF w
  <1> QED BY <1>1, <1>2, <1>3, <1>4, <1>6, Saved DEF Inv

\* A branch's new tips, each a worker's own commits on Base.
LEMMA TreesWithBranch ==
  ASSUME Inv, NEW w \in Workers, NEW B \in [Of[w] -> Commits],
         \A r \in Of[w] : Tip(World, w, r, B[r]),
         branch' = [branch EXCEPT ![w] = B], base' = base, hist' = hist
  PROVE  Trees'
  <1>1. World'.base = World.base
    BY DEF World
  <1>2. ASSUME NEW v \in Workers
        PROVE  branch'[v] \in [Of[v] -> Commits] /\ \A r \in Of[v] : Tip(World, v, r, branch'[v][r])
    <2>1. branch'[v] = IF v = w THEN B ELSE branch[v]
      BY DEF Inv, Trees
    <2>2. branch[v] \in [Of[v] -> Commits] /\ \A r \in Of[v] : Tip(World, v, r, branch[v][r])
      BY DEF Inv, Trees
    <2>3. CASE v = w
      BY <2>1, <2>3
    <2>4. CASE v # w
      BY <2>1, <2>2, <2>4
    <2> QED BY <2>3, <2>4
  <1>3. DOMAIN branch' = Workers
    BY DEF Inv, Trees
  <1> QED BY <1>1, <1>2, <1>3 DEF Inv, Trees, Tip, LandedIsReviewed, hist

LEMMA after_landStep == ASSUME Inv, NEW t \in Tasks, after_land(t) PROVE Inv'
  <1> DEFINE w == t[1]
             l == task[t].land
             B == [r \in Of[w] |-> IF branch[w][r] = l.repos[r].pinned THEN l.repos[r].tested
                                   ELSE branch[w][r]]
  <1>1. /\ task[t].pc = "after" /\ branch' = [branch EXCEPT ![w] = B] /\ Stop(t)
        /\ UNCHANGED <<up, base, disk, lock, jobs, ends, cards, log, seq, crashes, hist>>
    BY DEF after_land, At, land
  <1>2. w \in Workers /\ TaskOf(World, w, task[t])
    BY TaskWorker DEF Inv, Hands
  <1>3. Whole(World, w, l) /\ unlanded(l) = {}
    BY <1>1, <1>2 DEF TaskOf, Ending
  <1>4. ASSUME NEW r \in Of[w] PROVE B[r] \in Commits /\ Tip(World, w, r, B[r])
    <2>1. Entry(World, w, r, l.repos[r]) /\ l.repos[r].status = "landed"
      BY <1>3 DEF Whole, LandState, unlanded, landed
    <2>2. Tip(World, w, r, l.repos[r].tested)
      BY <2>1 DEF Entry, Claims, Merged, Tip, LandRepo
    <2>3. Tip(World, w, r, branch[w][r])
      BY <1>2 DEF Inv, Trees
    <2> QED BY <2>2, <2>3 DEF Tip
  <1>5. B \in [Of[w] -> Commits]
    BY <1>4
  <1> HIDE DEF B
  <1>6. Trees'
    BY <1>1, <1>2, <1>4, <1>5, TreesWithBranch
  <1>7. Onward
    BY <1>1 DEF Onward, Grows, World, hist
  <1>8. Queue' /\ Cards' /\ Counters'
    BY <1>1, StillCards, StillCounters DEF Inv, Queue, hist
  <1> QED BY <1>1, <1>6, <1>7, <1>8, RecordsKept, Stopped DEF Inv

-------------------------------------------------------------------------------
(* hiveLand, the card, and the others.                                      *)

LEMMA Bounds ==
  /\ MaxAttempts \in Nat /\ 0 < MaxAttempts /\ 0 \in 0..MaxAttempts
  /\ MaxLands \in Nat /\ MaxHuman \in Nat /\ MaxWork \in Nat /\ MaxCrashes \in Nat
  /\ 1 \in 1..MaxWork
  <1>1. MaxAttempts \in Nat \ {0}
    BY LandAssumption
  <1>2. MaxLands \in Nat /\ MaxHuman \in Nat /\ MaxWork \in Nat /\ MaxCrashes \in Nat
    BY LandAssumption
  <1>3. MaxWork >= 1
    BY LandAssumption
  <1> QED BY <1>1, <1>2, <1>3

\* What may be named is a tip.
LEMMA NameableTip ==
  ASSUME Inv, NEW w \in Workers, NEW r \in Of[w], NEW pin \in Nameable(w, r)
  PROVE  Tip(World, w, r, pin)
  <1> DEFINE l == disk[w].land
  <1>1. Tip(World, w, r, branch[w][r])
    BY DEF Inv, Trees
  <1>2. is_held(l) => Tip(World, w, r, l.repos[r].pinned)
    BY DEF Inv, Records, RecordOf, Fit, Whole, Entry, is_held
  <1> QED BY <1>1, <1>2 DEF Nameable

LEMMA NewEntry ==
  ASSUME NEW V, NEW w \in Workers, NEW r \in Of[w], NEW pin, Tip(V, w, r, pin),
         NEW f, f = NewRepo(pin)
  PROVE  Entry(V, w, r, f) /\ Sane(f) /\ f.status = "pending"
  <1>1. /\ f \in LandRepo /\ f.status = "pending" /\ f.pinned = pin /\ f.tested = None
        /\ f.config_approved = None /\ f.attempts = 0
    BY Bounds DEF NewRepo, LandRepo, Statuses, Catches, Tip
  <1>2. 0 < MaxAttempts
    BY Bounds
  <1> QED BY <1>1, <1>2 DEF Entry, Merged, Claims, Sane

LEMMA KeptEntry ==
  ASSUME NEW V, NEW w \in Workers, NEW r \in Of[w], NEW e, Entry(V, w, r, e),
         NEW f, f = KeptRepo(e)
  PROVE  Entry(V, w, r, f) /\ Sane(f) /\ f.status \in {"landed", "tested", "pending"}
  <1>1. e \in LandRepo /\ 0 \in 0..MaxAttempts /\ 0 < MaxAttempts
    BY Bounds DEF Entry
  <1>2. CASE e.status = "landed"
    <2>1. f = e
      BY <1>2 DEF KeptRepo
    <2> QED BY <1>2, <2>1 DEF Sane
  <1>3. CASE e.status # "landed"
    <2> DEFINE s == IF Reusable(e) THEN "tested" ELSE "pending"
    <2>1. f = [e EXCEPT !.attempts = 0, !.job = None, !.status = s]
      BY <1>3 DEF KeptRepo
    <2>2. s \in {"tested", "pending"}
      OBVIOUS
    <2>3. s = "tested" => e.tested # None /\ e.status \in {"tested", "held", "advancing"}
      BY DEF Reusable
    <2> HIDE DEF s
    <2>4. /\ f \in LandRepo /\ f.status = s /\ f.pinned = e.pinned /\ f.attempts = 0
          /\ f.tested = e.tested /\ f.base_before = e.base_before
          /\ f.fp = e.fp /\ f.config_approved = e.config_approved
      BY <1>1, <2>1, <2>2 DEF LandRepo, Statuses
    <2> QED BY <1>1, <2>2, <2>3, <2>4 DEF Entry, Merged, Claims, Proven, Stepped, Tip, Sane
  <1> QED BY <1>2, <1>3

\* A land hiveLand starts or resumes.
LEMMA StartedCopy ==
  ASSUME Inv, NEW w \in Workers, NEW pins, NEW order \in Orders,
         \A r \in Of[w] : pins[r] \in Nameable(w, r),
         Resumes(disk[w].land, pins) \/ seq < MaxLands,
         NEW m, m = start_state(w, pins, order)
  PROVE  Whole(World, w, m) /\ Plain(w, m) /\ Clean(w, m) /\ m.state = "locking"
  <1> DEFINE l    == disk[w].land
             res  == Resumes(l, pins)
             keep == IF res THEN {r \in Of[w] : l.repos[r].status = "landed" \/ l.repos[r].pinned = pins[r]}
                     ELSE {}
             same == res /\ keep = Of[w]
             F    == [r \in Of[w] |-> IF r \in keep THEN KeptRepo(l.repos[r]) ELSE NewRepo(pins[r])]
             i    == IF res THEN l.id ELSE seq + 1
             a    == same /\ l.approved
             q    == IF same THEN l.request ELSE None
  <1>1. res => Whole(World, w, l) /\ l \in LandState(w)
    BY DEF Inv, Records, RecordOf, Fit, Whole, Resumes, is_held
  <1>2. i \in 1..MaxLands
    BY <1>1, Bounds DEF Inv, Counters, LandState
  <1>3. a \in BOOLEAN /\ q \in CardIds \cup {None}
    BY <1>1 DEF LandState
  <1>4. ASSUME NEW r \in Of[w]
        PROVE  Entry(World, w, r, F[r]) /\ Sane(F[r]) /\ F[r].status \in {"landed", "tested", "pending"}
    <2>1. CASE r \in keep
      <3>1. Entry(World, w, r, l.repos[r]) /\ F[r] = KeptRepo(l.repos[r])
        BY <1>1, <2>1 DEF Whole
      <3> HIDE DEF F, keep, res, l
      <3> QED BY <3>1, KeptEntry
    <2>2. CASE r \notin keep
      <3>1. F[r] = NewRepo(pins[r])
        BY <2>2
      <3>2. Tip(World, w, r, pins[r])
        BY NameableTip
      <3> HIDE DEF F, keep, res, l
      <3> QED BY <3>1, <3>2, NewEntry
    <2> QED BY <2>1, <2>2
  <1>5. F = [r \in Of[w] |-> F[r]]
    OBVIOUS
  <1>6. m = [id |-> i, state |-> "locking", repos |-> F, order |-> order, approved |-> a, request |-> q]
    BY DEF start_state
  <1> HIDE DEF F, a, q, i, same, keep, res, l
  <1>7. F \in [Of[w] -> LandRepo]
    BY <1>4, <1>5 DEF Entry
  <1>8. m \in LandState(w) /\ m.repos = F /\ m.state = "locking"
    BY <1>2, <1>3, <1>6, <1>7 DEF LandState, States
  <1> QED BY <1>4, <1>8 DEF Whole, Plain, Clean

LEMMA CallStep == ASSUME Inv, NEW w \in Workers, NEW c \in Callers, Call(w, c) PROVE Inv'
  <1> DEFINE t == <<w, c>>
  <1>1. t \in Tasks /\ t[1] = w
    BY DEF Tasks, Slots
  <1>2. task[t].pc = "idle" /\ UNCHANGED <<up, env, disk, lock, jobs, ends, cards, log, crashes, hist>>
    BY DEF Call, At
  <1>3. PICK pins \in [Of[w] -> UNION {Nameable(w, r) : r \in Of[w]}], order \in Orders :
          /\ \A r \in Of[w] : pins[r] \in Nameable(w, r)
          /\ Resumes(disk[w].land, pins) \/ seq < MaxLands
          /\ seq' = IF Resumes(disk[w].land, pins) THEN seq ELSE seq + 1
          /\ Go(t, "called", start_state(w, pins, order))
    BY DEF Call
  <1>4. PICK m : m = start_state(w, pins, order)
    OBVIOUS
  <1>5. Whole(World, w, m) /\ Plain(w, m) /\ Clean(w, m) /\ m.state = "locking"
    BY <1>3, <1>4, StartedCopy
  <1>6. Onward /\ Trees' /\ Queue' /\ Cards'
    BY <1>2, StillQueue, StillCards
  <1>7. Counters'
    BY <1>2, <1>3, Bounds DEF Inv, Counters
  <1>8. World' = World
    BY <1>2 DEF World, env, hist
  <1>9. TaskOf(World', w, task[t])
    BY <1>1, <1>6, TaskNext
  <1>10. TaskOf(World', w, Gone(task[t], "called", m))
    BY <1>5, <1>8, <1>9 DEF TaskOf, Gone, PCs, Ending, Holding, Whole
  <1>11. Go(t, "called", m)
    BY <1>3, <1>4
  <1> HIDE DEF t
  <1> QED BY <1>1, <1>2, <1>6, <1>7, <1>10, <1>11, Went, RecordsKept DEF Inv

\* A copy with the catch of what step 1 did not settle computed first.
LEMMA CatchCopy ==
  ASSUME Inv, NEW V, NEW w \in Workers, NEW l, Whole(V, w, l), Seen(V, w, l), Clean(w, l),
         Plain(w, l), NEW m, m = CatchFirst(l)
  PROVE  Whole(V, w, m) /\ Seen(V, w, m) /\ Clean(w, m) /\ m.state = l.state /\ m.id = l.id
  <1> DEFINE G(r) == LET e == l.repos[r] IN
               CASE e.status = "landed" -> e
                 [] e.status = "tested" /\ e.tested # None /\ e.base_before # None
                      -> [e EXCEPT !.fp = caught(e.base_before, e.tested)]
                 [] OTHER -> [e EXCEPT !.fp = caught(base[r] \cap e.pinned, e.pinned)]
             F == [r \in Of[w] |-> G(r)]
  <1>1. l \in LandState(w) /\ DOMAIN l.repos = Of[w]
    BY DEF Whole, LandState
  <1>2. ASSUME NEW r \in Of[w]
        PROVE /\ Entry(V, w, r, F[r]) /\ F[r].pinned = l.repos[r].pinned
              /\ Sane(F[r])
    <2> DEFINE e == l.repos[r]
    <2>1. Entry(V, w, r, e) /\ e \in LandRepo /\ Sane(e)
          /\ e.status \in {"landed", "tested", "pending"}
      BY DEF Whole, Entry, Clean, Plain
    <2>2. CASE e.status = "landed"
      <3>1. F[r] = e
        BY <2>2
      <3> HIDE DEF F, e
      <3> QED BY <2>1, <3>1 DEF e
    <2>3. CASE e.status = "tested"
      <3>1. e.tested # None /\ e.base_before # None /\ e.fp = caught(e.base_before, e.tested)
        BY <2>1, <2>3 DEF Entry, Claims, Merged, Stepped
      <3>2. F[r] = [e EXCEPT !.fp = caught(e.base_before, e.tested)]
        BY <2>3, <3>1
      <3> HIDE DEF F, e
      <3>3. F[r] = e
        BY <2>1, <3>1, <3>2 DEF LandRepo
      <3> QED BY <2>1, <3>3 DEF e
    <2>4. CASE e.status = "pending"
      <3>1. PICK c \in Catches : c = caught(base[r] \cap e.pinned, e.pinned)
        BY CaughtIn
      <3>2. F[r] = [e EXCEPT !.fp = c]
        BY <2>4, <3>1
      <3> HIDE DEF F
      <3>3. PICK f : f = F[r]
        OBVIOUS
      <3>4. /\ f \in LandRepo /\ f.status = "pending" /\ f.pinned = e.pinned
            /\ f.attempts = e.attempts /\ f.tested = e.tested /\ f.base_before = e.base_before
            /\ f.config_approved = e.config_approved
        BY <2>1, <2>4, <3>2, <3>3 DEF LandRepo
      <3>5. Entry(V, w, r, f) /\ Sane(f)
        BY <2>1, <2>4, <3>4 DEF Entry, Merged, Claims, Tip, Sane
      <3> QED BY <3>3, <3>4, <3>5
    <2> HIDE DEF F
    <2> QED BY <2>1, <2>2, <2>3, <2>4
  <1>3. m = [l EXCEPT !.repos = F]
    BY <1>1 DEF CatchFirst
  <1>4. F = [r \in Of[w] |-> F[r]]
    OBVIOUS
  <1> HIDE DEF F, G
  <1>5. Whole(V, w, m) /\ m.repos = F /\ m.state = l.state /\ m.id = l.id
    BY <1>2, <1>3, <1>4, WithRepos
  <1> QED BY <1>2, <1>5 DEF Seen, Clean

\* A copy waiting on a card.
LEMMA WithRequest ==
  ASSUME NEW V, NEW w \in Workers, NEW l, Whole(V, w, l), Seen(V, w, l), Clean(w, l),
         NEW c \in CardIds, NEW m, m = [l EXCEPT !.request = c]
  PROVE  Whole(V, w, m) /\ Seen(V, w, m) /\ Clean(w, m) /\ m.state = l.state
  <1>1. m \in LandState(w) /\ m.repos = l.repos /\ m.state = l.state
    BY DEF Whole, LandState
  <1> QED BY <1>1 DEF Whole, Seen, Clean

\* The card of a land is a card.
LEMMA CardIs ==
  ASSUME NEW V, NEW w \in Workers, NEW l, Whole(V, w, l), NEW c PROVE CardOf(Card(c, w, l))
  <1>1. unlanded(l) \subseteq Of[w]
    BY DEF Whole, LandState, unlanded
  <1>2. \A r \in unlanded(l) : l.repos[r].fp \in Catches
    BY <1>1 DEF Whole, Entry, LandRepo
  <1>3. Card(c, w, l).worker = w /\ Card(c, w, l).fps = [r \in unlanded(l) |-> l.repos[r].fp]
    BY DEF Card
  <1> QED BY <1>1, <1>2, <1>3 DEF CardOf

LEMMA AskStep == ASSUME Inv, NEW t \in Tasks, Ask(t) PROVE Inv'
  <1> DEFINE w == t[1]
             l == task[t].land
             c == CHOOSE c \in FreshCards : TRUE
             g == IF l.state = "advancing" THEN Cleaned(l) ELSE CatchFirst(Cleaned(l))
             m == [g EXCEPT !.state = "awaiting_human"]
             k == [m EXCEPT !.request = c]
  <1>1. /\ task[t].pc = "ask" /\ FreshCards # {} /\ cleanup(w, l)
        /\ \/ cards' = cards \cup {Card(c, w, m)} /\ Go(t, "asked", k)
           \/ Fail(t, m) /\ cards' = cards
        /\ UNCHANGED <<up, env, disk, log, seq, crashes, hist>>
    <2>1. cleanup(w, l) /\ UNCHANGED <<up, env, disk, log, seq, crashes, hist>>
          /\ task[t].pc = "ask" /\ FreshCards # {}
      BY DEF Ask, land, At
    <2>2. \/ cards' = cards \cup {Card(c, w, m)} /\ Go(t, "asked", k)
          \/ Fail(t, m) /\ cards' = cards
      BY DEF Ask, land
    <2> QED BY <2>1, <2>2
  <1>2. w \in Workers /\ c \in CardIds
    <2>1. c \in FreshCards
      BY <1>1
    <2> QED BY <2>1, TaskWorker DEF FreshCards
  <1>3. Onward /\ Trees' /\ Queue' /\ Counters'
    BY <1>1, <1>2, CleanupKeeps
  <1>4. TaskOf(World', w, task[t])
    BY <1>3, TaskNext
  <1>5. /\ Whole(World', w, l) /\ Seen(World', w, l) /\ Clean(w, l)
        /\ l.state # "advancing" => Plain(w, l)
    BY <1>1, <1>4 DEF TaskOf, Holding
  <1>6. Whole(World', w, g) /\ Seen(World', w, g) /\ Clean(w, g)
    <2>1. PICK a : a = Cleaned(l)
      OBVIOUS
    <2>2. /\ Whole(World', w, a) /\ Seen(World', w, a) /\ Clean(w, a)
          /\ l.state # "advancing" => Plain(w, a)
      <3>1. \A q \in World'.queued : q.id # None
        BY <1>3, QueuedNamedNext
      <3> HIDE DEF k, m, g, c, l, w
      <3> QED BY <1>2, <1>5, <2>1, <3>1, CleanedCopy
    <2>3. g = IF l.state = "advancing" THEN a ELSE CatchFirst(a)
      BY <2>1
    <2> HIDE DEF k, m, g, c, l, w
    <2>4. CASE l.state = "advancing"
      BY <2>2, <2>3, <2>4
    <2>5. CASE l.state # "advancing"
      BY <1>2, <2>2, <2>3, <2>5, CatchCopy
    <2> QED BY <2>4, <2>5
  <1>7. Whole(World', w, m) /\ Seen(World', w, m) /\ Clean(w, m) /\ m.state = "awaiting_human"
    <2>1. "awaiting_human" \in States /\ m = [g EXCEPT !.state = "awaiting_human"]
      BY DEF States
    <2> HIDE DEF k, m, g, c, l, w
    <2> QED BY <1>2, <1>6, <2>1, StateCopy
  <1>8. Whole(World', w, k) /\ Seen(World', w, k) /\ Clean(w, k) /\ k.state = "awaiting_human"
    <2>1. k = [m EXCEPT !.request = c]
      OBVIOUS
    <2> HIDE DEF k, m, g, c, l, w
    <2> QED BY <1>2, <1>7, <2>1, WithRequest
  <1>9. TaskOf(World', w, Gone(task[t], "asked", k))
    <2> HIDE DEF k, m, g, c, l
    <2> QED BY <1>2, <1>4, <1>8 DEF TaskOf, Gone, PCs, Ending, Holding, Whole
  <1>10. Records'
    BY <1>1, <1>3, RecordsKept DEF Inv
  <1>11. CardOf(Card(c, w, m))
    BY <1>2, <1>7, CardIs
  <1> HIDE DEF k, m, g, c, l
  <1>12. Cards'
    BY <1>1, <1>11 DEF Inv, Cards
  <1>13. Hands'
    BY <1>1, <1>3, <1>7, <1>9, Went, Failed
  <1> QED BY <1>3, <1>10, <1>12, <1>13 DEF Inv

LEMMA SaveAskStep == ASSUME Inv, NEW t \in Tasks, SaveAsk(t) PROVE Inv'
  <1> DEFINE w == t[1]
             l == task[t].land
  <1>1. /\ task[t].pc = "asked" /\ Save(w, l)
        /\ Stop(t) \/ Fail(t, l)
        /\ cards' \subseteq cards
        /\ UNCHANGED <<up, env, lock, jobs, ends, log, seq, crashes, hist>>
    BY DEF SaveAsk, At, land
  <1>2. Onward /\ Trees' /\ Queue' /\ Counters'
    BY <1>1, StillQueue, StillCounters
  <1>3. w \in Workers /\ TaskOf(World', w, task[t])
    BY <1>1, <1>2, TaskNext
  <1>4. Whole(World', w, l) /\ Seen(World', w, l) /\ Clean(w, l) /\ Fit(World', w, l)
    BY <1>1, <1>3 DEF TaskOf, Holding, Fit
  <1>5. Cards'
    BY <1>1 DEF Inv, Cards
  <1>6. Hands'
    BY <1>1, <1>2, <1>4, Stopped, Failed
  <1> HIDE DEF l, w
  <1> QED BY <1>1, <1>2, <1>3, <1>4, <1>5, <1>6, Saved DEF Inv

\* The entry as it was, or with the catch the human approved.
LEMMA ApprovedEntry ==
  ASSUME NEW V, NEW w \in Workers, NEW r \in Of[w], NEW e, Entry(V, w, r, e), NEW c \in Catches,
         <<w, r, c>> \in V.approved, NEW f, f = [e EXCEPT !.config_approved = c]
  PROVE  /\ Entry(V, w, r, f) /\ f.pinned = e.pinned
         /\ Sane(e) => Sane(f)
  <1>1. e \in LandRepo
    BY DEF Entry
  <1>2. /\ f \in LandRepo /\ f.status = e.status /\ f.pinned = e.pinned
        /\ f.attempts = e.attempts /\ f.tested = e.tested /\ f.base_before = e.base_before
        /\ f.fp = e.fp /\ f.config_approved = c /\ f.job = e.job
    BY <1>1 DEF LandRepo
  <1>3. Entry(V, w, r, f)
    BY <1>2 DEF Entry, Merged, Claims, Proven, Stepped, Asked, Tip
  <1> QED BY <1>2, <1>3 DEF Sane

\* The repositories of l with what card d's approval covers.
Agreed(d, w, l) ==
    [r \in Of[w] |-> IF r \in DOMAIN d.fps /\ d.fps[r] # <<>>
                     THEN [l.repos[r] EXCEPT !.config_approved = d.fps[r]]
                     ELSE l.repos[r]]

GoesOn(l, F) == [l EXCEPT !.state = "locking", !.approved = TRUE, !.repos = F]

\* The land a card's approval sets going again.
LEMMA ApprovedCopy ==
  ASSUME NEW V, NEW w \in Workers, NEW l, Whole(V, w, l), Seen(V, w, l), Clean(w, l),
         NEW d, d.worker = w, CardOf(d),
         \A r \in DOMAIN d.fps : <<w, r, d.fps[r]>> \in V.approved,
         NEW F, F = Agreed(d, w, l),
         NEW m, m = GoesOn(l, F)
  PROVE  Whole(V, w, m) /\ Seen(V, w, m) /\ Clean(w, m) /\ m.state = "locking"
  <1>1. ASSUME NEW r \in Of[w]
        PROVE  /\ Entry(V, w, r, F[r]) /\ F[r].pinned = l.repos[r].pinned /\ Sane(F[r])
    <2>1. Entry(V, w, r, l.repos[r]) /\ Sane(l.repos[r])
      BY DEF Whole, Clean
    <2>2. CASE r \in DOMAIN d.fps /\ d.fps[r] # <<>>
      <3>1. F[r] = [l.repos[r] EXCEPT !.config_approved = d.fps[r]]
        BY <2>2 DEF Agreed
      <3>2. d.fps[r] \in Catches /\ <<w, r, d.fps[r]>> \in V.approved
        BY <2>2 DEF CardOf
      <3> QED BY <2>1, <3>1, <3>2, ApprovedEntry
    <2>3. CASE ~(r \in DOMAIN d.fps /\ d.fps[r] # <<>>)
      <3>1. F[r] = l.repos[r]
        BY <2>3 DEF Agreed
      <3> QED BY <2>1, <3>1
    <2> QED BY <2>2, <2>3
  <1>2. F \in [Of[w] -> LandRepo] /\ l \in LandState(w)
    BY <1>1 DEF Entry, Whole, Agreed
  <1>3. m \in LandState(w) /\ m.repos = F /\ m.state = "locking"
    <2>1. m = [id |-> l.id, state |-> "locking", repos |-> F, order |-> l.order,
               approved |-> TRUE, request |-> l.request]
      BY <1>2 DEF LandState, GoesOn
    <2> QED BY <1>2, <2>1 DEF LandState, States
  <1> QED BY <1>1, <1>3 DEF Whole, Seen, Clean

\* A record that waits, held or awaiting its card, read as of this step.
LEMMA Waiting ==
  ASSUME Inv, NEW w \in Workers, awaits_human(disk[w].land)
  PROVE  LET l == disk[w].land IN
           Whole(World, w, l) /\ Seen(World, w, l) /\ Clean(w, l) /\ l.state = "awaiting_human"
  BY DEF Inv, Records, RecordOf, Fit, awaits_human

LEMMA ApproveStep == ASSUME Inv, NEW d \in cards, Approve(d) PROVE Inv'
  <1> DEFINE w == d.worker
             t == <<w, "card">>
             l == disk[w].land
             F == Agreed(d, w, l)
             m == GoesOn(l, F)
             x == [phase |-> "landing", land |-> m]
  <1>1. CardOf(d) /\ w \in Workers /\ t \in Tasks /\ t[1] = w
    BY DEF Inv, Cards, CardOf, Tasks, Slots
  <1>2. /\ cards' = cards \ {d} /\ task[t].pc = "idle"
        /\ UNCHANGED <<up, env, lock, jobs, ends, log, seq, crashes, passed, reviewed>>
    BY DEF Approve, Answerable
  <1>3. Cards' /\ Counters'
    BY <1>2 DEF Inv, Cards, Counters
  <1>4. CASE ~Fits(d)
    <2>1. UNCHANGED <<disk, approved, task>>
      BY <1>4 DEF Approve
    <2>2. Onward /\ Trees' /\ Queue'
      BY <1>2, <2>1, StillQueue DEF hist
    <2> QED BY <1>3, <2>1, <2>2, RecordsKept, HandsKept DEF Inv
  <1>5. CASE Fits(d)
    <2>1. /\ disk[w].phase = "landing" /\ l # None /\ awaits_human(l)
          /\ Whole(World, w, l) /\ Seen(World, w, l) /\ Clean(w, l) /\ l \in LandState(w)
      BY <1>1, <1>5, Waiting DEF Fits, Whole
    <2>2. /\ disk' = [disk EXCEPT ![w].land = m]
          /\ approved' = approved \cup {<<w, r, d.fps[r]>> : r \in DOMAIN d.fps}
          /\ Go(t, "drive", m)
      <3>1. DOMAIN l.repos = Of[w]
        BY <2>1 DEF LandState
      <3> QED BY <1>5, <3>1 DEF Approve, Agreed, GoesOn
    <2>3. Onward
      BY <1>2, <2>2 DEF Onward, Grows, World, env
    <2>4. Trees'
      <3>1. World'.base = World.base
        BY <1>2 DEF World, env
      <3> QED BY <1>2, <3>1 DEF Inv, Trees, Tip, LandedIsReviewed, env
    <2>5. Queue'
      BY <1>2 DEF Inv, Queue
    <2>6. RecordOf(World', w, disk[w])
      BY <1>1, <2>3, RecordNext
    <2>7. Whole(World', w, l) /\ Seen(World', w, l)
      BY <2>1, <2>6 DEF RecordOf, Fit
    <2>8. \A r \in DOMAIN d.fps : <<w, r, d.fps[r]>> \in World'.approved
      BY <2>2 DEF World
    <2>9. Whole(World', w, m) /\ Seen(World', w, m) /\ Clean(w, m) /\ m.state = "locking"
      <3>1. /\ F = Agreed(d, w, l)
            /\ m = GoesOn(l, F)
            /\ d.worker = w
        OBVIOUS
      <3> HIDE DEF x, m, F, l, t, w
      <3> QED BY <1>1, <2>1, <2>7, <2>8, <3>1, ApprovedCopy
    <2> HIDE DEF m, F
    <2>10. Fit(World', w, m)
      BY <2>9 DEF Fit
    <2>11. x \in [phase : Phases, land : LandState(w) \cup {None}] /\ RecordOf(World', w, x)
      BY <2>9, <2>10, NoneAssumption, <1>1 DEF RecordOf, Phases, Whole
    <2>12. disk' = [disk EXCEPT ![w] = x]
      <3>1. disk[w] \in Record /\ disk[w].phase = "landing"
        BY <1>1, <2>1 DEF Inv, Records
      <3>2. [disk[w] EXCEPT !.land = m] = x
        BY <3>1 DEF Record
      <3> HIDE DEF x
      <3> QED BY <2>2, <3>2
    <2>13. TaskOf(World', w, task[t])
      BY <1>1, <2>3, TaskNext
    <2>14. TaskOf(World', w, Gone(task[t], "drive", m))
      BY <1>1, <2>9, <2>13 DEF TaskOf, Gone, PCs, Ending, Holding, Whole
    <2> HIDE DEF x, t
    <2>15. Hands'
      BY <1>1, <2>2, <2>3, <2>14, Went
    <2> HIDE DEF w
    <2> QED BY <1>1, <1>3, <2>3, <2>4, <2>5, <2>11, <2>12, <2>15, RecordsWith DEF Inv
  <1> QED BY <1>4, <1>5

LEMMA DenyStep == ASSUME Inv, NEW d \in cards, Deny(d) PROVE Inv'
  <1> DEFINE w == d.worker
             t == <<w, "card">>
             l == disk[w].land
  <1>1. w \in Workers /\ t \in Tasks /\ t[1] = w
    BY DEF Inv, Cards, CardOf, Tasks, Slots
  <1>2. /\ cards' = cards \ {d}
        /\ UNCHANGED <<up, env, disk, lock, jobs, ends, log, seq, crashes, hist>>
        /\ \/ Fits(d) /\ Fail(t, l)
           \/ task' = task
    BY DEF Deny
  <1>3. Onward /\ Trees' /\ Queue' /\ Counters'
    BY <1>2, StillQueue, StillCounters
  <1>4. Cards' /\ Records'
    BY <1>2, <1>3, RecordsKept DEF Inv, Cards
  <1>5. CASE Fits(d) /\ Fail(t, l)
    <2>1. l # None /\ awaits_human(l) /\ Clean(w, l)
      BY <1>1, <1>5, Waiting DEF Fits
    <2>2. Whole(World', w, l) /\ Seen(World', w, l)
      BY <1>1, <1>3, <2>1, RecordNext DEF RecordOf, Fit
    <2> HIDE DEF l, t
    <2>3. Hands'
      BY <1>1, <1>3, <1>5, <2>1, <2>2, Failed
    <2> QED BY <1>3, <1>4, <2>3 DEF Inv
  <1>6. CASE task' = task
    BY <1>3, <1>4, <1>6, HandsKept DEF Inv
  <1> QED BY <1>2, <1>5, <1>6

LEMMA HumanCommitStep == ASSUME Inv, NEW r \in Repos, HumanCommit(r) PROVE Inv'
  <1>1. PICK n \in 1..MaxHuman : base' = [base EXCEPT ![r] = @ \cup {<<Human, n>>}]
    BY DEF HumanCommit
  <1>2. UNCHANGED <<up, branch, disk, task, lock, jobs, ends, cards, log, seq, crashes, hist>>
    BY DEF HumanCommit
  <1>3. base \in [Repos -> Commits] /\ <<Human, n>> \in Changes
    BY DEF Inv, Trees, Changes
  <1>4. ASSUME NEW q \in Repos PROVE base'[q] = base[q] \/ base'[q] = base[q] \cup {<<Human, n>>}
    BY <1>1, <1>3
  <1>5. base' \in [Repos -> Commits] /\ \A q \in Repos : base[q] \subseteq base'[q]
    <2>1. DOMAIN base' = Repos /\ base' = [q \in Repos |-> base'[q]]
      BY <1>1, <1>3
    <2>2. \A q \in Repos : base'[q] \in Commits
      BY <1>3, <1>4 DEF Commits
    <2> QED BY <1>4, <2>1, <2>2
  <1>6. LandedIsReviewed'
    <2>1. ASSUME NEW w \in Workers, NEW q \in Of[w]
          PROVE  base'[q] \cap Work(w) = base[q] \cap Work(w)
      <3>1. <<Human, n>> \notin Work(w) /\ q \in Repos
        BY LandAssumption, OfRepos DEF Work
      <3> QED BY <1>4, <3>1
    <2> QED BY <1>2, <2>1 DEF Inv, Trees, LandedIsReviewed, hist
  <1>7. Trees'
    BY <1>2, <1>5, <1>6, TreesGrow DEF hist
  <1>8. Onward
    BY <1>2, <1>5 DEF Onward, Grows, World, hist
  <1>9. Queue' /\ Cards' /\ Counters'
    BY <1>2, StillCards, StillCounters DEF Inv, Queue, hist
  <1> QED BY <1>2, <1>7, <1>8, <1>9, RecordsKept, HandsKept DEF Inv

\* One commit more on a branch that has the one before it, merged with Base or not.
LEMMA OwnNext ==
  ASSUME Trees, NEW w \in Workers, NEW r \in Of[w], NEW S, Own(w, S), NEW from \in {{}, base[r]},
         NEW n \in 2..MaxWork, <<w, n>> \notin S, <<w, n - 1>> \in S
  PROVE  Own(w, S \cup from \cup {<<w, n>>})
  <1>1. Own(w, from \cup S)
    <2>1. CASE from = base[r]
      BY <2>1, OwnBase
    <2>2. CASE from = {}
      <3>1. from \cup S = S
        BY <2>2
      <3> QED BY <3>1
    <2> QED BY <2>1, <2>2
  <1>2. PICK k \in 1..MaxWork : (from \cup S) \cap Work(w) = Upto(w, k)
    BY <1>1 DEF Own
  <1>3. MaxWork \in Nat /\ n \in 1..MaxWork /\ n - 1 \in 1..MaxWork
    BY Bounds
  <1>4. <<w, n - 1>> \in Work(w) /\ <<w, n>> \in Work(w)
    BY <1>3 DEF Work, Changes
  <1>5. n - 1 <= k
    <2>1. <<w, n - 1>> \in Upto(w, k)
      BY <1>2, <1>4
    <2> QED BY <2>1 DEF Upto
  <1> DEFINE T == S \cup from \cup {<<w, n>>}
  <1>6. T \cap Work(w) = Upto(w, k) \cup {<<w, n>>}
    BY <1>2, <1>4
  <1> HIDE DEF T
  <1>7. CASE n <= k
    <2>1. Upto(w, k) \cup {<<w, n>>} = Upto(w, k)
      BY <1>3, <1>7 DEF Upto
    <2> QED BY <1>6, <2>1 DEF Own, T
  <1>8. CASE n = k + 1
    <2>1. Upto(w, k) \cup {<<w, n>>} = Upto(w, n)
      BY <1>3, <1>8 DEF Upto
    <2> QED BY <1>3, <1>6, <2>1 DEF Own, T
  <1> QED BY <1>3, <1>5, <1>7, <1>8

LEMMA WorkerCommitStep ==
  ASSUME Inv, NEW w \in Workers, NEW r \in Repos, WorkerCommit(w, r) PROVE Inv'
  <1>1. r \in Of[w]
    BY DEF WorkerCommit
  <1>2. PICK n \in 2..MaxWork, from \in {{}, base[r]} :
          /\ <<w, n>> \notin branch[w][r] /\ <<w, n - 1>> \in branch[w][r]
          /\ branch' = [branch EXCEPT ![w][r] = @ \cup from \cup {<<w, n>>}]
    BY DEF WorkerCommit
  <1>3. UNCHANGED <<up, base, disk, task, lock, jobs, ends, cards, log, seq, crashes, hist>>
    BY DEF WorkerCommit
  <1> DEFINE S == branch[w][r]
             T == S \cup from \cup {<<w, n>>}
             B == [branch[w] EXCEPT ![r] = T]
  <1>4. /\ branch[w] \in [Of[w] -> Commits] /\ \A q \in Of[w] : Tip(World, w, q, branch[w][q])
        /\ base[r] \in Commits /\ DOMAIN branch = Workers
    BY DEF Inv, Trees
  <1>5. Tip(World, w, r, T) /\ T \in Commits
    <2>1. Own(w, T)
      BY <1>1, <1>2, <1>4, OwnNext DEF Inv, Tip
    <2>2. <<w, n>> \in Changes /\ <<w, n>> \in Work(w)
      BY Bounds DEF Changes, Work
    <2>3. T \in Commits
      BY <1>1, <1>4, <2>2 DEF Commits
    <2>4. S \ Work(w) \subseteq base[r]
      BY <1>1, <1>4 DEF Tip, World
    <2>5. T \ Work(w) \subseteq base[r]
      BY <2>2, <2>4
    <2>6. World.base = base
      BY DEF World
    <2> QED BY <2>1, <2>3, <2>5, <2>6 DEF Tip
  <1>6. branch' = [branch EXCEPT ![w] = B]
    BY <1>1, <1>2, <1>4
  <1> HIDE DEF T
  <1>7. B \in [Of[w] -> Commits] /\ \A q \in Of[w] : Tip(World, w, q, B[q])
    BY <1>1, <1>4, <1>5
  <1> HIDE DEF B
  <1>8. Trees'
    BY <1>3, <1>6, <1>7, TreesWithBranch
  <1>9. Onward
    BY <1>3 DEF Onward, Grows, World, hist
  <1>10. Queue' /\ Cards' /\ Counters'
    BY <1>3, StillCards, StillCounters DEF Inv, Queue, hist
  <1> QED BY <1>3, <1>8, <1>9, <1>10, RecordsKept, HandsKept DEF Inv

LEMMA WithdrawStep ==
  ASSUME Inv, NEW w \in Workers, NEW p \in {"reported", "retired"}, Withdraw(w, p) PROVE Inv'
  <1> DEFINE l == disk[w].land
             m == hold_if_partial(l)
             d == [phase |-> p, land |-> m]
  <1>1. /\ disk' = [disk EXCEPT ![w] = d] /\ cards' \subseteq cards
        /\ UNCHANGED <<up, env, task, lock, jobs, ends, log, seq, crashes, hist>>
    BY DEF Withdraw
  <1>2. Onward /\ Trees' /\ Queue' /\ Counters' /\ Cards'
    BY <1>1, StillQueue, StillCounters DEF Inv, Cards
  <1>3. RecordOf(World', w, disk[w])
    BY <1>2, RecordNext
  <1>4. m \in LandState(w) \cup {None} /\ (m # None => Fit(World', w, m))
    <2>1. CASE m = l
      BY <1>3, <2>1 DEF RecordOf
    <2>2. CASE m # l
      <3>1. awaits_human(l) /\ m = [l EXCEPT !.state = "held"]
        BY <2>2 DEF hold_if_partial
      <3>2. Whole(World', w, l) /\ Seen(World', w, l)
        BY <1>3, <3>1 DEF RecordOf, Fit, awaits_human
      <3>3. "held" \in States
        BY DEF States
      <3> HIDE DEF d, m, l
      <3> QED BY <3>1, <3>2, <3>3, StateCopy DEF Fit, Whole
    <2> QED BY <2>1, <2>2
  <1> HIDE DEF m
  <1>5. d \in [phase : Phases, land : LandState(w) \cup {None}] /\ RecordOf(World', w, d)
    BY <1>4 DEF RecordOf, Phases
  <1> HIDE DEF d
  <1>6. Records'
    BY <1>1, <1>2, <1>5, RecordsWith DEF Inv
  <1> QED BY <1>1, <1>2, <1>6, HandsKept DEF Inv

LEMMA CrashStep == ASSUME Inv, Crash PROVE Inv'
  <1>1. /\ up' = FALSE /\ crashes' = crashes + 1 /\ crashes < MaxCrashes
        /\ task' = [t \in Tasks |-> Idle]
        /\ lock' = [r \in Repos |-> None]
        /\ jobs' = {} /\ ends' = {} /\ cards' = {}
        /\ UNCHANGED <<env, disk, log, seq, hist>>
    BY DEF Crash
  <1>2. World'.queued = {}
    BY <1>1 DEF World
  <1>3. Onward /\ Trees'
    BY <1>1, <1>2, Still
  <1>4. Counters'
    <2>1. crashes' \in 0..MaxCrashes
      BY <1>1, Bounds DEF Inv, Counters
    <2>2. lock' \in [Repos -> (1..MaxLands) \cup {None}] /\ up' \in BOOLEAN
      BY <1>1
    <2> QED BY <1>1, <2>1, <2>2 DEF Inv, Counters
  <1>5. Queue' /\ Cards'
    BY <1>1 DEF Queue, Cards
  <1>6. Records'
    BY <1>1, <1>3, RecordsKept DEF Inv
  <1>7. Hands'
    <2>1. Idle \in Task
      BY DEF Idle, Task, PCs, AnyLand
    <2>2. \A t \in Tasks : TaskOf(World', t[1], Idle)
      BY IdleIs, TaskWorker
    <2> QED BY <1>1, <2>1, <2>2 DEF Hands
  <1> QED BY <1>3, <1>4, <1>5, <1>6, <1>7 DEF Inv

\* An interrupted land, read from Base and held.
LEMMA ReconciledCopy ==
  ASSUME Inv, NEW w \in Workers, NEW l, Whole(World, w, l), Seen(World, w, l), Clean(w, l),
         NEW m, m = reconcile(l)
  PROVE  Whole(World, w, m) /\ Seen(World, w, m) /\ m.state = "held"
  <1> DEFINE G(r) == LET e == l.repos[r] IN
               CASE e.status = "advancing" ->
                      [e EXCEPT !.status = IF InBase(e, r) THEN "landed" ELSE "tested"]
                 [] e.status = "checking" -> [e EXCEPT !.status = "pending", !.job = None]
                 [] OTHER -> e
             F == [r \in Of[w] |-> G(r)]
  <1>1. l \in LandState(w) /\ DOMAIN l.repos = Of[w]
    BY DEF Whole, LandState
  <1>2. ASSUME NEW r \in Of[w] PROVE Entry(World, w, r, F[r]) /\ F[r].pinned = l.repos[r].pinned
    <2> DEFINE e == l.repos[r]
    <2>1. Entry(World, w, r, e) /\ e \in LandRepo /\ Sane(e)
      BY DEF Whole, Entry, Clean
    <2>2. CASE e.status = "advancing"
      <3> DEFINE s == IF InBase(e, r) THEN "landed" ELSE "tested"
      <3>1. F[r] = [e EXCEPT !.status = s]
        BY <2>2
      <3>2. s \in {"landed", "tested"} /\ (s = "landed" => e.tested \subseteq World.base[r])
        BY DEF InBase, World
      <3> HIDE DEF F, s
      <3>3. PICK f : f = F[r]
        OBVIOUS
      <3>4. /\ f \in LandRepo /\ f.status = s /\ f.pinned = e.pinned
            /\ f.tested = e.tested /\ f.base_before = e.base_before
            /\ f.fp = e.fp /\ f.config_approved = e.config_approved
        BY <2>1, <3>1, <3>2, <3>3 DEF LandRepo, Statuses
      <3>5. e.tested # None /\ Proven(World, r, e) /\ Stepped(e)
        BY <2>1, <2>2 DEF Sane, Entry, Claims
      <3>6. Entry(World, w, r, f)
        BY <2>1, <3>2, <3>4, <3>5 DEF Entry, Merged, Claims, Proven, Stepped, Tip
      <3> QED BY <3>3, <3>4, <3>6
    <2>3. CASE e.status = "checking"
      <3>1. F[r] = [e EXCEPT !.status = "pending", !.job = None]
        BY <2>3
      <3> HIDE DEF F
      <3>3. PICK f : f = F[r]
        OBVIOUS
      <3>4. /\ f \in LandRepo /\ f.status = "pending" /\ f.pinned = e.pinned
            /\ f.tested = e.tested /\ f.base_before = e.base_before
            /\ f.config_approved = e.config_approved
        BY <2>1, <3>1, <3>3 DEF LandRepo, Statuses
      <3>6. Entry(World, w, r, f)
        BY <2>1, <3>4 DEF Entry, Merged, Claims, Tip
      <3> QED BY <3>3, <3>4, <3>6
    <2>4. CASE e.status \notin {"advancing", "checking"}
      <3>1. F[r] = e
        BY <2>4
      <3> HIDE DEF F
      <3> QED BY <2>1, <3>1
    <2> HIDE DEF F
    <2> QED BY <2>2, <2>3, <2>4
  <1>3. m = [l EXCEPT !.state = "held", !.repos = F]
    BY <1>1 DEF reconcile
  <1>4. F = [r \in Of[w] |-> F[r]]
    OBVIOUS
  <1> HIDE DEF F, G
  <1>5. PICK a : a = [l EXCEPT !.state = "held"]
    OBVIOUS
  <1>6. Whole(World, w, a) /\ a.state = "held"
    <2>1. "held" \in States
      BY DEF States
    <2> QED BY <1>5, <2>1, StateCopy
  <1>7. m = [a EXCEPT !.repos = F]
    BY <1>3, <1>5
  <1>8. Whole(World, w, m) /\ m.repos = F /\ m.state = "held"
    BY <1>2, <1>4, <1>6, <1>7, WithRepos
  <1> QED BY <1>2, <1>8 DEF Seen

LEMMA RestartStep == ASSUME Inv, Restart PROVE Inv'
  <1>1. /\ up' = TRUE /\ cards' = Refiled
        /\ disk' = [w \in Workers |->
                     IF Interrupted(w) THEN [disk[w] EXCEPT !.land = reconcile(@)] ELSE disk[w]]
        /\ UNCHANGED <<env, task, lock, jobs, ends, seq, crashes, hist>>
    BY DEF Restart
  <1>2. Onward /\ Trees' /\ Queue'
    BY <1>1, StillQueue
  <1>3. Counters'
    BY <1>1 DEF Inv, Counters
  <1>4. Cards'
    <2>1. ASSUME NEW w \in Workers, awaits_human(disk[w].land)
          PROVE  CardOf(Card(disk[w].land.request, w, disk[w].land))
      BY <2>1, Waiting, CardIs
    <2> QED BY <1>1, <2>1 DEF Cards, Refiled
  <1>5. World' = World
    BY <1>1 DEF World, env, hist
  <1>6. ASSUME NEW w \in Workers PROVE disk'[w] \in Record /\ RecordOf(World', w, disk'[w])
    <2>1. disk[w] \in Record /\ RecordOf(World, w, disk[w])
      BY DEF Inv, Records
    <2>2. CASE ~Interrupted(w)
      BY <1>1, <1>5, <2>1, <2>2
    <2>3. CASE Interrupted(w)
      <3> DEFINE l == disk[w].land
                 m == reconcile(l)
                 d == [phase |-> "landing", land |-> m]
      <3>1. disk[w].phase = "landing" /\ l # None /\ l.state # "held"
        BY <2>1, <2>3 DEF Interrupted, in_progress, RecordOf
      <3>2. Whole(World, w, l) /\ Seen(World, w, l) /\ Clean(w, l)
        BY <2>1, <3>1 DEF RecordOf, Fit
      <3>3. disk'[w] = [disk[w] EXCEPT !.land = m]
        BY <1>1, <2>3
      <3>4. Whole(World, w, m) /\ Seen(World, w, m) /\ m.state = "held"
        <4>1. m = reconcile(l)
          OBVIOUS
        <4> HIDE DEF d, m, l
        <4> QED BY <3>2, <4>1, ReconciledCopy
      <3> HIDE DEF m
      <3>5. disk'[w] = d
        BY <2>1, <3>1, <3>3 DEF Record
      <3>6. d \in [phase : Phases, land : LandState(w) \cup {None}] /\ RecordOf(World, w, d)
        BY <3>4, NoneAssumption DEF RecordOf, Phases, Fit, Whole
      <3> HIDE DEF d
      <3> QED BY <1>5, <3>5, <3>6, RecordTyped
    <2> QED BY <2>2, <2>3
  <1>7. Records'
    BY <1>1, <1>6 DEF Records
  <1> QED BY <1>1, <1>2, <1>3, <1>4, <1>7, HandsKept DEF Inv

-------------------------------------------------------------------------------
(* The invariant holds.                                                     *)

LEMMA InitInv == Init => Inv
  <1> SUFFICES ASSUME Init PROVE Inv
    OBVIOUS
  <1>1. Counters
    BY Bounds DEF Init, Counters
  <1>2. Queue /\ Cards
    BY DEF Init, Queue, Cards
  <1>3. Trees
    <2>1. MaxWork \in Nat /\ 1 \in 1..MaxWork
      BY Bounds
    <2>2. ASSUME NEW w \in Workers
          PROVE  /\ {<<w, 1>>} \in Commits /\ Own(w, {<<w, 1>>}) /\ {<<w, 1>>} \ Work(w) = {}
      <3>1. <<w, 1>> \in Changes /\ <<w, 1>> \in Work(w)
        BY <2>1 DEF Changes, Work
      <3>2. {<<w, 1>>} \cap Work(w) = Upto(w, 1)
        BY <3>1 DEF Upto
      <3> QED BY <2>1, <3>1, <3>2 DEF Commits, Own
    <2>3. base \in [Repos -> Commits]
      BY DEF Init, Commits
    <2>4. ASSUME NEW w \in Workers
          PROVE /\ branch[w] \in [Of[w] -> Commits] /\ reviewed[w] \in [Of[w] -> SUBSET Commits]
                /\ \A r \in Of[w] : /\ Tip(World, w, r, branch[w][r])
                                    /\ \A pin \in reviewed[w][r] : Own(w, pin)
      BY <2>2 DEF Init, Tip
    <2>5. LandedIsReviewed
      BY OfRepos DEF Init, LandedIsReviewed
    <2> QED BY <2>3, <2>4, <2>5 DEF Init, Trees
  <1>4. Records
    <2>1. \A w \in Workers : disk[w] = [phase |-> "reported", land |-> None]
      BY DEF Init
    <2>2. [phase |-> "reported", land |-> None] \in Record
      BY DEF Record, Phases, AnyLand
    <2>3. DOMAIN disk = Workers /\ disk = [w \in Workers |-> disk[w]]
      BY DEF Init
    <2> QED BY <2>1, <2>2, <2>3 DEF Records, RecordOf, Phases
  <1>5. Hands
    <2>1. task = [t \in Tasks |-> Idle] /\ Idle \in Task
      BY DEF Init, Idle, Task, PCs, AnyLand
    <2>2. \A t \in Tasks : TaskOf(World, t[1], Idle)
      BY IdleIs, TaskWorker
    <2> QED BY <2>1, <2>2 DEF Hands
  <1> QED BY <1>1, <1>2, <1>3, <1>4, <1>5 DEF Inv

LEMMA TaskStepInv == ASSUME Inv, NEW t \in Tasks, TaskStep(t) PROVE Inv'
  BY StartLandStep, DriveStep, TakeLockStep, LockBusyStep, LockedStep, PrepareStep, PreparedStep,
     StartCheckStep, ChecksStartedStep, GateStep, CasStep, LogStep, SaveLandedStep, RefuseStep,
     RefuseCleanStep, HoldStep, HoldCleanStep, HoldSaveStep, FinishStep, FinishSaveStep,
     landed_unretiredStep, RetireLandedStep, SaveEndStep, after_landStep, AskStep, SaveAskStep
  DEF TaskStep

LEMMA OthersInv == ASSUME Inv, Others PROVE Inv'
  <1>1. CASE \E w \in Workers, c \in Callers : Call(w, c)
    BY <1>1, CallStep
  <1>2. CASE \E d \in cards : Approve(d) \/ Deny(d)
    BY <1>2, ApproveStep, DenyStep
  <1>3. CASE \E r \in Repos : HumanCommit(r)
    BY <1>3, HumanCommitStep
  <1>4. CASE \E w \in Workers, r \in Repos : WorkerCommit(w, r)
    BY <1>4, WorkerCommitStep
  <1>5. CASE \E w \in Workers : Report(w) \/ Retire(w)
    BY <1>5, WithdrawStep DEF Report, Retire
  <1> QED BY <1>1, <1>2, <1>3, <1>4, <1>5 DEF Others

\* What a copy holds while nothing happens to it stays so.
LEMMA StutterInv == ASSUME Inv, UNCHANGED vars PROVE Inv'
  <1>1. UNCHANGED <<up, base, branch, disk, task, lock, jobs, ends, cards, log, seq, crashes,
                    passed, reviewed, approved>>
    BY DEF vars
  <1>2. Onward /\ Trees' /\ Queue' /\ Cards' /\ Counters'
    BY <1>1, StillQueue, StillCards, StillCounters DEF env, hist
  <1> QED BY <1>1, <1>2, RecordsKept, HandsKept DEF Inv

LEMMA NextInv == Inv /\ [Next]_vars => Inv'
  <1> SUFFICES ASSUME Inv, [Next]_vars PROVE Inv'
    OBVIOUS
  <1>1. CASE UNCHANGED vars
    BY <1>1, StutterInv
  <1>2. CASE Next
    BY <1>2, TaskStepInv, CheckEndsStep, MarkEndedStep, OthersInv, CrashStep, RestartStep DEF Next
  <1> QED BY <1>1, <1>2

\* Every copy of a land, on disk or in a task's hands, is true to Base, to the
\* commits named and tested and to what the human agreed to, at all times.
THEOREM LandInv == Spec => []Inv
  BY InitInv, NextInv, PTL DEF Spec

\* Whatever a task, worker.json, the queue or a lock holds is what it should be,
\* and a task under way holds a land of its worker.
THEOREM LandTypes == Spec => []Types
  <1>1. Inv => Types
    <2> SUFFICES ASSUME Inv PROVE Types
      OBVIOUS
    <2>1. ASSUME NEW w \in Workers
          PROVE  disk[w].phase \in Phases /\ disk[w].land \in LandState(w) \cup {None}
                 /\ branch[w] \in [Of[w] -> Commits]
      BY DEF Inv, Records, RecordOf, Trees
    <2>2. ASSUME NEW t \in Tasks
          PROVE /\ task[t].pc \in PCs /\ task[t].land \in LandState(t[1]) \cup {None}
                /\ task[t].todo \subseteq Of[t[1]] /\ task[t].repo \in Of[t[1]] \cup {None}
                /\ task[t].pc # "idle" => task[t].land \in LandState(t[1])
      BY DEF Inv, Hands, TaskOf, Whole
    <2>3. jobs \subseteq JobSet /\ {e.job : e \in ends} \subseteq JobSet
      BY DEF Inv, Queue
    <2> QED BY <2>1, <2>2, <2>3 DEF Inv, Counters, Trees, Types
  <1> QED BY <1>1, LandInv, PTL

\* "pinned to the commit you reviewed" (land/mod.rs:260): what Base holds of a
\* worker's work is exactly some commit hiveLand named, whatever is resumed,
\* retried, cut off by a crash or committed meanwhile.
THEOREM LandsWhatWasReviewed == Spec => []LandedIsReviewed
  <1>1. Inv => LandedIsReviewed
    BY DEF Inv, Trees
  <1> QED BY <1>1, LandInv, PTL

-------------------------------------------------------------------------------
(* What moves Base.                                                         *)

Only(s) == \A t \in Tasks : t # s => task'[t] = task[t]

LEMMA OnlyWith ==
  ASSUME Inv, NEW s \in Tasks, NEW x, task' = [task EXCEPT ![s] = x] PROVE Only(s)
  BY DEF Only, Inv, Hands

LEMMA OnlyKept == ASSUME task' = task, NEW s PROVE Only(s)
  BY DEF Only

LEMMA OnlyGone ==
  ASSUME Inv, NEW s \in Tasks
  PROVE  /\ \A pc, l : Go(s, pc, l) => Only(s)
         /\ \A pc, l, r : GoRepo(s, pc, l, r) => Only(s)
         /\ \A pc, l, S : GoTodo(s, pc, l, S) => Only(s)
         /\ Stop(s) => Only(s)
         /\ \A l : Fail(s, l) => Only(s)
  <1>1. ASSUME NEW pc, NEW l, Go(s, pc, l) PROVE Only(s)
    BY <1>1, OnlyWith DEF Go
  <1>2. ASSUME NEW pc, NEW l, NEW r, GoRepo(s, pc, l, r) PROVE Only(s)
    BY <1>2, OnlyWith DEF GoRepo
  <1>3. ASSUME NEW pc, NEW l, NEW S, GoTodo(s, pc, l, S) PROVE Only(s)
    BY <1>3, OnlyWith DEF GoTodo
  <1>4. Stop(s) => Only(s)
    BY OnlyWith DEF Stop
  <1>5. ASSUME NEW l, Fail(s, l) PROVE Only(s)
    BY <1>1, <1>2, <1>5 DEF Fail
  <1> QED BY <1>1, <1>2, <1>3, <1>4, <1>5

LEMMA TaskStepOnly ==
  ASSUME Inv, NEW s \in Tasks, TaskStep(s)
  PROVE  Only(s) /\ (task[s].pc # "cas" \/ Cas(s))
  <1>1. CASE StartLand(s) \/ Drive(s)
    <2>1. Drive(s) => Only(s)
      BY OnlyGone, OnlyWith DEF Drive
    <2> QED BY <1>1, <2>1, OnlyGone DEF StartLand, Drive, At
  <1>2. CASE TakeLock(s) \/ LockBusy(s) \/ Locked(s)
    BY <1>2, OnlyGone DEF TakeLock, LockBusy, Locked, At
  <1>3. CASE Prepare(s) \/ Prepared(s)
    BY <1>3, OnlyGone DEF Prepare, Prepared, At
  <1>4. CASE StartCheck(s) \/ ChecksStarted(s)
    <2>1. StartCheck(s) => Only(s)
      BY OnlyGone DEF StartCheck
    <2> QED BY <1>4, <2>1, OnlyGone DEF StartCheck, ChecksStarted, At
  <1>5. CASE Gate(s)
    BY <1>5, OnlyGone DEF Gate, At
  <1>6. CASE Cas(s)
    BY <1>6, OnlyGone, OnlyWith DEF Cas
  <1>7. CASE Log(s) \/ SaveLanded(s)
    <2>1. SaveLanded(s) => Only(s)
      BY OnlyWith DEF SaveLanded
    <2> QED BY <1>7, <2>1, OnlyGone DEF Log, SaveLanded, At
  <1>8. CASE Refuse(s) \/ RefuseClean(s) \/ Hold(s) \/ HoldClean(s) \/ HoldSave(s)
    BY <1>8, OnlyGone DEF Refuse, RefuseClean, Hold, HoldClean, HoldSave, At
  <1>9. CASE Finish(s) \/ FinishSave(s) \/ landed_unretired(s) \/ RetireLanded(s)
    BY <1>9, OnlyGone DEF Finish, FinishSave, landed_unretired, RetireLanded, At
  <1>10. CASE SaveEnd(s) \/ after_land(s) \/ Ask(s) \/ SaveAsk(s)
    BY <1>10, OnlyGone DEF SaveEnd, after_land, Ask, SaveAsk, At
  <1> QED BY <1>1, <1>2, <1>3, <1>4, <1>5, <1>6, <1>7, <1>8, <1>9, <1>10 DEF TaskStep

\* A step is one task's, or starts one, or leaves them all, or maiTerm dies.
LEMMA OneTask ==
  ASSUME Inv, [Next]_vars
  PROVE  \/ task' = task \/ Crash
         \/ \E s \in Tasks : Only(s) /\ (TaskStep(s) \/ task[s].pc = "idle")
  <1>1. CASE UNCHANGED vars
    BY <1>1 DEF vars
  <1>2. CASE \E s \in Tasks : TaskStep(s)
    BY <1>2, TaskStepOnly
  <1>3. CASE \E q \in jobs : CheckEnds(q)
    BY <1>3 DEF CheckEnds
  <1>4. CASE \E f \in ends : MarkEnded(f)
    <2>1. PICK f \in ends : MarkEnded(f)
      BY <1>4
    <2>2. /\ <<f.job.worker, f.job.id>> \in Tasks
          /\ task[<<f.job.worker, f.job.id>>].pc = "idle"
      BY <2>1 DEF MarkEnded, Inv, Queue, JobSet, Tasks, Slots
    <2>3. Only(<<f.job.worker, f.job.id>>)
      BY <2>1, <2>2, OnlyGone, OnlyKept DEF MarkEnded
    <2> QED BY <2>2, <2>3
  <1>5. CASE \E w \in Workers, c \in Callers : Call(w, c)
    <2>1. PICK w \in Workers, c \in Callers : Call(w, c)
      BY <1>5
    <2>2. <<w, c>> \in Tasks /\ task[<<w, c>>].pc = "idle"
      BY <2>1 DEF Call, At, Tasks, Slots
    <2>3. Only(<<w, c>>)
      BY <2>1, <2>2, OnlyGone DEF Call
    <2> QED BY <2>2, <2>3
  <1>6. CASE \E d \in cards : Approve(d) \/ Deny(d)
    <2>1. PICK d \in cards : Approve(d) \/ Deny(d)
      BY <1>6
    <2>2. <<d.worker, "card">> \in Tasks /\ task[<<d.worker, "card">>].pc = "idle"
      BY <2>1 DEF Approve, Deny, Answerable, Inv, Cards, CardOf, Tasks, Slots
    <2>3. Only(<<d.worker, "card">>)
      <3>1. Approve(d) => Only(<<d.worker, "card">>)
        BY <2>2, OnlyGone, OnlyKept DEF Approve
      <3>2. Deny(d) => Only(<<d.worker, "card">>)
        BY <2>2, OnlyGone, OnlyKept DEF Deny
      <3> QED BY <2>1, <3>1, <3>2
    <2> QED BY <2>2, <2>3
  <1>7. CASE \/ \E q \in Repos : HumanCommit(q)
             \/ \E w \in Workers, q \in Repos : WorkerCommit(w, q)
             \/ \E w \in Workers : Report(w) \/ Retire(w)
             \/ Restart
    BY <1>7 DEF HumanCommit, WorkerCommit, Report, Retire, Withdraw, Restart
  <1> QED BY <1>1, <1>2, <1>3, <1>4, <1>5, <1>6, <1>7 DEF Next, Others

\* Base moves only as the compare-and-swap has it: from where step 1 found it to
\* the tested commit.
LEMMA MovesIsCas ==
  ASSUME Inv, [Next]_vars, NEW t \in Tasks, Moves(t)
  PROVE  LET r == task[t].repo  e == task[t].land.repos[r] IN
           base[r] = e.base_before /\ base' = [base EXCEPT ![r] = e.tested]
  <1> DEFINE r == task[t].repo
             e == task[t].land.repos[r]
  <1>1. task[t].pc = "cas" /\ task'[t].pc = "log" /\ task[t] \in Task /\ DOMAIN task = Tasks
    BY DEF Moves, Inv, Hands
  <1>2. \A s \in Tasks : Only(s) => s = t
    BY <1>1 DEF Only
  <1>3. Cas(t)
    <2>1. ~Crash
      BY <1>1 DEF Crash, Idle
    <2>2. PICK s \in Tasks : Only(s) /\ (TaskStep(s) \/ task[s].pc = "idle")
      BY <1>1, <2>1, OneTask
    <2> QED BY <1>1, <1>2, <2>2, TaskStepOnly
  <1> DEFINE l == task[t].land
             tried == [e EXCEPT !.attempts = @ + 1]
             x == [task[t] EXCEPT !.pc = "prep", !.todo = {r}, !.again = TRUE,
                      !.land = SetRepo(l, r, [tried EXCEPT !.status = "pending"])]
  <1>4. \/ base[r] = e.base_before /\ base' = [base EXCEPT ![r] = e.tested]
        \/ \E m : Go(t, "hold", m)
        \/ task' = [task EXCEPT ![t] = x]
        \/ Fail(t, l)
    BY <1>3 DEF Cas, BaseMoved, land
  <1>5. \A pc, m : Go(t, pc, m) => task'[t].pc = pc
    BY <1>1 DEF Go, Task
  <1>6. \A pc, m, q : GoRepo(t, pc, m, q) => task'[t].pc = pc
    BY <1>1 DEF GoRepo, Task
  <1>7. ~Fail(t, l)
    <2>1. Fail(t, l) => task'[t].pc \in {"refuse", "hold"}
      BY <1>5, <1>6 DEF Fail
    <2> QED BY <1>1, <2>1
  <1>8. x.pc = "prep"
    BY <1>1 DEF Task
  <1> HIDE DEF x
  <1>9. task' # [task EXCEPT ![t] = x]
    BY <1>1, <1>8
  <1> QED BY <1>1, <1>4, <1>5, <1>7, <1>9

\* What is known of a repository whose Base moves now.
LEMMA MovedWhat ==
  ASSUME Inv, [Next]_vars, NEW t \in Tasks, Moves(t)
  PROVE  LET r == task[t].repo  e == task[t].land.repos[r] IN
           /\ r \in Repos /\ base[r] = e.base_before /\ base'[r] = e.tested /\ e.tested # None
           /\ Proven(World, r, e) /\ Stepped(e) /\ ~config_unapproved(e) /\ e.status = "advancing"
           /\ e.config_approved # None => <<t[1], r, e.config_approved>> \in approved
           /\ e.fp \in Catches
  <1> DEFINE w == t[1]
             r == task[t].repo
             e == task[t].land.repos[r]
  <1>1. w \in Workers /\ TaskOf(World, w, task[t]) /\ task[t].pc = "cas"
    BY TaskWorker DEF Inv, Hands, Moves
  <1>2. /\ Whole(World, w, task[t].land) /\ Clean(w, task[t].land) /\ r \in Of[w]
        /\ e.status = "advancing" /\ ~config_unapproved(e)
    BY <1>1 DEF TaskOf, Holding
  <1>3. Entry(World, w, r, e) /\ Sane(e)
    BY <1>2 DEF Whole, Clean
  <1>4. base[r] = e.base_before /\ base' = [base EXCEPT ![r] = e.tested]
    BY MovesIsCas
  <1>5. r \in Repos /\ base'[r] = e.tested
    BY <1>1, <1>2, <1>4, OfRepos DEF Inv, Trees
  <1>6. World.approved = approved
    BY DEF World
  <1> QED BY <1>2, <1>3, <1>4, <1>5, <1>6 DEF Entry, Claims, Sane, LandRepo

\* "fast-forwards Base to exactly the tested commit": in a repository with a land
\* check, Base only ever moves to a commit its check passed on.
THEOREM ChecksPassFirst == Spec => ChecksPass
  <1>1. ASSUME Inv, [Next]_vars, NEW t \in Tasks, Moves(t), task[t].repo \in Checked
        PROVE  <<task[t].repo, base'[task[t].repo]>> \in passed
    <2>1. World.passed = passed
      BY DEF World
    <2> QED BY <1>1, <2>1, MovedWhat DEF Proven
  <1>2. Inv /\ [Next]_vars =>
          [\A t \in Tasks : Moves(t) /\ task[t].repo \in Checked =>
             <<task[t].repo, base'[task[t].repo]>> \in passed]_vars
    BY <1>1
  <1> QED BY <1>2, LandInv, PTL DEF Spec, ChecksPass

\* The config rule: a land that changes config from where Base stands moves Base
\* only when the human approved exactly that change, in that repository.
THEOREM ConfigIsApproved == Spec => ConfigApproved
  <1>1. ASSUME Inv, [Next]_vars, NEW t \in Tasks, Moves(t),
               caught(base[task[t].repo], base'[task[t].repo]) # <<>>
        PROVE  <<t[1], task[t].repo, caught(base[task[t].repo], base'[task[t].repo])>> \in approved
    <2> DEFINE r == task[t].repo
               e == task[t].land.repos[r]
    <2>1. /\ base[r] = e.base_before /\ base'[r] = e.tested /\ e.tested # None /\ Stepped(e)
          /\ ~config_unapproved(e) /\ e.status = "advancing" /\ e.fp \in Catches
          /\ e.config_approved # None => <<t[1], r, e.config_approved>> \in approved
      BY <1>1, MovedWhat
    <2>2. e.fp = caught(base[r], base'[r]) /\ e.fp # <<>>
      BY <1>1, <2>1 DEF Stepped
    <2>3. e.config_approved = e.fp /\ e.fp # None
      BY <2>1, <2>2, NoneAssumption DEF config_unapproved
    <2> QED BY <2>1, <2>2, <2>3
  <1>2. Inv /\ [Next]_vars =>
          [\A t \in Tasks : Moves(t) =>
             LET r == task[t].repo  change == caught(base[r], base'[r])
             IN  change # <<>> => <<t[1], r, change>> \in approved]_vars
    BY <1>1
  <1> QED BY <1>2, LandInv, PTL DEF Spec, ConfigApproved

-------------------------------------------------------------------------------
(* Names.  A card's is a UUID (agent_requests.rs:458), a check's its first  *)
(* eight digits (queue.rs:369): as if without end, where what mentions one  *)
(* is always finite, though no bound of the model says how much it may be.  *)
Endless == IsFiniteSet(Workers) /\ ~IsFiniteSet(CardIds) /\ ~IsFiniteSet(JobIds)

Active   == {t \in Tasks : task[t].pc # "idle"}
Finitely == IsFiniteSet(Active) /\ IsFiniteSet(jobs) /\ IsFiniteSet(ends) /\ IsFiniteSet(cards)

\* The picture of a finite set is finite.
LEMMA Pictures == ASSUME NEW S, IsFiniteSet(S), NEW f PROVE IsFiniteSet({f[x] : x \in S})
  <1> DEFINE T == {f[x] : x \in S}
             g == [x \in S |-> f[x]]
  <1>1. g \in Surjection(S, T)
    BY DEF Surjection
  <1> QED BY <1>1, FS_Surjection

LEMMA FiniteRepos == IsFiniteSet(Repos)
  <1>1. Folders \in Seq(Repos)
    BY LandAssumption
  <1>2. DOMAIN Folders = 1..Len(Folders) /\ Len(Folders) \in Int
    BY <1>1
  <1>3. IsFiniteSet(DOMAIN Folders)
    BY <1>2, FS_Interval
  <1> QED BY <1>3, Pictures DEF Repos

\* A step adds no more than one job, one end and one card; but for the ends of
\* the jobs a cleanup drops.
Few(q, e, d) ==
    /\ jobs' \subseteq jobs \cup {q}
    /\ ends' \subseteq ends \cup {e} \cup {[job |-> x, passed |-> FALSE] : x \in jobs}
    /\ cards' \subseteq cards \cup {d}

LEMMA FewFinite ==
  ASSUME Finitely, NEW q, NEW e, NEW d, Few(q, e, d)
  PROVE  IsFiniteSet(jobs') /\ IsFiniteSet(ends') /\ IsFiniteSet(cards')
  <1>1. IsFiniteSet(jobs')
    BY FS_AddElement, FS_Subset DEF Finitely, Few
  <1>2. IsFiniteSet(cards')
    BY FS_AddElement, FS_Subset DEF Finitely, Few
  <1> DEFINE f == [x \in jobs |-> [job |-> x, passed |-> FALSE]]
             over == {f[x] : x \in jobs}
  <1>3. IsFiniteSet(over)
    BY Pictures DEF Finitely
  <1>4. over = {[job |-> x, passed |-> FALSE] : x \in jobs}
    OBVIOUS
  <1> HIDE DEF over
  <1>5. IsFiniteSet(ends \cup {e} \cup over)
    BY <1>3, FS_AddElement, FS_Union DEF Finitely
  <1>6. ends' \subseteq ends \cup {e} \cup over
    BY <1>4 DEF Few
  <1> QED BY <1>1, <1>2, <1>5, <1>6, FS_Subset

LEMMA SameFew == ASSUME UNCHANGED <<jobs, ends, cards>>, NEW q, NEW e, NEW d PROVE Few(q, e, d)
  BY DEF Few

LEMMA CleanupFew ==
  ASSUME NEW w, NEW l, cleanup(w, l), NEW q, NEW e, NEW d, cards' \subseteq cards \cup {d}
  PROVE  Few(q, e, d)
  <1>1. Dropped(w, l) \subseteq jobs
    BY DEF Dropped
  <1> QED BY <1>1 DEF cleanup, Few

LEMMA TaskStepFew == ASSUME NEW t \in Tasks, TaskStep(t) PROVE \E q, e, d : Few(q, e, d)
  <1>1. CASE \/ StartLand(t) \/ Drive(t) \/ TakeLock(t) \/ LockBusy(t) \/ Locked(t)
             \/ Prepare(t) \/ Prepared(t) \/ ChecksStarted(t) \/ Gate(t) \/ Cas(t)
    BY <1>1, SameFew
    DEF StartLand, Drive, TakeLock, LockBusy, Locked, Prepare, Prepared, ChecksStarted, Gate, Cas
  <1>2. CASE \/ Log(t) \/ SaveLanded(t) \/ Refuse(t) \/ Hold(t) \/ HoldSave(t) \/ FinishSave(t)
             \/ landed_unretired(t) \/ RetireLanded(t) \/ SaveEnd(t) \/ after_land(t)
    BY <1>2, SameFew
    DEF Log, SaveLanded, Refuse, Hold, HoldSave, FinishSave, landed_unretired, RetireLanded,
        SaveEnd, after_land
  <1>3. CASE StartCheck(t)
    <2> DEFINE q == Job(CHOOSE j \in FreshJobs(t[1]) : TRUE, t[1], land(t),
                        First(Folders, task[t].todo))
    <2>1. jobs' \subseteq jobs \cup {q} /\ ends' = ends /\ cards' = cards
      BY <1>3 DEF StartCheck
    <2> HIDE DEF q
    <2>2. Few(q, q, q)
      BY <2>1 DEF Few
    <2> QED BY <2>2
  <1>4. CASE RefuseClean(t) \/ HoldClean(t) \/ Finish(t)
    <2>1. cleanup(t[1], land(t)) /\ cards' = cards
      BY <1>4 DEF RefuseClean, HoldClean, Finish
    <2>2. Few(t, t, t)
      BY <2>1, CleanupFew
    <2> QED BY <2>2
  <1>5. CASE Ask(t)
    <2>1. cleanup(t[1], land(t)) /\ \E d : cards' \subseteq cards \cup {d}
      BY <1>5 DEF Ask
    <2>2. PICK d : cards' \subseteq cards \cup {d}
      BY <2>1
    <2>3. Few(t, t, d)
      BY <2>1, <2>2, CleanupFew
    <2> QED BY <2>3
  <1>6. CASE SaveAsk(t)
    <2>1. jobs' = jobs /\ ends' = ends /\ cards' \subseteq cards
      BY <1>6 DEF SaveAsk
    <2>2. Few(t, t, t)
      BY <2>1 DEF Few
    <2> QED BY <2>2
  <1> QED BY <1>1, <1>2, <1>3, <1>4, <1>5, <1>6 DEF TaskStep

LEMMA OthersFew == ASSUME Others PROVE \E q, e, d : Few(q, e, d)
  <1>1. CASE \/ \E w \in Workers, c \in Callers : Call(w, c)
             \/ \E r \in Repos : HumanCommit(r)
             \/ \E w \in Workers, r \in Repos : WorkerCommit(w, r)
    BY <1>1, SameFew DEF Call, HumanCommit, WorkerCommit
  <1>2. CASE \/ \E d \in cards : Approve(d) \/ Deny(d)
             \/ \E w \in Workers : Report(w) \/ Retire(w)
    <2>1. jobs' = jobs /\ ends' = ends /\ cards' \subseteq cards
      BY <1>2 DEF Approve, Deny, Report, Retire, Withdraw
    <2>2. Few(up, up, up)
      BY <2>1 DEF Few
    <2> QED BY <2>2
  <1> QED BY <1>1, <1>2 DEF Others

\* A restart files one card for a worker, or none.
LEMMA RestartFinite ==
  ASSUME Endless, Finitely, Restart
  PROVE  IsFiniteSet(jobs') /\ IsFiniteSet(ends') /\ IsFiniteSet(cards')
  <1> DEFINE f == [w \in Workers |-> Card(disk[w].land.request, w, disk[w].land)]
             all == {f[w] : w \in Workers}
  <1>1. IsFiniteSet(all)
    BY Pictures DEF Endless
  <1>2. Refiled \subseteq all
    BY DEF Refiled
  <1> HIDE DEF all
  <1>3. IsFiniteSet(Refiled)
    BY <1>1, <1>2, FS_Subset
  <1> QED BY <1>3 DEF Restart, Finitely

LEMMA FinitelyStep == ASSUME Endless, Inv, Finitely, [Next]_vars PROVE Finitely'
  <1>1. CASE Crash
    <2>1. Active' = {} /\ jobs' = {} /\ ends' = {} /\ cards' = {}
      BY <1>1 DEF Crash, Active, Idle
    <2> QED BY <2>1, FS_EmptySet DEF Finitely
  <1>2. CASE ~Crash
    <2>1. IsFiniteSet(Active')
      <3>1. PICK s : Active' \subseteq Active \cup {s}
        BY <1>2, OneTask DEF Active, Only
      <3> QED BY <3>1, FS_AddElement, FS_Subset DEF Finitely
    <2>2. IsFiniteSet(jobs') /\ IsFiniteSet(ends') /\ IsFiniteSet(cards')
      <3>1. CASE UNCHANGED vars
        BY <3>1 DEF vars, Finitely
      <3>2. CASE \E q \in jobs : CheckEnds(q)
        <4>1. PICK q \in jobs : CheckEnds(q)
          BY <3>2
        <4>2. PICK e : ends' = ends \cup {e}
          BY <4>1 DEF CheckEnds
        <4>3. Few(q, e, q)
          BY <4>1, <4>2 DEF CheckEnds, Few
        <4> QED BY <4>3, FewFinite
      <3>3. CASE \E e \in ends : MarkEnded(e)
        <4>1. jobs' = jobs /\ ends' \subseteq ends /\ cards' = cards
          BY <3>3 DEF MarkEnded
        <4>2. Few(up, up, up)
          BY <4>1 DEF Few
        <4> QED BY <4>2, FewFinite
      <3>4. CASE \E t \in Tasks : TaskStep(t)
        BY <3>4, TaskStepFew, FewFinite
      <3>5. CASE Others
        BY <3>5, OthersFew, FewFinite
      <3>6. CASE Restart
        BY <3>6, RestartFinite
      <3> QED BY <1>2, <3>1, <3>2, <3>3, <3>4, <3>5, <3>6 DEF Next
    <2> QED BY <2>1, <2>2 DEF Finitely
  <1> QED BY <1>1, <1>2

LEMMA FinitelyInit == ASSUME Init PROVE Finitely
  <1>1. Active = {} /\ jobs = {} /\ ends = {} /\ cards = {}
    BY DEF Init, Active, Idle
  <1> QED BY <1>1, FS_EmptySet DEF Finitely

\* A task that holds a land is under way.
LEMMA HeldActive == ASSUME Inv, NEW t \in Tasks, land(t) # None PROVE t \in Active
  BY DEF Inv, Hands, TaskOf, Active, land, Idle

LEMMA CardLeft == ASSUME Endless, Inv, Finitely PROVE FreshCards # {}
  <1> DEFINE inCards == {d.id : d \in cards}
             fDisk   == [v \in Workers |-> disk[v].land.request]
             fTask   == [t \in Active |-> land(t).request]
             onDisk  == {fDisk[v] : v \in Workers}
             inTasks == {fTask[t] : t \in Active}
             used    == inCards \cup onDisk \cup inTasks
  <1>1. IsFiniteSet(inCards)
    <2> DEFINE f == [d \in cards |-> d.id]
    <2>1. IsFiniteSet({f[d] : d \in cards})
      BY Pictures DEF Finitely
    <2>2. {f[d] : d \in cards} = inCards
      OBVIOUS
    <2> QED BY <2>1, <2>2
  <1>2. IsFiniteSet(onDisk)
    BY Pictures DEF Endless
  <1>3. IsFiniteSet(inTasks)
    BY Pictures DEF Finitely
  <1>4. IsFiniteSet(used)
    <2> HIDE DEF inCards, onDisk, inTasks
    <2> QED BY <1>1, <1>2, <1>3, FS_Union
  <1>5. PICK c \in CardIds : c \notin used
    <2> HIDE DEF used
    <2> QED BY <1>4, FS_Subset DEF Endless
  <1>6. \A d \in cards : d.id # c
    BY <1>5
  <1>7. \A v \in Workers : disk[v].land.request # c
    BY <1>5
  <1>8. \A t \in Tasks : land(t) # None => land(t).request # c
    BY <1>5, HeldActive
  <1> QED BY <1>6, <1>7, <1>8 DEF FreshCards

LEMMA JobLeft == ASSUME Endless, Inv, Finitely, NEW w \in Workers PROVE FreshJobs(w) # {}
  <1> DEFINE queue   == jobs \cup {e.job : e \in ends}
             fDisk   == [x \in Workers \X Repos |-> disk[x[1]].land.repos[x[2]].job]
             fTask   == [x \in Active \X Repos |-> land(x[1]).repos[x[2]].job]
             running == {t[2] : t \in Active}
             inQueue == {q.id : q \in queue}
             onDisk  == {fDisk[x] : x \in Workers \X Repos}
             inTasks == {fTask[x] : x \in Active \X Repos}
             used    == running \cup inQueue \cup onDisk \cup inTasks
  <1>1. IsFiniteSet(running)
    <2> DEFINE f == [t \in Active |-> t[2]]
    <2>1. IsFiniteSet({f[t] : t \in Active})
      BY Pictures DEF Finitely
    <2>2. {f[t] : t \in Active} = running
      OBVIOUS
    <2> QED BY <2>1, <2>2
  <1>2. IsFiniteSet(inQueue)
    <2> DEFINE f == [e \in ends |-> e.job]
               over == {f[e] : e \in ends}
               g == [q \in queue |-> q.id]
    <2>1. IsFiniteSet(over)
      BY Pictures DEF Finitely
    <2>2. queue = jobs \cup over
      OBVIOUS
    <2>3. IsFiniteSet(queue)
      <3> HIDE DEF over, queue
      <3> QED BY <2>1, <2>2, FS_Union DEF Finitely
    <2>4. {g[q] : q \in queue} = inQueue
      OBVIOUS
    <2>5. IsFiniteSet({g[q] : q \in queue})
      <3> HIDE DEF g, queue
      <3> QED BY <2>3, Pictures
    <2> QED BY <2>4, <2>5
  <1>3. IsFiniteSet(onDisk)
    <2>1. IsFiniteSet(Workers \X Repos)
      BY FiniteRepos, FS_Product DEF Endless
    <2> HIDE DEF fDisk
    <2> QED BY <2>1, Pictures
  <1>4. IsFiniteSet(inTasks)
    <2>1. IsFiniteSet(Active \X Repos)
      BY FiniteRepos, FS_Product DEF Finitely
    <2> HIDE DEF fTask
    <2> QED BY <2>1, Pictures
  <1>5. IsFiniteSet(used)
    <2> HIDE DEF running, inQueue, onDisk, inTasks
    <2> QED BY <1>1, <1>2, <1>3, <1>4, FS_Union
  <1>6. PICK j \in JobIds : j \notin used
    <2> HIDE DEF used
    <2> QED BY <1>5, FS_Subset DEF Endless
  <1>7. task[<<w, j>>].pc = "idle"
    <2>1. <<w, j>> \in Tasks
      BY DEF Tasks, Slots
    <2>2. <<w, j>> \notin Active
      <3>1. ASSUME <<w, j>> \in Active PROVE <<w, j>>[2] \in running
        BY <3>1
      <3> QED BY <3>1, <1>6
    <2> QED BY <2>1, <2>2 DEF Active
  <1>8. \A q \in queue : q.id # j
    BY <1>6
  <1>9. \A v \in Workers : \A r \in Of[v] : disk[v].land.repos[r].job # j
    <2> SUFFICES ASSUME NEW v \in Workers, NEW r \in Of[v] PROVE disk[v].land.repos[r].job # j
      OBVIOUS
    <2>1. <<v, r>> \in Workers \X Repos
      BY OfRepos
    <2>2. fDisk[<<v, r>>] = disk[v].land.repos[r].job
      BY <2>1
    <2>3. fDisk[<<v, r>>] \in onDisk
      BY <2>1
    <2> QED BY <1>6, <2>2, <2>3
  <1>10. \A t \in Tasks : land(t) # None => \A r \in Of[t[1]] : land(t).repos[r].job # j
    <2> SUFFICES ASSUME NEW t \in Tasks, land(t) # None, NEW r \in Of[t[1]]
                 PROVE  land(t).repos[r].job # j
      OBVIOUS
    <2>1. <<t, r>> \in Active \X Repos
      BY HeldActive, OfRepos, TaskWorker
    <2>2. fTask[<<t, r>>] = land(t).repos[r].job
      BY <2>1
    <2>3. fTask[<<t, r>>] \in inTasks
      BY <2>1
    <2> QED BY <1>6, <2>2, <2>3
  <1> QED BY <1>6, <1>7, <1>8, <1>9, <1>10 DEF FreshJobs

\* Types hold, and there is always a name for the next card and the next check
\* (Ask, StartCheck): nothing a land does waits on one.
THEOREM NamesLeft == ASSUME Endless PROVE Spec => []TypeOK
  <1>1. Init => Finitely
    BY FinitelyInit
  <1>2. Inv /\ Finitely /\ [Next]_vars => Finitely'
    BY FinitelyStep
  <1>3. Inv /\ Finitely /\ Types => TypeOK
    BY CardLeft, JobLeft DEF TypeOK
  <1> QED BY <1>1, <1>2, <1>3, LandInv, LandTypes, PTL DEF Spec
================================================================================
