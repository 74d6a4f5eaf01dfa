----------------------------- MODULE LandRun_proofs -----------------------------
(***************************************************************************)
(* Theorems about Land that rest on one run at a time acting on a land:    *)
(* how a task's copy stands to the one in worker.json, what the land log   *)
(* has of both, the card a land waits on, and who holds the locks.         *)
(***************************************************************************)
EXTENDS Land_proofs

\* One run at a time: nobody calls hiveLand while a run still ends, and where a
\* worker has several checks, the end of one is heard once the other's is done with.
OneRun ==
    /\ "call while running" \notin Races
    /\ "ends together" \in Races =>
         \A w \in Workers : \A r, q \in Of[w] \cap Checked : r = q

-------------------------------------------------------------------------------
(* The invariant, first part: how a task stands to its worker's record.     *)

Alone == \A t, u \in Tasks :
           t[1] = u[1] /\ task[t].pc # "idle" /\ task[u].pc # "idle" => t = u

\* A copy that differs in how far it is with what is still to land.
Alike(w, l, m) ==
    /\ m.id = l.id
    /\ \A r \in Of[w] :
         /\ m.repos[r].pinned = l.repos[r].pinned
         /\ m.repos[r].status = "landed" <=> l.repos[r].status = "landed"
         /\ m.repos[r].status = "checking" => l.repos[r].status = "checking" \/ r \in Checked

\* What the record says landed, the copy does.
Carries(w, k, l) ==
    \A r \in Of[w] : k.repos[r].status = "landed" =>
        l.repos[r].status = "landed" /\ l.repos[r].pinned = k.repos[r].pinned

OnlyChecked(w, l) == \A r \in Of[w] : l.repos[r].status = "checking" => r \in Checked

\* A land its run still has in hand, as worker.json shows it.
InRun == {"drive", "lock", "prep", "check", "gate", "cas", "log", "saveLanded",
          "finish", "finishSave", "unretire", "retire", "ask", "asked"}
Going == {"locking", "checking", "advancing"}

\* Task t at x, beside its worker's record d.
Copies(t, d, x) ==
    LET w == t[1] IN
    /\ OnlyChecked(w, x.land)
    /\ d.land # None /\ d.land.id = x.land.id /\ x.pc # "clean" => Carries(w, d.land, x.land)
    /\ x.pc \notin {"called", "clean"} => d.land # None /\ d.land.id = x.land.id
    /\ x.pc \in {"cas", "log"} => d.land.state = "advancing" /\ d.land.repos[x.repo] = x.land.repos[x.repo]
    /\ x.pc = "hold" /\ x.repo \in Of[w] => x.land.repos[x.repo].status # "landed"

States_of(d, x) ==
    /\ x.pc \in InRun => d.phase = "landing" /\ d.land.state \in Going
    /\ x.pc = "called" => x.land.state = "locking" /\ (d.phase = "landing" => d.land.state = "held")
    /\ x.pc \in {"lock", "prep", "check"} => x.land.state \in {"locking", "advancing"}
    /\ x.pc \in {"finish", "finishSave", "unretire", "retire"} => x.land.state = "advancing"
    /\ x.pc \in {"unretire", "retire"} => d.land.state = "advancing"
    /\ x.pc \in {"saveEnd", "after"} => d.phase = "landed" /\ x.land.state = "landed"
    /\ x.pc = "clean" => d.phase # "landing"
    /\ x.pc \in {"holdClean", "holdSave"} => d.land.state = "held"

\* Whose turn it is where the record waits for a check's end or for the human.
Turn(t, d) ==
    /\ d.land # None /\ d.land.state = "checking" =>
         t[2] \in JobIds /\ ("ends together" \in Races => AllIn(d.land))
    /\ d.phase = "landing" /\ d.land.state = "awaiting_human" => t[2] = "card"

Beside(t, d, x) == Copies(t, d, x) /\ States_of(d, x) /\ Turn(t, d)

Phased(w, d) ==
    /\ d.land # None => OnlyChecked(w, d.land)
    /\ d.land # None /\ d.land.state \in {"locking", "checking"} => d.phase = "landing"
    /\ d.land # None /\ d.land.state = "advancing" => d.phase \in {"landing", "landed"}

Control ==
    /\ Alone
    /\ ~up => \A t \in Tasks : task[t].pc = "idle"
    /\ \A w \in Workers : Phased(w, disk[w])
    /\ \A t \in Tasks : task[t].pc # "idle" => Beside(t, disk[t[1]], task[t])

\* The record waits on the human.
Waits(d) == d.phase = "landing" /\ d.land.state = "awaiting_human"

\* What a step of task t does to it and to its worker's record.
Turns(w, x, y, d, e) ==
    /\ y.pc # "idle" => y.land.id = x.land.id
    /\ y.pc # "idle" /\ x.pc \notin {"drive", "log"} => Alike(w, x.land, y.land)
    /\ y.pc # "idle" /\ x.pc \notin {"drive", "ask"} => y.land.request = x.land.request
    /\ x.pc = "drive" => y.pc \in {"idle", "lock"} /\ y.land \in {None, d.land} /\ e = d
    /\ y.pc = "asked" => x.pc = "ask"
    /\ \/ e.land = d.land
       \/ e.land = None
       \/ /\ x.pc \notin {"log", "clean"} /\ e.land # None
          /\ Alike(w, x.land, e.land) /\ e.land.request = x.land.request
    /\ x.pc = "saveLanded" => e.land = x.land
    /\ Waits(e) => x.pc = "asked"

Runs(t) ==
    LET w == t[1]  x == task[t]  y == task'[t]  d == disk[w]  e == disk'[w] IN
    /\ up /\ up' /\ Only(t) /\ x.pc # "idle"
    /\ \A v \in Workers : v # w => disk'[v] = disk[v]
    /\ Phased(w, e) /\ Turns(w, x, y, d, e)
    /\ y.pc # "idle" => Beside(t, e, y)

-------------------------------------------------------------------------------
(* Copies.                                                                  *)

LEMMA AlikeSelf == \A w, l : Alike(w, l, l)
  BY DEF Alike

LEMMA AlikeThrough ==
  ASSUME NEW w, NEW l, NEW m, NEW n, Alike(w, l, m), Alike(w, m, n) PROVE Alike(w, l, n)
  BY DEF Alike

LEMMA StateIs ==
  ASSUME NEW w \in Workers, NEW l \in LandState(w), NEW s, NEW m, m = [l EXCEPT !.state = s]
  PROVE  /\ m.id = l.id /\ m.state = s /\ m.repos = l.repos /\ m.request = l.request
         /\ Alike(w, l, m)
         /\ s \in States => m \in LandState(w)
  <1>1. /\ m.id = l.id /\ m.state = s /\ m.repos = l.repos /\ m.request = l.request
        /\ s \in States => m \in LandState(w)
    BY DEF LandState
  <1> QED BY <1>1 DEF Alike

LEMMA ReposIs ==
  ASSUME NEW w \in Workers, NEW l \in LandState(w), NEW F, NEW m, m = [l EXCEPT !.repos = F]
  PROVE  m.id = l.id /\ m.state = l.state /\ m.repos = F /\ m.request = l.request
  BY DEF LandState

LEMMA RepoHas ==
  ASSUME NEW w \in Workers, NEW l \in LandState(w), NEW r \in Of[w], NEW f, NEW m,
         m = SetRepo(l, r, f)
  PROVE  /\ m.id = l.id /\ m.state = l.state /\ m.request = l.request /\ m.repos[r] = f
         /\ \A q \in Of[w] : q # r => m.repos[q] = l.repos[q]
  <1>1. m.id = l.id /\ m.state = l.state /\ m.request = l.request /\ m.repos = [l.repos EXCEPT ![r] = f]
    BY DEF SetRepo, LandState
  <1>2. DOMAIN l.repos = Of[w]
    BY DEF LandState
  <1> QED BY <1>1, <1>2

LEMMA RepoIs ==
  ASSUME NEW w \in Workers, NEW l \in LandState(w), NEW r \in Of[w], NEW f, NEW m,
         m = SetRepo(l, r, f), f.pinned = l.repos[r].pinned,
         f.status = "landed" <=> l.repos[r].status = "landed",
         f.status = "checking" => l.repos[r].status = "checking" \/ r \in Checked
  PROVE  /\ m.id = l.id /\ m.state = l.state /\ m.request = l.request /\ m.repos[r] = f
         /\ Alike(w, l, m)
  <1>1. /\ m.id = l.id /\ m.state = l.state /\ m.request = l.request /\ m.repos[r] = f
        /\ \A q \in Of[w] : q # r => m.repos[q] = l.repos[q]
    BY RepoHas
  <1> QED BY <1>1 DEF Alike

LEMMA CleanedIs ==
  ASSUME NEW w \in Workers, NEW l \in LandState(w), NEW m, m = Cleaned(l)
  PROVE  /\ Alike(w, l, m) /\ m.id = l.id /\ m.state = l.state /\ m.request = l.request
         /\ m \in LandState(w)
         /\ \A r \in Of[w] : m.repos[r].status = l.repos[r].status
  <1> DEFINE F == [r \in Of[w] |-> [l.repos[r] EXCEPT !.job = None]]
  <1>1. m = [l EXCEPT !.repos = F] /\ l.repos \in [Of[w] -> LandRepo]
    BY DEF Cleaned, LandState
  <1>2. ASSUME NEW r \in Of[w]
        PROVE  F[r] \in LandRepo /\ F[r].status = l.repos[r].status /\ F[r].pinned = l.repos[r].pinned
    <2>1. PICK f : f = l.repos[r] /\ f \in LandRepo
      BY <1>1
    <2>2. /\ [f EXCEPT !.job = None] \in LandRepo /\ [f EXCEPT !.job = None].status = f.status
          /\ [f EXCEPT !.job = None].pinned = f.pinned
      BY <2>1 DEF LandRepo
    <2>3. F[r] = [f EXCEPT !.job = None]
      BY <2>1
    <2> QED BY <2>1, <2>2, <2>3
  <1>3. F \in [Of[w] -> LandRepo]
    BY <1>2
  <1> HIDE DEF F
  <1>4. m.repos = F /\ m.id = l.id /\ m.state = l.state /\ m.request = l.request /\ m \in LandState(w)
    BY <1>1, <1>3 DEF LandState
  <1> QED BY <1>2, <1>4 DEF Alike

LEMMA CaughtCopyIs ==
  ASSUME NEW w \in Workers, NEW l \in LandState(w), NEW m, m = CatchFirst(l)
  PROVE  /\ Alike(w, l, m) /\ m.id = l.id /\ m.request = l.request /\ m.state = l.state
         /\ m \in LandState(w)
  <1> DEFINE G(e, r) == CASE e.status = "landed" -> e
                          [] e.status = "tested" /\ e.tested # None /\ e.base_before # None
                               -> [e EXCEPT !.fp = caught(e.base_before, e.tested)]
                          [] OTHER -> [e EXCEPT !.fp = caught(base[r] \cap e.pinned, e.pinned)]
             F == [r \in Of[w] |-> G(l.repos[r], r)]
  <1>1. m = [l EXCEPT !.repos = F] /\ l.repos \in [Of[w] -> LandRepo]
    BY DEF CatchFirst, LandState
  <1>2. ASSUME NEW r \in Of[w]
        PROVE  F[r].status = l.repos[r].status /\ F[r].pinned = l.repos[r].pinned /\ F[r] \in LandRepo
    <2>1. PICK f : f = l.repos[r] /\ f \in LandRepo
      BY <1>1
    <2>2. G(f, r).status = f.status /\ G(f, r).pinned = f.pinned /\ G(f, r) \in LandRepo
      <3>1. CASE f.status = "landed"
        BY <2>1, <3>1
      <3>2. CASE f.status # "landed"
        <4>1. \E c \in Catches : G(f, r) = [f EXCEPT !.fp = c]
          <5>1. \/ G(f, r) = [f EXCEPT !.fp = caught(f.base_before, f.tested)]
                \/ G(f, r) = [f EXCEPT !.fp = caught(base[r] \cap f.pinned, f.pinned)]
            BY <3>2
          <5> HIDE DEF G
          <5> QED BY <5>1, CaughtIn
        <4> HIDE DEF G
        <4> QED BY <2>1, <4>1 DEF LandRepo
      <3> QED BY <3>1, <3>2
    <2>3. F[r] = G(f, r)
      BY <2>1
    <2> HIDE DEF F, G
    <2> QED BY <2>1, <2>2, <2>3
  <1>4. F \in [Of[w] -> LandRepo]
    BY <1>2
  <1> HIDE DEF F
  <1>3. /\ m.repos = F /\ m.id = l.id /\ m.request = l.request /\ m.state = l.state
        /\ m \in LandState(w)
    BY <1>1, <1>4, ReposIs DEF LandState
  <1> QED BY <1>2, <1>3 DEF Alike

\* The copy await_human files its card for.
AskedLand(l) ==
    [IF l.state = "advancing" THEN Cleaned(l) ELSE CatchFirst(Cleaned(l)) EXCEPT !.state = "awaiting_human"]

LEMMA AskedIs ==
  ASSUME NEW w \in Workers, NEW l \in LandState(w), NEW m, m = AskedLand(l)
  PROVE  /\ Alike(w, l, m) /\ m.id = l.id /\ m.request = l.request /\ m.state = "awaiting_human"
         /\ m \in LandState(w)
  <1>1. PICK a : a = Cleaned(l)
    OBVIOUS
  <1>2. Alike(w, l, a) /\ a.id = l.id /\ a.request = l.request /\ a \in LandState(w)
    BY <1>1, CleanedIs
  <1>3. PICK g : g = IF l.state = "advancing" THEN a ELSE CatchFirst(a)
    OBVIOUS
  <1>4. Alike(w, a, g) /\ g.id = l.id /\ g.request = l.request /\ g \in LandState(w)
    <2>1. CASE g = a
      BY <1>2, <2>1, AlikeSelf
    <2>2. CASE g = CatchFirst(a)
      BY <1>2, <2>2, CaughtCopyIs
    <2> QED BY <1>3, <2>1, <2>2
  <1>5. m = [g EXCEPT !.state = "awaiting_human"] /\ "awaiting_human" \in States
    BY <1>1, <1>3 DEF AskedLand, States
  <1>6. /\ Alike(w, g, m) /\ m.id = g.id /\ m.request = g.request /\ m.state = "awaiting_human"
        /\ m \in LandState(w)
    BY <1>4, <1>5, StateIs
  <1> QED BY <1>2, <1>4, <1>6, AlikeThrough

-------------------------------------------------------------------------------
(* Where a task goes.                                                       *)

LEMMA GoIs ==
  ASSUME Inv, NEW t \in Tasks
  PROVE  /\ \A pc, l : Go(t, pc, l) => Only(t) /\ task'[t] = Gone(task[t], pc, l)
         /\ \A pc, l, r : GoRepo(t, pc, l, r) => Only(t) /\ task'[t] = GoneAt(task[t], pc, l, r)
         /\ \A pc, l, S : GoTodo(t, pc, l, S) => Only(t) /\ task'[t] = GoneTo(task[t], pc, l, S)
         /\ Stop(t) => Only(t) /\ task'[t] = Idle
  <1>1. task \in [Tasks -> Task] /\ task[t] \in Task
    BY DEF Inv, Hands
  <1>2. ASSUME NEW pc, NEW l, Go(t, pc, l) PROVE Only(t) /\ task'[t] = Gone(task[t], pc, l)
    <2>1. task'[t] = [task[t] EXCEPT !.pc = pc, !.land = l]
      BY <1>1, <1>2 DEF Go
    <2> QED BY <1>1, <1>2, <2>1, GoneIs, OnlyGone
  <1>3. ASSUME NEW pc, NEW l, NEW r, GoRepo(t, pc, l, r)
        PROVE  Only(t) /\ task'[t] = GoneAt(task[t], pc, l, r)
    <2>1. task'[t] = [task[t] EXCEPT !.pc = pc, !.land = l, !.repo = r]
      BY <1>1, <1>3 DEF GoRepo
    <2>2. Only(t)
      BY <1>3, OnlyGone
    <2>3. PICK y : y = task'[t]
      OBVIOUS
    <2> QED BY <1>1, <2>1, <2>2, <2>3 DEF GoneAt, Task
  <1>4. ASSUME NEW pc, NEW l, NEW S, GoTodo(t, pc, l, S)
        PROVE  Only(t) /\ task'[t] = GoneTo(task[t], pc, l, S)
    <2>1. task'[t] = [task[t] EXCEPT !.pc = pc, !.land = l, !.todo = S]
      BY <1>1, <1>4 DEF GoTodo
    <2>2. Only(t)
      BY <1>4, OnlyGone
    <2>3. PICK y : y = task'[t]
      OBVIOUS
    <2> QED BY <1>1, <2>1, <2>2, <2>3 DEF GoneTo, Task
  <1>5. Stop(t) => Only(t) /\ task'[t] = Idle
    BY <1>1, OnlyGone DEF Stop
  <1> QED BY <1>2, <1>3, <1>4, <1>5

LEMMA SaveIs ==
  ASSUME Inv, NEW w \in Workers, NEW l, Save(w, l), disk[w].land # None, disk[w].land.id = l.id
  PROVE  /\ \A v \in Workers : v # w => disk'[v] = disk[v]
         /\ disk'[w].phase = disk[w].phase /\ disk'[w].land = l
  <1>1. disk \in [Workers -> Record] /\ disk[w] \in Record
    BY DEF Inv, Records
  <1>2. disk' = [disk EXCEPT ![w].land = l]
    BY DEF Save, Ours
  <1> QED BY <1>1, <1>2 DEF Record

LEMMA TaskIs ==
  ASSUME Inv, NEW t \in Tasks, task[t].pc # "idle"
  PROVE  t[1] \in Workers /\ task[t].land \in LandState(t[1]) /\ task[t].land # None
         /\ task[t].repo \in Of[t[1]] \cup {None}
  BY TaskWorker, NoneAssumption DEF Inv, Hands, TaskOf, Whole

LEMMA RecordIs ==
  ASSUME Inv, NEW w \in Workers
  PROVE  /\ disk[w].phase \in Phases
         /\ disk[w].land = None \/ (disk[w].land \in LandState(w) /\ disk[w].land # None)
         /\ disk[w].phase = "landing" => disk[w].land # None
  BY NoneAssumption DEF Inv, Records, RecordOf

-------------------------------------------------------------------------------
(* What each step of a task does.                                           *)

LEMMA AlikeChecked ==
  ASSUME NEW w, NEW l, NEW m, Alike(w, l, m), OnlyChecked(w, l) PROVE OnlyChecked(w, m)
  BY DEF Alike, OnlyChecked

LEMMA CarriesOn ==
  ASSUME NEW w, NEW k, NEW l, NEW m, Carries(w, k, l), Alike(w, l, m) PROVE Carries(w, k, m)
  BY DEF Alike, Carries

LEMMA CarriesBoth ==
  ASSUME NEW w, NEW l, NEW k, NEW m, Alike(w, l, k), Alike(w, l, m) PROVE Carries(w, k, m)
  BY DEF Alike, Carries

\* A step that keeps what is landed: what is left to show of it.
LEMMA RunsIs ==
  ASSUME Inv, Control, NEW t \in Tasks, up, up', Only(t), NEW w, w = t[1],
         NEW x, x = task[t], NEW y, y = task'[t], NEW d, d = disk[w], NEW e, e = disk'[w],
         x.pc \notin {"idle", "drive", "log"},
         \A v \in Workers : v # w => disk'[v] = disk[v],
         \/ e.land = d.land /\ (y.pc \notin {"idle", "clean"} => x.pc \notin {"called", "clean"})
         \/ e.land = None /\ y.pc \in {"idle", "clean"}
         \/ x.pc # "clean" /\ e.land # None /\ Alike(w, x.land, e.land) /\ e.land.request = x.land.request,
         x.pc = "saveLanded" => e.land = x.land,
         Waits(e) => x.pc = "asked",
         y.pc # "idle" => Alike(w, x.land, y.land),
         y.pc # "idle" /\ x.pc # "ask" => y.land.request = x.land.request,
         y.pc = "asked" => x.pc = "ask",
         y.pc # "idle" => States_of(e, y) /\ Turn(t, e),
         y.pc \in {"cas", "log"} => e.land.state = "advancing" /\ e.land.repos[y.repo] = y.land.repos[y.repo],
         y.pc = "hold" /\ y.repo \in Of[w] => y.land.repos[y.repo].status # "landed",
         e.land # None /\ e.land.state \in {"locking", "checking"} => e.phase = "landing",
         e.land # None /\ e.land.state = "advancing" => e.phase \in {"landing", "landed"}
  PROVE  Runs(t)
  <1>1. w \in Workers /\ Copies(t, d, x) /\ Phased(w, d)
    BY TaskWorker DEF Control, Beside
  <1>2. OnlyChecked(w, x.land)
    BY <1>1 DEF Copies
  <1>3. Phased(w, e)
    <2>1. e.land # None => OnlyChecked(w, e.land)
      BY <1>1, <1>2, AlikeChecked DEF Phased
    <2> QED BY <2>1 DEF Phased
  <1>4. Turns(w, x, y, d, e)
    BY DEF Turns, Alike
  <1>5. ASSUME y.pc # "idle" PROVE Copies(t, e, y)
    <2>1. OnlyChecked(w, y.land)
      BY <1>2, <1>5, AlikeChecked
    <2>2. y.land.id = x.land.id
      BY <1>5 DEF Alike
    <2>3. e.land # None /\ e.land.id = y.land.id /\ y.pc # "clean" => Carries(w, e.land, y.land)
      <3>1. ASSUME e.land = d.land, e.land # None, e.land.id = y.land.id, y.pc # "clean"
            PROVE  Carries(w, e.land, y.land)
        <4>1. d.land # None /\ d.land.id = x.land.id /\ x.pc # "clean"
          BY <1>5, <2>2, <3>1 DEF Alike
        <4>2. Carries(w, d.land, x.land)
          BY <1>1, <4>1 DEF Copies
        <4> QED BY <1>5, <3>1, <4>2, CarriesOn
      <3>2. CASE e.land # d.land
        BY <1>5, <3>2, CarriesBoth
      <3> QED BY <1>5, <3>1, <3>2
    <2>4. y.pc \notin {"called", "clean"} => e.land # None /\ e.land.id = y.land.id
      BY <1>1, <1>5, <2>2 DEF Copies, Alike
    <2> QED BY <2>1, <2>3, <2>4 DEF Copies
  <1> QED BY <1>3, <1>4, <1>5 DEF Runs, Beside

LEMMA FailIs ==
  ASSUME Inv, NEW t \in Tasks, NEW w, w = t[1], NEW l \in LandState(w), Fail(t, l), NEW y, y = task'[t]
  PROVE  /\ Only(t) /\ y.pc \in {"refuse", "hold"} /\ Alike(w, l, y.land)
         /\ y.land.state = l.state /\ y.land.request = l.request
         /\ y.pc = "hold" /\ y.repo \in Of[w] => y.land.repos[y.repo].status # "landed"
  <1> DEFINE F  == [r \in Of[w] |-> IF l.repos[r].status \in {"landed", "tested"} THEN l.repos[r]
                                    ELSE [l.repos[r] EXCEPT !.tested = None, !.base_before = None]]
             m  == [l EXCEPT !.repos = F]
             stuck == {r \in unlanded(l) : l.repos[r].status # "tested"}
             at == IF unlanded(l) = {} THEN None
                   ELSE First(Folders, IF stuck # {} THEN stuck ELSE unlanded(l))
  <1>1. w \in Workers /\ DOMAIN l.repos = Of[w] /\ l.repos \in [Of[w] -> LandRepo] /\ Of[w] \subseteq Repos
    BY TaskWorker, OfRepos DEF LandState
  <1>2. CASE landed(l) = {}
    <2>1. Go(t, "refuse", l)
      BY <1>2 DEF Fail
    <2>2. Only(t) /\ y = Gone(task[t], "refuse", l)
      BY <2>1, GoIs
    <2> QED BY <2>2, AlikeSelf DEF Gone
  <1>3. CASE landed(l) # {}
    <2>1. GoRepo(t, "hold", m, at)
      BY <1>1, <1>3 DEF Fail
    <2>2. ASSUME NEW r \in Of[w] PROVE F[r].status = l.repos[r].status /\ F[r].pinned = l.repos[r].pinned
      <3>1. PICK f : f = l.repos[r] /\ f \in LandRepo
        BY <1>1
      <3>2. CASE f.status \in {"landed", "tested"}
        BY <3>1, <3>2
      <3>3. CASE f.status \notin {"landed", "tested"}
        <4>1. F[r] = [f EXCEPT !.tested = None, !.base_before = None]
          BY <3>1, <3>3
        <4> HIDE DEF F
        <4> QED BY <3>1, <4>1 DEF LandRepo
      <3> QED BY <3>2, <3>3
    <2>3. at \in Of[w] => F[at].status # "landed"
      <3>1. CASE unlanded(l) = {}
        <4>1. at = None
          BY <3>1
        <4> HIDE DEF at
        <4> QED BY <1>1, <4>1, NoneAssumption
      <3>2. CASE unlanded(l) # {}
        <4>1. unlanded(l) \in SUBSET Repos /\ stuck \in SUBSET Repos
          BY <1>1 DEF unlanded
        <4>2. at \in unlanded(l)
          BY <3>2, <4>1, FirstFolder
        <4>3. l.repos[at].status # "landed"
          BY <4>2 DEF unlanded, landed
        <4> HIDE DEF at, F
        <4> QED BY <2>2, <4>3
      <3> QED BY <3>1, <3>2
    <2> HIDE DEF F, at
    <2>4. Only(t) /\ y = GoneAt(task[t], "hold", m, at)
      BY <2>1, GoIs
    <2>5. m.repos = F /\ m.id = l.id /\ m.state = l.state /\ m.request = l.request
      BY <1>1, ReposIs
    <2>6. Alike(w, l, m)
      BY <2>2, <2>5 DEF Alike
    <2> HIDE DEF m
    <2> QED BY <2>3, <2>4, <2>5, <2>6 DEF GoneAt
  <1> QED BY <1>2, <1>3

\* A failure that leaves the record for the next step to write.
LEMMA FailRuns ==
  ASSUME Inv, Control, NEW t \in Tasks, up, up', disk' = disk, NEW w, w = t[1], NEW l \in LandState(w),
         task[t].pc \in InRun \ {"drive", "log", "saveLanded"}, Alike(w, task[t].land, l),
         l.request = task[t].land.request, Fail(t, l)
  PROVE  Runs(t)
  <1>1. PICK y : y = task'[t]
    OBVIOUS
  <1>2. /\ Only(t) /\ y.pc \in {"refuse", "hold"} /\ Alike(w, l, y.land) /\ y.land.request = l.request
        /\ y.pc = "hold" /\ y.repo \in Of[w] => y.land.repos[y.repo].status # "landed"
    BY <1>1, FailIs
  <1>3. Alike(w, task[t].land, y.land)
    BY <1>2, AlikeThrough
  <1>4. /\ w \in Workers /\ Phased(w, disk[w]) /\ Turn(t, disk[w]) /\ ~Waits(disk[w])
        /\ task[t].pc \notin {"idle", "called", "clean", "drive", "log", "saveLanded"}
    <2>1. w \in Workers /\ Phased(w, disk[w]) /\ Beside(t, disk[w], task[t])
      BY TaskWorker DEF Control, InRun
    <2> QED BY <2>1 DEF Beside, States_of, Going, Waits, InRun
  <1>5. States_of(disk[w], y)
    BY <1>2 DEF States_of, InRun
  <1> QED BY <1>1, <1>2, <1>3, <1>4, <1>5, RunsIs DEF Phased

LEMMA StartLandRuns == ASSUME Inv, Control, NEW t \in Tasks, StartLand(t) PROVE Runs(t)
  <1> DEFINE w == t[1]
             l == task[t].land
  <1>1. /\ up /\ up' /\ task[t].pc = "called"
        /\ IF Landable(w)
             THEN /\ disk' = [disk EXCEPT ![w] = [phase |-> "landing", land |-> l]]
                  /\ Go(t, IF AsksFirst /\ ~l.approved THEN "ask" ELSE "drive", l)
             ELSE Stop(t) /\ UNCHANGED disk
    BY DEF StartLand, At, land
  <1>2. /\ w \in Workers /\ l \in LandState(w) /\ l # None /\ disk \in [Workers -> Record]
        /\ Phased(w, disk[w]) /\ Beside(t, disk[w], task[t])
    BY <1>1, TaskIs DEF Control, Inv, Records
  <1>3. l.state = "locking"
    BY <1>1, <1>2 DEF Beside, States_of
  <1> HIDE DEF w, l
  <1>4. CASE Landable(w)
    <2>1. PICK p : p \in {"ask", "drive"} /\ Go(t, p, l)
      BY <1>1, <1>4
    <2>2. PICK y : y = task'[t]
      OBVIOUS
    <2>3. Only(t) /\ y.pc = p /\ y.land = l
      <3>1. Only(t) /\ y = Gone(task[t], p, l)
        BY <2>1, <2>2, GoIs
      <3> QED BY <3>1 DEF Gone
    <2>4. PICK e : e = disk'[w] /\ e.phase = "landing" /\ e.land = l /\ \A v \in Workers : v # w => disk'[v] = disk[v]
      BY <1>1, <1>2, <1>4
    <2>5. States_of(e, y) /\ Turn(t, e) /\ ~Waits(e)
      BY <1>3, <2>1, <2>3, <2>4 DEF States_of, InRun, Going, Turn, Waits
    <2>6. Alike(w, l, l)
      BY AlikeSelf
    <2>7. PICK x : x = task[t] /\ x.pc = "called" /\ x.land = l
      BY <1>1 DEF l
    <2>8. PICK d : d = disk[w]
      OBVIOUS
    <2> QED BY <1>1, <1>2, <1>3, <2>1, <2>2, <2>3, <2>4, <2>5, <2>6, <2>7, <2>8, RunsIs DEF w
  <1>5. CASE ~Landable(w)
    <2>1. Only(t) /\ task'[t].pc = "idle" /\ disk' = disk
      BY <1>1, <1>5, GoIs DEF Idle
    <2>2. ~Waits(disk[w])
      BY <1>1, <1>2 DEF Beside, States_of, Waits
    <2>3. PICK x : x = task[t] /\ x.pc = "called" /\ x.land = l
      BY <1>1 DEF l
    <2>4. PICK d : d = disk[w] /\ d = disk'[w]
      BY <2>1
    <2>5. PICK y : y = task'[t] /\ y.pc = "idle"
      BY <2>1
    <2> QED BY <1>1, <1>2, <2>1, <2>2, <2>3, <2>4, <2>5, RunsIs DEF w, Phased
  <1> QED BY <1>4, <1>5

LEMMA DriveRuns == ASSUME Inv, Control, NEW t \in Tasks, Drive(t) PROVE Runs(t)
  <1> DEFINE w == t[1]
             l == disk[w].land
  <1>1. /\ up /\ up' /\ task[t].pc = "drive" /\ disk' = disk
        /\ IF l # None /\ l.state = "locking"
             THEN task' = [task EXCEPT ![t] = [Idle EXCEPT !.pc = "lock", !.land = l, !.todo = unlanded(l)]]
             ELSE Stop(t)
    BY DEF Drive, At
  <1>2. /\ w \in Workers /\ Phased(w, disk[w]) /\ Beside(t, disk[w], task[t]) /\ task \in [Tasks -> Task]
    BY <1>1, TaskIs DEF Control, Inv, Hands
  <1>3. PICK y : y = task'[t]
    OBVIOUS
  <1>4. CASE l # None /\ l.state = "locking"
    <2>1. Only(t)
      BY <1>1, <1>4, OnlyWith
    <2>2. y.pc = "lock" /\ y.land = l /\ y.repo = None
      BY <1>1, <1>2, <1>3, <1>4 DEF Idle
    <2>3. Copies(t, disk[w], y)
      BY <1>2, <1>4, <2>2 DEF Copies, Phased, Carries
    <2>4. States_of(disk[w], y) /\ Turn(t, disk[w])
      BY <1>1, <1>2, <1>4, <2>2 DEF States_of, InRun, Beside
    <2>5. Turns(w, task[t], y, disk[w], disk[w])
      <3>1. task[t].land.id = y.land.id /\ ~Waits(disk[w])
        BY <1>1, <1>2, <2>2 DEF Beside, Copies, States_of, InRun, Going, Waits
      <3> QED BY <1>1, <1>2, <1>4, <2>2, <3>1 DEF Turns
    <2> QED BY <1>1, <1>2, <1>3, <2>1, <2>3, <2>4, <2>5 DEF Runs, Beside
  <1>5. CASE ~(l # None /\ l.state = "locking")
    <2>1. Only(t) /\ y = Idle
      BY <1>1, <1>3, <1>5, GoIs
    <2>2. Turns(w, task[t], y, disk[w], disk[w])
      <3>1. ~Waits(disk[w])
        BY <1>1, <1>2 DEF Beside, States_of, InRun, Going, Waits
      <3> QED BY <1>1, <2>1, <3>1 DEF Turns, Idle
    <2> QED BY <1>1, <1>2, <1>3, <2>1, <2>2 DEF Runs, Idle
  <1> QED BY <1>4, <1>5

LEMMA BusyIs ==
  ASSUME Inv, Control, NEW t \in Tasks, task[t].pc # "idle", NEW w, w = t[1],
         NEW x, x = task[t], NEW d, d = disk[w]
  PROVE  /\ w \in Workers /\ x.land \in LandState(w) /\ x.land # None /\ TaskOf(World, w, x)
         /\ x \in Task /\ Phased(w, d) /\ Copies(t, d, x) /\ States_of(d, x) /\ Turn(t, d)
         /\ x.pc \in InRun => /\ d.phase = "landing" /\ d.land.state \in Going /\ ~Waits(d)
                              /\ d.land # None /\ d.land.id = x.land.id
  <1>1. /\ w \in Workers /\ x.land \in LandState(w) /\ x.land # None /\ TaskOf(World, w, x)
        /\ x \in Task
    BY TaskIs DEF Inv, Hands
  <1>2. Phased(w, d) /\ Copies(t, d, x) /\ States_of(d, x) /\ Turn(t, d)
    BY <1>1 DEF Control, Beside
  <1>3. ASSUME x.pc \in InRun
        PROVE  /\ d.phase = "landing" /\ d.land.state \in Going /\ ~Waits(d)
               /\ d.land # None /\ d.land.id = x.land.id
    <2>1. d.phase = "landing" /\ d.land.state \in Going
      BY <1>2, <1>3 DEF States_of
    <2>2. d.land # None /\ d.land.id = x.land.id
      BY <1>2, <1>3 DEF Copies, InRun
    <2> QED BY <2>1, <2>2 DEF Going, Waits
  <1> QED BY <1>1, <1>2, <1>3

\* A step in a run that leaves worker.json alone.
LEMMA KeptRuns ==
  ASSUME Inv, Control, NEW t \in Tasks, up, up', Only(t), disk' = disk,
         NEW w, w = t[1], NEW x, x = task[t], NEW y, y = task'[t],
         x.pc \in InRun \ {"drive", "log", "saveLanded"}, Alike(w, x.land, y.land),
         x.pc # "ask" => y.land.request = x.land.request, y.pc = "asked" => x.pc = "ask",
         States_of(disk[w], y),
         y.pc \in {"cas", "log"} =>
           disk[w].land.state = "advancing" /\ disk[w].land.repos[y.repo] = y.land.repos[y.repo],
         y.pc = "hold" /\ y.repo \in Of[w] => y.land.repos[y.repo].status # "landed"
  PROVE  Runs(t)
  <1>1. x.pc \notin {"idle", "called", "clean", "drive", "log", "saveLanded"}
    BY DEF InRun
  <1>2. Phased(w, disk[w]) /\ Turn(t, disk[w]) /\ ~Waits(disk[w])
    BY <1>1, BusyIs
  <1> QED BY <1>1, <1>2, RunsIs DEF Phased

\* A step that saves a copy m to worker.json.
LEMMA SavedRuns ==
  ASSUME Inv, Control, NEW t \in Tasks, up, up', Only(t),
         NEW w, w = t[1], NEW x, x = task[t], NEW y, y = task'[t], NEW d, d = disk[w],
         x.pc \notin {"idle", "called", "clean", "drive", "log"},
         NEW m, Save(w, m), Alike(w, x.land, m), m.request = x.land.request, m # None,
         x.pc = "saveLanded" => m = x.land,
         Waits([phase |-> d.phase, land |-> m]) => x.pc = "asked",
         m.state \in {"locking", "checking"} => d.phase = "landing",
         m.state = "advancing" => d.phase \in {"landing", "landed"},
         y.pc # "idle" => /\ Alike(w, x.land, y.land) /\ y.land.request = x.land.request
                          /\ States_of([phase |-> d.phase, land |-> m], y)
                          /\ Turn(t, [phase |-> d.phase, land |-> m]),
         y.pc # "asked",
         y.pc \in {"cas", "log"} => m.state = "advancing" /\ m.repos[y.repo] = y.land.repos[y.repo],
         y.pc = "hold" /\ y.repo \in Of[w] => y.land.repos[y.repo].status # "landed"
  PROVE  Runs(t)
  <1>1. w \in Workers /\ d.land # None /\ d.land.id = m.id
    <2>1. w \in Workers /\ Copies(t, d, x)
      BY BusyIs
    <2> QED BY <2>1 DEF Copies, Alike
  <1>2. PICK e : e = disk'[w]
    OBVIOUS
  <1>3. e.phase = d.phase /\ e.land = m /\ \A v \in Workers : v # w => disk'[v] = disk[v]
    BY <1>1, <1>2, SaveIs
  <1>4. Waits(e) => x.pc = "asked"
    BY <1>3 DEF Waits
  <1>5. y.pc # "idle" => States_of(e, y) /\ Turn(t, e)
    BY <1>3 DEF States_of, Turn
  <1> QED BY <1>1, <1>2, <1>3, <1>4, <1>5, RunsIs

LEMMA LockRuns ==
  ASSUME Inv, Control, NEW t \in Tasks, TakeLock(t) \/ LockBusy(t) \/ Locked(t) PROVE Runs(t)
  <1> DEFINE w == t[1]
             l == task[t].land
  <1>1. up /\ up' /\ task[t].pc = "lock"
    BY DEF TakeLock, LockBusy, Locked, At
  <1>2. PICK x : x = task[t]
    OBVIOUS
  <1>3. PICK d : d = disk[w]
    OBVIOUS
  <1>4. /\ w \in Workers /\ l \in LandState(w) /\ l # None /\ d.phase = "landing" /\ d.land.state \in Going
        /\ d.land # None /\ d.land.id = l.id /\ l.state \in {"locking", "advancing"}
        /\ ~Waits(d) /\ Turn(t, d)
    BY <1>1, <1>2, <1>3, BusyIs DEF States_of, InRun
  <1>5. Alike(w, l, l)
    BY AlikeSelf
  <1>6. PICK y : y = task'[t]
    OBVIOUS
  <1>7. CASE TakeLock(t) \/ Locked(t)
    <2>1. \E S : \/ GoTodo(t, "lock", l, S)
                 \/ GoTodo(t, "prep", l, S)
      BY <1>7 DEF TakeLock, Locked, land
    <2>2. Only(t) /\ y.pc \in {"lock", "prep"} /\ y.land = l
      <3>1. \E S, p : p \in {"lock", "prep"} /\ Only(t) /\ y = GoneTo(task[t], p, l, S)
        BY <1>6, <2>1, GoIs
      <3> QED BY <3>1 DEF GoneTo
    <2>3. disk' = disk
      BY <1>7 DEF TakeLock, Locked
    <2>4. States_of(d, y)
      BY <1>4, <2>2 DEF States_of, InRun
    <2> QED BY <1>1, <1>2, <1>3, <1>5, <1>6, <2>2, <2>3, <2>4, KeptRuns DEF InRun
  <1>8. CASE LockBusy(t)
    <2>1. Save(w, l) /\ Go(t, "drive", l)
      BY <1>8 DEF LockBusy, land
    <2>2. Only(t) /\ y.pc = "drive" /\ y.land = l
      <3>1. Only(t) /\ y = Gone(task[t], "drive", l)
        BY <1>6, <2>1, GoIs
      <3> QED BY <3>1 DEF Gone
    <2>3. PICK e : e = [phase |-> d.phase, land |-> l]
      OBVIOUS
    <2>4. e.phase = "landing" /\ e.land = l
      BY <1>4, <2>3
    <2>5. States_of(e, y) /\ Turn(t, e) /\ ~Waits(e)
      BY <1>4, <2>2, <2>4 DEF States_of, InRun, Going, Turn, Waits
    <2> HIDE DEF w, l
    <2>6. x.land = l
      BY <1>2 DEF l
    <2> QED BY <1>1, <1>2, <1>3, <1>4, <1>5, <1>6, <2>1, <2>2, <2>3, <2>5, <2>6, SavedRuns DEF w
  <1> QED BY <1>7, <1>8

LEMMA PrepareRuns == ASSUME Inv, Control, NEW t \in Tasks, Prepare(t) PROVE Runs(t)
  <1> DEFINE w == t[1]
             l == task[t].land
             r == First(Folders, task[t].todo)
             f == l.repos[r]
             stands == f.status = "tested" /\ f.base_before = base[r]
  <1>1. /\ up /\ up' /\ task[t].pc = "prep" /\ task[t].todo # {} /\ disk' = disk
        /\ \/ GoTodo(t, "prep", IF stands THEN l ELSE SetRepo(l, r, step1(w, r, f)), task[t].todo \ {r})
           \/ Fail(t, l)
    BY DEF Prepare, At, land
  <1>2. PICK x : x = task[t]
    OBVIOUS
  <1>3. PICK d : d = disk[w]
    OBVIOUS
  <1>4. /\ w \in Workers /\ l \in LandState(w) /\ d.phase = "landing" /\ d.land.state \in Going
        /\ l.state \in {"locking", "advancing"} /\ TaskOf(World, w, x)
    BY <1>1, <1>2, <1>3, BusyIs DEF States_of, InRun
  <1>5. Alike(w, l, l)
    BY AlikeSelf
  <1>6. r \in task[t].todo /\ r \in Of[w] /\ f.status # "landed"
    <2>1. task[t].todo \subseteq unlanded(l) /\ unlanded(l) \subseteq Of[w] /\ Of[w] \subseteq Repos
      BY <1>1, <1>2, <1>4, OfRepos DEF TaskOf, unlanded, LandState
    <2>2. r \in task[t].todo
      BY <1>1, <2>1, FirstFolder
    <2> QED BY <2>1, <2>2 DEF unlanded, landed
  <1> HIDE DEF r
  <1>7. CASE Fail(t, l)
    BY <1>1, <1>4, <1>5, <1>7, FailRuns DEF InRun
  <1>8. CASE ~Fail(t, l)
    <2>1. PICK m : /\ m = IF stands THEN l ELSE SetRepo(l, r, step1(w, r, f))
                   /\ GoTodo(t, "prep", m, task[t].todo \ {r})
      BY <1>1, <1>8
    <2>2. Alike(w, l, m) /\ m.state = l.state /\ m.request = l.request
      <3>1. CASE m = l
        BY <1>5, <3>1
      <3>2. CASE m = SetRepo(l, r, step1(w, r, f))
        <4>1. PICK g : g = step1(w, r, f)
          OBVIOUS
        <4>2. g.pinned = f.pinned /\ g.status = "pending"
          <5>1. f \in LandRepo
            BY <1>4, <1>6 DEF LandState
          <5> HIDE DEF f
          <5> QED BY <4>1, <5>1 DEF step1, LandRepo
        <4>3. m = SetRepo(l, r, g) /\ g.pinned = l.repos[r].pinned /\ g.status = "pending"
              /\ l.repos[r].status # "landed"
          BY <1>6, <3>2, <4>1, <4>2
        <4>4. /\ g.pinned = l.repos[r].pinned
              /\ g.status = "landed" <=> l.repos[r].status = "landed"
              /\ g.status = "checking" => l.repos[r].status = "checking" \/ r \in Checked
          BY <4>3
        <4> HIDE DEF l, w
        <4> QED BY <1>4, <1>6, <4>3, <4>4, RepoIs
      <3> QED BY <2>1, <3>1, <3>2
    <2>3. PICK y : y = task'[t]
      OBVIOUS
    <2>4. Only(t) /\ y.pc = "prep" /\ y.land = m
      <3>1. Only(t) /\ y = GoneTo(task[t], "prep", m, task[t].todo \ {r})
        BY <2>1, <2>3, GoIs
      <3> QED BY <3>1 DEF GoneTo
    <2>5. States_of(d, y)
      BY <1>4, <2>2, <2>4 DEF States_of, InRun
    <2> QED BY <1>1, <1>2, <1>3, <2>2, <2>3, <2>4, <2>5, KeptRuns DEF InRun
  <1> QED BY <1>7, <1>8

LEMMA PreparedRuns == ASSUME Inv, Control, NEW t \in Tasks, Prepared(t) PROVE Runs(t)
  <1> DEFINE w == t[1]
             l == task[t].land
  <1>1. /\ up /\ up' /\ task[t].pc = "prep" /\ (disk' = disk \/ Save(w, l))
        /\ \E S : GoTodo(t, "check", l, S)
    BY DEF Prepared, At, land
  <1>2. PICK x : x = task[t]
    OBVIOUS
  <1>3. PICK d : d = disk[w]
    OBVIOUS
  <1>4. /\ w \in Workers /\ l \in LandState(w) /\ l # None /\ d.phase = "landing" /\ d.land.state \in Going
        /\ l.state \in {"locking", "advancing"}
    BY <1>1, <1>2, <1>3, BusyIs DEF States_of, InRun
  <1>5. Alike(w, l, l)
    BY AlikeSelf
  <1>6. PICK y : y = task'[t]
    OBVIOUS
  <1>7. Only(t) /\ y.pc = "check" /\ y.land = l
    <2>1. \E S : Only(t) /\ y = GoneTo(task[t], "check", l, S)
      BY <1>1, <1>6, GoIs
    <2> QED BY <2>1 DEF GoneTo
  <1>8. CASE disk' = disk
    <2>1. States_of(d, y)
      BY <1>4, <1>7 DEF States_of, InRun
    <2> QED BY <1>1, <1>2, <1>3, <1>5, <1>6, <1>7, <1>8, <2>1, KeptRuns DEF InRun
  <1>9. CASE Save(w, l)
    <2>1. PICK e : e = [phase |-> d.phase, land |-> l]
      OBVIOUS
    <2>2. e.phase = "landing" /\ e.land = l
      BY <1>4, <2>1
    <2>3. States_of(e, y) /\ Turn(t, e) /\ ~Waits(e)
      BY <1>4, <1>7, <2>2 DEF States_of, InRun, Going, Turn, Waits
    <2> HIDE DEF w, l
    <2>4. x.land = l
      BY <1>2 DEF l
    <2> QED BY <1>1, <1>2, <1>3, <1>4, <1>5, <1>6, <1>7, <1>9, <2>1, <2>3, <2>4, SavedRuns DEF w
  <1> QED BY <1>1, <1>8, <1>9

\* A repository of a copy takes another status.
LEMMA StatusIs ==
  ASSUME NEW w \in Workers, NEW l \in LandState(w), NEW r \in Of[w], NEW f, NEW m, m = SetRepo(l, r, f),
         f.pinned = l.repos[r].pinned, l.repos[r].status # "landed", f.status # "landed",
         f.status = "checking" => r \in Checked
  PROVE  /\ Alike(w, l, m) /\ m.id = l.id /\ m.state = l.state /\ m.request = l.request
         /\ m.repos[r] = f
  <1>1. /\ f.status = "landed" <=> l.repos[r].status = "landed"
        /\ f.status = "checking" => l.repos[r].status = "checking" \/ r \in Checked
    OBVIOUS
  <1> QED BY <1>1, RepoIs

LEMMA StartCheckRuns == ASSUME Inv, Control, NEW t \in Tasks, StartCheck(t) PROVE Runs(t)
  <1> DEFINE w == t[1]
             l == task[t].land
             r == First(Folders, task[t].todo)
             rest == task[t].todo \ {r}
             j == CHOOSE j \in FreshJobs(w) : TRUE
             one == [l.repos[r] EXCEPT !.status = "tested"]
             two == [l.repos[r] EXCEPT !.status = "checking", !.job = j]
  <1>1. /\ up /\ up' /\ task[t].pc = "check" /\ r \in task[t].todo /\ disk' = disk
        /\ \/ GoTodo(t, "check", SetRepo(l, r, one), rest)
           \/ r \in Checked /\ GoTodo(t, "check", SetRepo(l, r, two), rest)
           \/ Fail(t, l)
    BY TodoFirst DEF StartCheck, At, land
  <1>2. PICK x : x = task[t]
    OBVIOUS
  <1>3. PICK d : d = disk[w]
    OBVIOUS
  <1>4. /\ w \in Workers /\ l \in LandState(w) /\ d.phase = "landing" /\ d.land.state \in Going
        /\ l.state \in {"locking", "advancing"} /\ TaskOf(World, w, x)
    BY <1>1, <1>2, <1>3, BusyIs DEF States_of, InRun
  <1>5. r \in Of[w] /\ l.repos[r].status = "pending" /\ l.repos[r] \in LandRepo
    BY <1>1, <1>2, <1>4 DEF TaskOf, LandState
  <1>6. CASE Fail(t, l)
    BY <1>1, <1>4, <1>6, AlikeSelf, FailRuns DEF InRun
  <1>7. CASE ~Fail(t, l)
    <2>1. PICK f : /\ f = one \/ (f = two /\ r \in Checked)
                   /\ GoTodo(t, "check", SetRepo(l, r, f), rest)
      BY <1>1, <1>7
    <2>2. /\ f.pinned = l.repos[r].pinned /\ f.status # "landed"
          /\ f.status = "checking" => r \in Checked
      <3>1. one.pinned = l.repos[r].pinned /\ one.status = "tested"
        BY <1>5 DEF LandRepo
      <3>2. two.pinned = l.repos[r].pinned /\ two.status = "checking"
        BY <1>5 DEF LandRepo
      <3> HIDE DEF one, two
      <3> QED BY <2>1, <3>1, <3>2
    <2> HIDE DEF one, two, r, rest
    <2>3. PICK m : m = SetRepo(l, r, f)
      OBVIOUS
    <2>4. Alike(w, l, m) /\ m.state = l.state /\ m.request = l.request
      BY <1>4, <1>5, <2>2, <2>3, StatusIs
    <2>5. PICK y : y = task'[t]
      OBVIOUS
    <2>6. Only(t) /\ y.pc = "check" /\ y.land = m
      <3>1. Only(t) /\ y = GoneTo(task[t], "check", m, rest)
        BY <2>1, <2>3, <2>5, GoIs
      <3> QED BY <3>1 DEF GoneTo
    <2>7. States_of(d, y)
      BY <1>4, <2>4, <2>6 DEF States_of, InRun
    <2> QED BY <1>1, <1>2, <1>3, <2>4, <2>5, <2>6, <2>7, KeptRuns DEF InRun
  <1> QED BY <1>6, <1>7

LEMMA ChecksStartedRuns == ASSUME Inv, Control, NEW t \in Tasks, ChecksStarted(t) PROVE Runs(t)
  <1> DEFINE w == t[1]
             l == task[t].land
  <1>1. /\ up /\ up' /\ task[t].pc = "check"
        /\ \/ Save(w, [l EXCEPT !.state = "checking"]) /\ Stop(t)
           \/ Go(t, "gate", [l EXCEPT !.state = "advancing"]) /\ disk' = disk
    BY DEF ChecksStarted, At, land
  <1>2. PICK x : x = task[t]
    OBVIOUS
  <1>3. PICK d : d = disk[w]
    OBVIOUS
  <1>4. /\ w \in Workers /\ l \in LandState(w) /\ d.phase = "landing" /\ d.land.state \in Going
    BY <1>1, <1>2, <1>3, BusyIs DEF States_of, InRun
  <1>5. PICK y : y = task'[t]
    OBVIOUS
  <1>6. CASE Save(w, [l EXCEPT !.state = "checking"]) /\ Stop(t)
    <2>1. PICK m : m = [l EXCEPT !.state = "checking"]
      OBVIOUS
    <2>2. Alike(w, l, m) /\ m.state = "checking" /\ m.request = l.request
      BY <1>4, <2>1, StateIs
    <2>3. m # None
      <3>1. m \in LandState(w)
        BY <1>4, <2>1 DEF LandState, States
      <3> QED BY <1>4, <3>1, NoneAssumption
    <2>4. Only(t) /\ y.pc = "idle"
      BY <1>5, <1>6, GoIs DEF Idle
    <2>5. ~Waits([phase |-> d.phase, land |-> m])
      BY <2>2 DEF Waits
    <2>6. Save(w, m) /\ x.land = l
      BY <1>2, <1>6, <2>1
    <2> HIDE DEF w, l
    <2> QED BY <1>1, <1>2, <1>3, <1>4, <1>5, <2>2, <2>3, <2>4, <2>5, <2>6, SavedRuns DEF w
  <1>7. CASE Go(t, "gate", [l EXCEPT !.state = "advancing"]) /\ disk' = disk
    <2>1. PICK m : m = [l EXCEPT !.state = "advancing"]
      OBVIOUS
    <2>2. Alike(w, l, m) /\ m.state = "advancing" /\ m.request = l.request
      BY <1>4, <2>1, StateIs
    <2>3. Only(t) /\ y.pc = "gate" /\ y.land = m
      <3>1. Only(t) /\ y = Gone(task[t], "gate", m)
        BY <1>5, <1>7, <2>1, GoIs
      <3> QED BY <3>1 DEF Gone
    <2>4. States_of(d, y)
      BY <1>4, <2>2, <2>3 DEF States_of, InRun
    <2> QED BY <1>1, <1>2, <1>3, <1>5, <1>7, <2>2, <2>3, <2>4, KeptRuns DEF InRun
  <1> QED BY <1>1, <1>6, <1>7

LEMMA GateRuns == ASSUME Inv, Control, NEW t \in Tasks, Gate(t) PROVE Runs(t)
  <1> DEFINE w == t[1]
             l == task[t].land
             r == next_in_order(l)
             go == SetRepo(l, r, [l.repos[r] EXCEPT !.status = "advancing"])
  <1>1. /\ up /\ up' /\ task[t].pc = "gate"
        /\ \/ (Go(t, "finish", l) \/ Go(t, "ask", l)) /\ disk' = disk
           \/ Fail(t, l) /\ disk' = disk
           \/ /\ unlanded(l) # {} /\ Save(w, go)
              /\ IF Ours(w, l) THEN GoRepo(t, "cas", go, r) ELSE Fail(t, go)
    BY DEF Gate, At, land
  <1>2. PICK x : x = task[t]
    OBVIOUS
  <1>3. PICK d : d = disk[w]
    OBVIOUS
  <1>4. /\ w \in Workers /\ l \in LandState(w) /\ d.phase = "landing" /\ d.land.state \in Going
        /\ l.state = "advancing" /\ d.land # None /\ d.land.id = l.id /\ Turn(t, d)
    BY <1>1, <1>2, <1>3, BusyIs DEF TaskOf, InRun
  <1>5. Alike(w, l, l)
    BY AlikeSelf
  <1>6. PICK y : y = task'[t]
    OBVIOUS
  <1>7. CASE (Go(t, "finish", l) \/ Go(t, "ask", l)) /\ disk' = disk
    <2>1. Only(t) /\ y.pc \in {"finish", "ask"} /\ y.land = l
      <3>1. \E p \in {"finish", "ask"} : Only(t) /\ y = Gone(task[t], p, l)
        BY <1>6, <1>7, GoIs
      <3> QED BY <3>1 DEF Gone
    <2>2. States_of(d, y)
      BY <1>4, <2>1 DEF States_of, InRun
    <2> QED BY <1>1, <1>2, <1>3, <1>5, <1>6, <1>7, <2>1, <2>2, KeptRuns DEF InRun
  <1>8. CASE Fail(t, l) /\ disk' = disk
    BY <1>1, <1>4, <1>5, <1>8, FailRuns DEF InRun
  <1>9. CASE /\ unlanded(l) # {} /\ Save(w, go)
             /\ IF Ours(w, l) THEN GoRepo(t, "cas", go, r) ELSE Fail(t, go)
    <2>1. r \in unlanded(l) /\ r \in Of[w] /\ l.repos[r].status # "landed" /\ l.repos[r] \in LandRepo
      <3>1. r \in unlanded(l) /\ r \in Of[w]
        BY <1>4, <1>9, NextIn
      <3> QED BY <1>4, <3>1 DEF unlanded, landed, LandState
    <2> HIDE DEF r
    <2>2. PICK f : f = [l.repos[r] EXCEPT !.status = "advancing"]
      OBVIOUS
    <2>3. f.pinned = l.repos[r].pinned /\ f.status = "advancing"
      BY <2>1, <2>2 DEF LandRepo
    <2>4. PICK m : m = SetRepo(l, r, f)
      OBVIOUS
    <2>5. Save(w, m) /\ GoRepo(t, "cas", m, r)
      BY <1>3, <1>4, <1>9, <2>2, <2>4 DEF Ours
    <2>6. /\ Alike(w, l, m) /\ m.id = l.id /\ m.state = "advancing" /\ m.request = l.request
          /\ m.repos[r] = f
      BY <1>4, <2>1, <2>3, <2>4, StatusIs
    <2>7. m # None
      <3>1. m \in LandState(w)
        <4>1. f \in LandRepo
          BY <2>1, <2>2 DEF LandRepo, Statuses
        <4> QED BY <1>4, <2>1, <2>4, <4>1 DEF LandState, SetRepo
      <3> QED BY <1>4, <3>1, NoneAssumption
    <2>8. Only(t) /\ y.pc = "cas" /\ y.land = m /\ y.repo = r
      <3>1. Only(t) /\ y = GoneAt(task[t], "cas", m, r)
        BY <1>6, <2>5, GoIs
      <3> QED BY <3>1 DEF GoneAt
    <2>9. PICK e : e = [phase |-> d.phase, land |-> m]
      OBVIOUS
    <2>10. e.phase = "landing" /\ e.land = m
      BY <1>4, <2>9
    <2>11. States_of(e, y) /\ Turn(t, e) /\ ~Waits(e)
      BY <1>4, <2>6, <2>8, <2>10 DEF States_of, InRun, Going, Turn, Waits
    <2>12. x.land = l
      BY <1>2
    <2> HIDE DEF w, l
    <2> QED BY <1>1, <1>2, <1>3, <1>4, <1>6, <2>5, <2>6, <2>7, <2>8, <2>9, <2>11, <2>12, SavedRuns DEF w
  <1> QED BY <1>1, <1>7, <1>8, <1>9

LEMMA CasRuns == ASSUME Inv, Control, NEW t \in Tasks, Cas(t) PROVE Runs(t)
  <1> DEFINE w == t[1]
             l == task[t].land
             r == task[t].repo
             tried == [l.repos[r] EXCEPT !.attempts = @ + 1]
             again == [tried EXCEPT !.status = "pending"]
             z == [task[t] EXCEPT !.pc = "prep", !.todo = {r}, !.again = TRUE,
                                  !.land = SetRepo(l, r, again)]
  <1>1. /\ up /\ up' /\ task[t].pc = "cas" /\ disk' = disk
        /\ \/ Go(t, "log", l)
           \/ Go(t, "hold", SetRepo(l, r, tried)) \/ Go(t, "hold", l)
           \/ task' = [task EXCEPT ![t] = z]
           \/ Fail(t, l)
    BY DEF Cas, At, land
  <1>2. PICK x : x = task[t]
    OBVIOUS
  <1>3. PICK d : d = disk[w]
    OBVIOUS
  <1>4. /\ w \in Workers /\ l \in LandState(w) /\ d.phase = "landing" /\ d.land.state \in Going
        /\ l.state = "advancing" /\ r \in Of[w] /\ l.repos[r].status = "advancing"
        /\ d.land.state = "advancing" /\ d.land.repos[r] = l.repos[r] /\ l.repos[r] \in LandRepo
        /\ task[t] \in Task /\ DOMAIN task = Tasks
    <2>1. /\ w \in Workers /\ l \in LandState(w) /\ TaskOf(World, w, x) /\ Copies(t, d, x)
          /\ d.phase = "landing" /\ d.land.state \in Going
      BY <1>1, <1>2, <1>3, BusyIs DEF InRun
    <2>2. l.state = "advancing" /\ r \in Of[w] /\ l.repos[r].status = "advancing"
      BY <1>1, <1>2, <2>1 DEF TaskOf
    <2>3. d.land.state = "advancing" /\ d.land.repos[r] = l.repos[r] /\ l.repos[r] \in LandRepo
      BY <1>1, <1>2, <2>1, <2>2 DEF Copies, LandState
    <2> QED BY <2>1, <2>2, <2>3 DEF Inv, Hands
  <1>5. Alike(w, l, l)
    BY AlikeSelf
  <1>6. PICK f : f = tried
    OBVIOUS
  <1>7. f.pinned = l.repos[r].pinned /\ f.status = "advancing"
    BY <1>4, <1>6 DEF LandRepo
  <1>8. PICK g : g = again
    OBVIOUS
  <1>9. g.pinned = l.repos[r].pinned /\ g.status = "pending"
    BY <1>4, <1>8 DEF LandRepo
  <1>10. PICK y : y = task'[t]
    OBVIOUS
  <1>11. CASE Go(t, "log", l)
    <2>1. Only(t) /\ y.pc = "log" /\ y.land = l /\ y.repo = r
      <3>1. Only(t) /\ y = Gone(task[t], "log", l)
        BY <1>10, <1>11, GoIs
      <3> QED BY <3>1 DEF Gone
    <2>2. States_of(d, y)
      BY <1>4, <2>1 DEF States_of, InRun
    <2> QED BY <1>1, <1>2, <1>3, <1>4, <1>5, <1>10, <2>1, <2>2, KeptRuns DEF InRun
  <1>12. CASE Go(t, "hold", SetRepo(l, r, tried)) \/ Go(t, "hold", l)
    <2>1. PICK m : (m = l \/ m = SetRepo(l, r, f)) /\ Go(t, "hold", m)
      BY <1>6, <1>12
    <2>2. Alike(w, l, m) /\ m.request = l.request /\ m.repos[r].status # "landed"
      <3>1. CASE m = l
        BY <1>4, <1>5, <3>1
      <3>2. CASE m = SetRepo(l, r, f)
        <4>1. Alike(w, l, m) /\ m.request = l.request /\ m.repos[r] = f
          BY <1>4, <1>7, <3>2, StatusIs
        <4> QED BY <1>7, <4>1
      <3> QED BY <2>1, <3>1, <3>2
    <2>3. Only(t) /\ y.pc = "hold" /\ y.land = m /\ y.repo = r
      <3>1. Only(t) /\ y = Gone(task[t], "hold", m)
        BY <1>10, <2>1, GoIs
      <3> QED BY <3>1 DEF Gone
    <2>4. States_of(d, y)
      BY <2>3 DEF States_of, InRun
    <2> QED BY <1>1, <1>2, <1>3, <1>4, <1>10, <2>2, <2>3, <2>4, KeptRuns DEF InRun
  <1>13. CASE task' = [task EXCEPT ![t] = z]
    <2>1. PICK m : m = SetRepo(l, r, g)
      OBVIOUS
    <2>2. Alike(w, l, m) /\ m.state = "advancing" /\ m.request = l.request
      BY <1>4, <1>9, <2>1, StatusIs
    <2>3. z.pc = "prep" /\ z.land = m
      BY <1>4, <1>8, <2>1 DEF Task
    <2>4. y = z
      BY <1>4, <1>10, <1>13
    <2> HIDE DEF z
    <2>5. Only(t)
      BY <1>13, OnlyWith
    <2>6. States_of(d, y)
      BY <1>4, <2>2, <2>3, <2>4 DEF States_of, InRun
    <2> QED BY <1>1, <1>2, <1>3, <1>10, <2>2, <2>3, <2>4, <2>5, <2>6, KeptRuns DEF InRun
  <1>14. CASE Fail(t, l)
    BY <1>1, <1>4, <1>5, <1>14, FailRuns DEF InRun
  <1> QED BY <1>1, <1>11, <1>12, <1>13, <1>14

LEMMA LogRuns == ASSUME Inv, Control, NEW t \in Tasks, Log(t) PROVE Runs(t)
  <1> DEFINE w == t[1]
             l == task[t].land
             r == task[t].repo
  <1>1. /\ up /\ up' /\ task[t].pc = "log" /\ disk' = disk
        /\ Go(t, "saveLanded", SetRepo(l, r, [l.repos[r] EXCEPT !.status = "landed"]))
    BY DEF Log, At, land
  <1>2. PICK x : x = task[t]
    OBVIOUS
  <1>3. PICK d : d = disk[w]
    OBVIOUS
  <1>4. /\ w \in Workers /\ l \in LandState(w) /\ d.phase = "landing" /\ d.land.state \in Going
        /\ d.land # None /\ d.land.id = l.id /\ r \in Of[w] /\ l.repos[r] \in LandRepo
        /\ Phased(w, d) /\ Turn(t, d) /\ Carries(w, d.land, l) /\ OnlyChecked(w, l)
    <2>1. /\ w \in Workers /\ l \in LandState(w) /\ TaskOf(World, w, x) /\ Copies(t, d, x)
          /\ d.phase = "landing" /\ d.land.state \in Going /\ Phased(w, d) /\ Turn(t, d)
          /\ d.land # None /\ d.land.id = l.id
      BY <1>1, <1>2, <1>3, BusyIs DEF InRun
    <2>2. r \in Of[w]
      BY <1>1, <1>2, <2>1 DEF TaskOf
    <2>3. Carries(w, d.land, l) /\ OnlyChecked(w, l)
      BY <1>1, <1>2, <2>1 DEF Copies
    <2> QED BY <2>1, <2>2, <2>3 DEF LandState
  <1>5. PICK f : f = [l.repos[r] EXCEPT !.status = "landed"]
    OBVIOUS
  <1>6. f.pinned = l.repos[r].pinned /\ f.status = "landed"
    BY <1>4, <1>5 DEF LandRepo
  <1>7. PICK m : m = SetRepo(l, r, f)
    OBVIOUS
  <1>8. /\ m.id = l.id /\ m.request = l.request /\ m.repos[r] = f
        /\ \A q \in Of[w] : q # r => m.repos[q] = l.repos[q]
    <2> HIDE DEF l, r, w
    <2> QED BY <1>4, <1>7, RepoHas
  <1>9. PICK y : y = task'[t]
    OBVIOUS
  <1>10. Only(t) /\ y.pc = "saveLanded" /\ y.land = m
    <2>1. Only(t) /\ y = Gone(task[t], "saveLanded", m)
      BY <1>1, <1>5, <1>7, <1>9, GoIs
    <2> QED BY <2>1 DEF Gone
  <1>11. Carries(w, d.land, m) /\ OnlyChecked(w, m)
    BY <1>4, <1>6, <1>8 DEF Carries, OnlyChecked
  <1>12. Copies(t, d, y)
    BY <1>4, <1>8, <1>10, <1>11 DEF Copies
  <1>13. States_of(d, y)
    BY <1>4, <1>10 DEF States_of, InRun
  <1>14. ~Waits(d)
    BY <1>4 DEF Waits, Going
  <1>15. Turns(w, x, y, d, d)
    BY <1>1, <1>2, <1>8, <1>10, <1>14 DEF Turns
  <1> QED BY <1>1, <1>2, <1>3, <1>4, <1>9, <1>10, <1>12, <1>13, <1>15 DEF Runs, Beside

LEMMA SaveLandedRuns == ASSUME Inv, Control, NEW t \in Tasks, SaveLanded(t) PROVE Runs(t)
  <1> DEFINE w == t[1]
             l == task[t].land
             z == [task[t] EXCEPT !.pc = "gate", !.again = FALSE]
  <1>1. /\ up /\ up' /\ task[t].pc = "saveLanded" /\ Save(w, l) /\ task' = [task EXCEPT ![t] = z]
    BY DEF SaveLanded, At, land
  <1>2. PICK x : x = task[t]
    OBVIOUS
  <1>3. PICK d : d = disk[w]
    OBVIOUS
  <1>4. /\ w \in Workers /\ l # None /\ l.state = "advancing" /\ d.phase = "landing"
        /\ x \in Task /\ DOMAIN task = Tasks
    <2>1. w \in Workers /\ l # None /\ TaskOf(World, w, x) /\ d.phase = "landing" /\ x \in Task
      BY <1>1, <1>2, <1>3, BusyIs DEF InRun
    <2>2. l.state = "advancing"
      BY <1>1, <1>2, <2>1 DEF TaskOf
    <2> QED BY <2>1, <2>2 DEF Inv, Hands
  <1>5. PICK y : y = task'[t]
    OBVIOUS
  <1>6. y.pc = "gate" /\ y.land = l
    <2>1. z.pc = "gate" /\ z.land = l
      BY <1>2, <1>4 DEF Task
    <2> HIDE DEF z
    <2> QED BY <1>1, <1>4, <1>5, <2>1
  <1> HIDE DEF z
  <1>7. Only(t)
    BY <1>1, OnlyWith
  <1>8. PICK e : e = [phase |-> d.phase, land |-> l]
    OBVIOUS
  <1>9. e.phase = "landing" /\ e.land = l
    BY <1>4, <1>8
  <1>10. States_of(e, y) /\ Turn(t, e) /\ ~Waits(e)
    BY <1>4, <1>6, <1>9 DEF States_of, InRun, Going, Turn, Waits
  <1>11. x.land = l
    BY <1>2
  <1> HIDE DEF w, l
  <1> QED BY <1>1, <1>2, <1>3, <1>4, <1>5, <1>6, <1>7, <1>8, <1>10, <1>11, AlikeSelf, SavedRuns DEF w

LEMMA RefuseRuns == ASSUME Inv, Control, NEW t \in Tasks, Refuse(t) PROVE Runs(t)
  <1> DEFINE w == t[1]
             l == task[t].land
             gone == [phase |-> "reported", land |-> None]
  <1>1. /\ up /\ up' /\ task[t].pc = "refuse" /\ Go(t, "clean", l)
        /\ disk' = IF disk[w].phase = "landing" /\ Ours(w, l) THEN [disk EXCEPT ![w] = gone] ELSE disk
    BY DEF Refuse, At, land
  <1>2. PICK x : x = task[t]
    OBVIOUS
  <1>3. PICK d : d = disk[w]
    OBVIOUS
  <1>4. /\ w \in Workers /\ Phased(w, d) /\ Turn(t, d) /\ d.land # None /\ d.land.id = l.id
        /\ disk \in [Workers -> Record]
    <2>1. w \in Workers /\ Phased(w, d) /\ Turn(t, d) /\ Copies(t, d, x)
      BY <1>1, <1>2, <1>3, BusyIs
    <2> QED BY <1>1, <1>2, <2>1 DEF Copies, Inv, Records
  <1>5. PICK y : y = task'[t]
    OBVIOUS
  <1>6. Only(t) /\ y.pc = "clean" /\ y.land = l
    <2>1. Only(t) /\ y = Gone(task[t], "clean", l)
      BY <1>1, <1>5, GoIs
    <2> QED BY <2>1 DEF Gone
  <1>7. PICK e : e = disk'[w]
    OBVIOUS
  <1>8. /\ e = gone \/ (e = d /\ d.phase # "landing")
        /\ \A v \in Workers : v # w => disk'[v] = disk[v]
    BY <1>1, <1>3, <1>4, <1>7 DEF Ours
  <1>9. e.phase # "landing" /\ (e.land = None \/ e = d)
    BY <1>8
  <1> HIDE DEF gone
  <1>10. States_of(e, y) /\ Turn(t, e) /\ ~Waits(e)
    BY <1>4, <1>6, <1>9 DEF States_of, InRun, Turn, Waits
  <1>11. x.land = l /\ Alike(w, l, l)
    BY <1>2, AlikeSelf
  <1>12. /\ e.land # None /\ e.land.state \in {"locking", "checking"} => e.phase = "landing"
         /\ e.land # None /\ e.land.state = "advancing" => e.phase \in {"landing", "landed"}
    BY <1>4, <1>9 DEF Phased
  <1>13. e.land = d.land \/ (e.land = None /\ y.pc = "clean")
    BY <1>6, <1>9
  <1> HIDE DEF w, l
  <1> QED BY <1>1, <1>2, <1>3, <1>5, <1>6, <1>7, <1>8, <1>10, <1>11, <1>12, <1>13, RunsIs DEF w

LEMMA RefuseCleanRuns == ASSUME Inv, Control, NEW t \in Tasks, RefuseClean(t) PROVE Runs(t)
  <1>1. up /\ up' /\ task[t].pc = "clean" /\ disk' = disk /\ Only(t) /\ task'[t].pc = "idle"
    BY GoIs DEF RefuseClean, At, Idle
  <1>2. PICK w, x, y, d : w = t[1] /\ x = task[t] /\ y = task'[t] /\ d = disk[w]
    OBVIOUS
  <1>3. Phased(w, d) /\ ~Waits(d)
    BY <1>1, <1>2, BusyIs DEF States_of, Waits
  <1> QED BY <1>1, <1>2, <1>3, RunsIs DEF Phased

HeldAt(l, r) == [l EXCEPT !.state = "held", !.repos[r].status = "held"]

LEMMA HeldIs ==
  ASSUME NEW w \in Workers, NEW l \in LandState(w), NEW r \in Of[w] \cup {None},
         r \in Of[w] => l.repos[r].status # "landed",
         NEW m, m = HeldAt(l, r)
  PROVE  Alike(w, l, m) /\ m.id = l.id /\ m.state = "held" /\ m.request = l.request
  <1>1. /\ m.id = l.id /\ m.state = "held" /\ m.request = l.request
        /\ m.repos = [l.repos EXCEPT ![r].status = "held"]
    BY DEF LandState, HeldAt
  <1>2. l.repos \in [Of[w] -> LandRepo]
    BY DEF LandState
  <1>3. ASSUME NEW q \in Of[w]
        PROVE  /\ m.repos[q].pinned = l.repos[q].pinned
               /\ m.repos[q] = l.repos[q] \/ (m.repos[q].status = "held" /\ q = r)
    <2>1. CASE q # r
      BY <1>1, <1>2, <2>1
    <2>2. CASE q = r
      <3>1. m.repos[q] = [l.repos[q] EXCEPT !.status = "held"] /\ l.repos[q] \in LandRepo
        BY <1>1, <1>2, <2>2
      <3> QED BY <2>2, <3>1 DEF LandRepo
    <2> QED BY <2>1, <2>2
  <1> QED BY <1>1, <1>3 DEF Alike

LEMMA HoldRuns == ASSUME Inv, Control, NEW t \in Tasks, Hold(t) PROVE Runs(t)
  <1> DEFINE w == t[1]
             l == task[t].land
             r == task[t].repo
  <1>1. PICK m : /\ m = HeldAt(l, r)
                 /\ up /\ up' /\ task[t].pc = "hold" /\ Save(w, m) /\ Go(t, "holdClean", m)
    BY DEF Hold, At, land, HeldAt
  <1>2. PICK x : x = task[t]
    OBVIOUS
  <1>3. PICK d : d = disk[w]
    OBVIOUS
  <1>4. /\ w \in Workers /\ l \in LandState(w) /\ r \in Of[w] \cup {None}
        /\ r \in Of[w] => l.repos[r].status # "landed"
    <2>1. w \in Workers /\ l \in LandState(w) /\ TaskOf(World, w, x) /\ Copies(t, d, x)
      BY <1>1, <1>2, <1>3, BusyIs
    <2> QED BY <1>1, <1>2, <2>1 DEF Copies, TaskOf
  <1>5. Alike(w, l, m) /\ m.id = l.id /\ m.state = "held" /\ m.request = l.request
    <2> HIDE DEF l, r, w
    <2> QED BY <1>1, <1>4, HeldIs
  <1>6. PICK y : y = task'[t]
    OBVIOUS
  <1>7. Only(t) /\ y.pc = "holdClean" /\ y.land = m
    <2>1. Only(t) /\ y = Gone(task[t], "holdClean", m)
      BY <1>1, <1>6, GoIs
    <2> QED BY <2>1 DEF Gone
  <1>8. PICK e : e = [phase |-> d.phase, land |-> m]
    OBVIOUS
  <1>9. e.land = m
    BY <1>8
  <1>10. States_of(e, y) /\ Turn(t, e) /\ ~Waits(e)
    BY <1>5, <1>7, <1>9 DEF States_of, InRun, Turn, Waits
  <1>11. x.land = l /\ m # None
    <2>1. Inv'
      BY HoldStep
    <2>2. TaskOf(World', w, y)
      BY <1>6, <2>1 DEF Inv, Hands
    <2>3. m \in LandState(w)
      BY <1>7, <2>2 DEF TaskOf, Whole
    <2> QED BY <1>2, <1>4, <2>3, NoneAssumption
  <1> HIDE DEF w, l, r
  <1> QED BY <1>1, <1>2, <1>3, <1>5, <1>6, <1>7, <1>8, <1>10, <1>11, SavedRuns DEF w

LEMMA HoldCleanRuns == ASSUME Inv, Control, NEW t \in Tasks, HoldClean(t) PROVE Runs(t)
  <1> DEFINE w == t[1]
             l == task[t].land
  <1>1. up /\ up' /\ task[t].pc = "holdClean" /\ disk' = disk /\ Go(t, "holdSave", Cleaned(l))
    BY DEF HoldClean, At, land
  <1>2. PICK x, d : x = task[t] /\ d = disk[w]
    OBVIOUS
  <1>3. w \in Workers /\ l \in LandState(w) /\ Phased(w, d) /\ d.land.state = "held" /\ Turn(t, d)
    BY <1>1, <1>2, BusyIs DEF States_of
  <1>4. PICK m : m = Cleaned(l)
    OBVIOUS
  <1>5. Alike(w, l, m) /\ m.request = l.request
    BY <1>3, <1>4, CleanedIs
  <1>6. PICK y : y = task'[t]
    OBVIOUS
  <1>7. Only(t) /\ y.pc = "holdSave" /\ y.land = m
    <2>1. Only(t) /\ y = Gone(task[t], "holdSave", m)
      BY <1>1, <1>4, <1>6, GoIs
    <2> QED BY <2>1 DEF Gone
  <1>8. States_of(d, y) /\ ~Waits(d)
    BY <1>3, <1>7 DEF States_of, InRun, Waits
  <1>9. x.land = l
    BY <1>2
  <1> HIDE DEF w, l
  <1> QED BY <1>1, <1>2, <1>3, <1>5, <1>6, <1>7, <1>8, <1>9, RunsIs DEF w, Phased

LEMMA HoldSaveRuns == ASSUME Inv, Control, NEW t \in Tasks, HoldSave(t) PROVE Runs(t)
  <1>1. PICK w, x, y, d : w = t[1] /\ x = task[t] /\ y = task'[t] /\ d = disk[w]
    OBVIOUS
  <1>2. up /\ up' /\ x.pc = "holdSave" /\ Only(t) /\ y.pc = "idle" /\ Save(w, x.land)
    BY <1>1, GoIs DEF HoldSave, At, Idle, land
  <1>3. w \in Workers /\ x.land # None /\ x.land.state = "held"
    BY <1>1, <1>2, BusyIs DEF TaskOf, Holding
  <1>4. ~Waits([phase |-> d.phase, land |-> x.land])
    BY <1>3 DEF Waits
  <1> QED BY <1>1, <1>2, <1>3, <1>4, AlikeSelf, SavedRuns

LEMMA FinishRuns == ASSUME Inv, Control, NEW t \in Tasks, Finish(t) PROVE Runs(t)
  <1> DEFINE w == t[1]
             l == task[t].land
  <1>1. up /\ up' /\ task[t].pc = "finish" /\ disk' = disk /\ Go(t, "finishSave", Cleaned(l))
    BY DEF Finish, At, land
  <1>2. PICK x, d : x = task[t] /\ d = disk[w]
    OBVIOUS
  <1>3. /\ w \in Workers /\ l \in LandState(w) /\ l.state = "advancing"
        /\ d.phase = "landing" /\ d.land.state \in Going
    BY <1>1, <1>2, BusyIs DEF States_of, InRun
  <1>4. PICK m : m = Cleaned(l)
    OBVIOUS
  <1>5. Alike(w, l, m) /\ m.request = l.request /\ m.state = "advancing"
    BY <1>3, <1>4, CleanedIs
  <1>6. PICK y : y = task'[t]
    OBVIOUS
  <1>7. Only(t) /\ y.pc = "finishSave" /\ y.land = m
    <2>1. Only(t) /\ y = Gone(task[t], "finishSave", m)
      BY <1>1, <1>4, <1>6, GoIs
    <2> QED BY <2>1 DEF Gone
  <1>8. States_of(d, y)
    BY <1>3, <1>5, <1>7 DEF States_of, InRun
  <1>9. x.land = l
    BY <1>2
  <1> HIDE DEF w, l
  <1> QED BY <1>1, <1>2, <1>5, <1>6, <1>7, <1>8, <1>9, KeptRuns DEF w, InRun

LEMMA FinishSaveRuns == ASSUME Inv, Control, NEW t \in Tasks, FinishSave(t) PROVE Runs(t)
  <1> DEFINE w == t[1]
             l == task[t].land
  <1>1. PICK p \in {"unretire", "retire"} :
          up /\ up' /\ task[t].pc = "finishSave" /\ Save(w, l) /\ Go(t, p, l)
    BY DEF FinishSave, At, land
  <1>2. PICK x, d : x = task[t] /\ d = disk[w]
    OBVIOUS
  <1>3. w \in Workers /\ l # None /\ l.state = "advancing" /\ d.phase = "landing"
    BY <1>1, <1>2, BusyIs DEF States_of, InRun
  <1>4. PICK y : y = task'[t]
    OBVIOUS
  <1>5. Only(t) /\ y.pc = p /\ y.land = l
    <2>1. Only(t) /\ y = Gone(task[t], p, l)
      BY <1>1, <1>4, GoIs
    <2> QED BY <2>1 DEF Gone
  <1>6. PICK e : e = [phase |-> d.phase, land |-> l]
    OBVIOUS
  <1>7. e.phase = "landing" /\ e.land = l
    BY <1>3, <1>6
  <1>8. States_of(e, y) /\ Turn(t, e) /\ ~Waits(e)
    BY <1>1, <1>3, <1>5, <1>7 DEF States_of, InRun, Going, Turn, Waits
  <1>9. x.land = l
    BY <1>2
  <1> HIDE DEF w, l
  <1> QED BY <1>1, <1>2, <1>3, <1>4, <1>5, <1>6, <1>8, <1>9, AlikeSelf, SavedRuns DEF w

LEMMA landed_unretiredRuns == ASSUME Inv, Control, NEW t \in Tasks, landed_unretired(t) PROVE Runs(t)
  <1> DEFINE w == t[1]
             l == task[t].land
             m == [l EXCEPT !.state = "landed"]
             f == [phase |-> "reported", land |-> m]
  <1>1. /\ up /\ up' /\ task[t].pc = "unretire" /\ Stop(t)
        /\ disk' = IF disk[w].phase = "landing" /\ Ours(w, l) THEN [disk EXCEPT ![w] = f] ELSE disk
    BY DEF landed_unretired, At, land
  <1>2. PICK x, d, e, y : x = task[t] /\ d = disk[w] /\ e = disk'[w] /\ y = task'[t]
    OBVIOUS
  <1>3. /\ w \in Workers /\ l \in LandState(w) /\ d.phase = "landing" /\ d.land # None
        /\ d.land.id = l.id /\ disk \in [Workers -> Record]
    BY <1>1, <1>2, BusyIs DEF InRun, Inv, Records
  <1>4. /\ Alike(w, l, m) /\ m.state = "landed" /\ m.request = l.request /\ m # None
    <2>1. "landed" \in States
      BY DEF States
    <2>2. /\ Alike(w, l, m) /\ m.state = "landed" /\ m.request = l.request /\ m \in LandState(w)
      <3>1. m = [l EXCEPT !.state = "landed"]
        OBVIOUS
      <3> HIDE DEF m
      <3> QED BY <1>3, <2>1, <3>1, StateIs
    <2> HIDE DEF m
    <2> QED BY <1>3, <2>2, NoneAssumption
  <1>5. /\ e.phase = "reported" /\ e.land = m /\ \A v \in Workers : v # w => disk'[v] = disk[v]
    <2>1. e = f /\ \A v \in Workers : v # w => disk'[v] = disk[v]
      <3> HIDE DEF f
      <3> QED BY <1>1, <1>2, <1>3 DEF Ours
    <2> HIDE DEF m
    <2> QED BY <2>1
  <1>6. Only(t) /\ y.pc = "idle"
    BY <1>1, <1>2, GoIs DEF Idle
  <1>7. ~Waits(e) /\ x.land = l
    BY <1>2, <1>5 DEF Waits
  <1> HIDE DEF w, l, m
  <1> QED BY <1>1, <1>2, <1>4, <1>5, <1>6, <1>7, RunsIs DEF w

LEMMA RetireLandedRuns == ASSUME Inv, Control, NEW t \in Tasks, RetireLanded(t) PROVE Runs(t)
  <1> DEFINE w == t[1]
             l == task[t].land
  <1>1. /\ up /\ up' /\ task[t].pc = "retire"
        /\ \/ /\ disk' = IF disk[w].phase = "landing" THEN [disk EXCEPT ![w].phase = "landed"] ELSE disk
              /\ Go(t, "saveEnd", [l EXCEPT !.state = "landed"])
           \/ Save(w, [l EXCEPT !.state = "held"]) /\ Stop(t)
    BY DEF RetireLanded, At, land
  <1>2. PICK x, d, e, y : x = task[t] /\ d = disk[w] /\ e = disk'[w] /\ y = task'[t]
    OBVIOUS
  <1>3. /\ w \in Workers /\ l \in LandState(w) /\ l # None /\ d.phase = "landing" /\ d.land # None
        /\ d.land.state = "advancing" /\ disk \in [Workers -> Record]
    BY <1>1, <1>2, BusyIs DEF States_of, InRun, Inv, Records
  <1>4. x.land = l
    BY <1>2
  <1>5. CASE /\ disk' = IF disk[w].phase = "landing" THEN [disk EXCEPT ![w].phase = "landed"] ELSE disk
             /\ Go(t, "saveEnd", [l EXCEPT !.state = "landed"])
    <2>1. PICK m : m = [l EXCEPT !.state = "landed"]
      OBVIOUS
    <2>2. Alike(w, l, m) /\ m.state = "landed" /\ m.request = l.request
      BY <1>3, <2>1, StateIs
    <2>3. Only(t) /\ y.pc = "saveEnd" /\ y.land = m
      <3>1. Only(t) /\ y = Gone(task[t], "saveEnd", m)
        BY <1>2, <1>5, <2>1, GoIs
      <3> QED BY <3>1 DEF Gone
    <2>4. e.phase = "landed" /\ e.land = d.land /\ \A v \in Workers : v # w => disk'[v] = disk[v]
      BY <1>2, <1>3, <1>5 DEF Record
    <2>5. States_of(e, y) /\ Turn(t, e) /\ ~Waits(e)
      BY <1>3, <2>2, <2>3, <2>4 DEF States_of, InRun, Turn, Waits
    <2> HIDE DEF w, l
    <2> QED BY <1>1, <1>2, <1>3, <1>4, <2>2, <2>3, <2>4, <2>5, RunsIs DEF w
  <1>6. CASE Save(w, [l EXCEPT !.state = "held"]) /\ Stop(t)
    <2>1. PICK m : m = [l EXCEPT !.state = "held"]
      OBVIOUS
    <2>2. Alike(w, l, m) /\ m.state = "held" /\ m.request = l.request /\ m # None
      <3>1. "held" \in States
        BY DEF States
      <3>2. Alike(w, l, m) /\ m.state = "held" /\ m.request = l.request /\ m \in LandState(w)
        BY <1>3, <2>1, <3>1, StateIs
      <3> QED BY <1>3, <3>2, NoneAssumption
    <2>3. Only(t) /\ y.pc = "idle"
      BY <1>2, <1>6, GoIs DEF Idle
    <2>4. ~Waits([phase |-> d.phase, land |-> m])
      BY <2>2 DEF Waits
    <2>5. Save(w, m)
      BY <1>6, <2>1
    <2> HIDE DEF w, l
    <2> QED BY <1>1, <1>2, <1>3, <1>4, <2>2, <2>3, <2>4, <2>5, SavedRuns DEF w
  <1> QED BY <1>1, <1>5, <1>6

LEMMA SaveEndRuns == ASSUME Inv, Control, NEW t \in Tasks, SaveEnd(t) PROVE Runs(t)
  <1> DEFINE w == t[1]
             l == task[t].land
  <1>1. up /\ up' /\ task[t].pc = "saveEnd" /\ Save(w, l) /\ Go(t, "after", l)
    BY DEF SaveEnd, At, land
  <1>2. PICK x, d, y : x = task[t] /\ d = disk[w] /\ y = task'[t]
    OBVIOUS
  <1>3. w \in Workers /\ l # None /\ l.state = "landed" /\ d.phase = "landed"
    BY <1>1, <1>2, BusyIs DEF States_of
  <1>4. Only(t) /\ y.pc = "after" /\ y.land = l
    <2>1. Only(t) /\ y = Gone(task[t], "after", l)
      BY <1>1, <1>2, GoIs
    <2> QED BY <2>1 DEF Gone
  <1>5. PICK e : e = [phase |-> d.phase, land |-> l]
    OBVIOUS
  <1>6. e.phase = "landed" /\ e.land = l
    BY <1>3, <1>5
  <1>7. States_of(e, y) /\ Turn(t, e) /\ ~Waits(e)
    BY <1>3, <1>4, <1>6 DEF States_of, InRun, Turn, Waits
  <1>8. x.land = l
    BY <1>2
  <1> HIDE DEF w, l
  <1> QED BY <1>1, <1>2, <1>3, <1>4, <1>5, <1>7, <1>8, AlikeSelf, SavedRuns DEF w

LEMMA after_landRuns == ASSUME Inv, Control, NEW t \in Tasks, after_land(t) PROVE Runs(t)
  <1>1. up /\ up' /\ task[t].pc = "after" /\ disk' = disk /\ Only(t) /\ task'[t].pc = "idle"
    BY GoIs DEF after_land, At, Idle
  <1>2. PICK w, x, y, d : w = t[1] /\ x = task[t] /\ y = task'[t] /\ d = disk[w]
    OBVIOUS
  <1>3. Phased(w, d) /\ ~Waits(d)
    BY <1>1, <1>2, BusyIs DEF States_of, Waits
  <1> QED BY <1>1, <1>2, <1>3, RunsIs DEF Phased

LEMMA AskRuns == ASSUME Inv, Control, NEW t \in Tasks, Ask(t) PROVE Runs(t)
  <1> DEFINE w == t[1]
             l == task[t].land
  <1>1. PICK m, c : /\ up /\ up' /\ task[t].pc = "ask" /\ disk' = disk /\ m = AskedLand(l)
                    /\ Go(t, "asked", [m EXCEPT !.request = c]) \/ Fail(t, m)
    BY DEF Ask, At, land, AskedLand
  <1>2. PICK x, d, y : x = task[t] /\ d = disk[w] /\ y = task'[t]
    OBVIOUS
  <1>3. w \in Workers /\ l \in LandState(w) /\ d.phase = "landing" /\ d.land.state \in Going
    BY <1>1, <1>2, BusyIs DEF InRun
  <1>4. Alike(w, l, m) /\ m.request = l.request /\ m \in LandState(w)
    BY <1>1, <1>3, AskedIs
  <1>5. CASE Fail(t, m)
    BY <1>1, <1>3, <1>4, <1>5, FailRuns DEF InRun
  <1>6. CASE Go(t, "asked", [m EXCEPT !.request = c])
    <2>1. PICK k : k = [m EXCEPT !.request = c]
      OBVIOUS
    <2>2. Alike(w, l, k)
      <3>1. k.id = m.id /\ k.repos = m.repos
        BY <1>4, <2>1 DEF LandState
      <3> QED BY <1>4, <3>1 DEF Alike
    <2>3. Only(t) /\ y.pc = "asked" /\ y.land = k
      <3>1. Only(t) /\ y = Gone(task[t], "asked", k)
        BY <1>2, <1>6, <2>1, GoIs
      <3> QED BY <3>1 DEF Gone
    <2>4. States_of(d, y)
      BY <1>3, <2>3 DEF States_of, InRun
    <2>5. x.land = l
      BY <1>2
    <2> HIDE DEF w, l
    <2> QED BY <1>1, <1>2, <2>2, <2>3, <2>4, <2>5, KeptRuns DEF w, InRun
  <1> QED BY <1>1, <1>5, <1>6

LEMMA SaveAskRuns == ASSUME Inv, Control, NEW t \in Tasks, SaveAsk(t) PROVE Runs(t)
  <1>1. PICK w, x, y, d : w = t[1] /\ x = task[t] /\ y = task'[t] /\ d = disk[w]
    OBVIOUS
  <1>2. w \in Workers /\ d.land # None /\ d.land.id = x.land.id /\ x.land # None /\ d.phase = "landing"
    BY <1>1, BusyIs DEF SaveAsk, At, InRun
  <1>3. up /\ up' /\ x.pc = "asked" /\ Only(t) /\ y.pc = "idle" /\ Save(w, x.land)
    BY <1>1, <1>2, GoIs DEF SaveAsk, At, Idle, land, Ours
  <1> QED BY <1>1, <1>2, <1>3, AlikeSelf, SavedRuns

LEMMA TaskStepRuns == ASSUME Inv, Control, NEW t \in Tasks, TaskStep(t) PROVE Runs(t)
  BY StartLandRuns, DriveRuns, LockRuns, PrepareRuns, PreparedRuns, StartCheckRuns, ChecksStartedRuns,
     GateRuns, CasRuns, LogRuns, SaveLandedRuns, RefuseRuns, RefuseCleanRuns, HoldRuns, HoldCleanRuns,
     HoldSaveRuns, FinishRuns, FinishSaveRuns, landed_unretiredRuns, RetireLandedRuns, SaveEndRuns,
     after_landRuns, AskRuns, SaveAskRuns
  DEF TaskStep

LEMMA RunsControl == ASSUME Inv, Control, NEW t \in Tasks, Runs(t) PROVE Control'
  <1> DEFINE w == t[1]
  <1>1. w \in Workers /\ up' /\ task[t].pc # "idle" /\ \A s \in Tasks : s # t => task'[s] = task[s]
    BY TaskWorker DEF Runs, Only
  <1>2. ASSUME NEW s \in Tasks, s # t, task'[s].pc # "idle"
        PROVE  s[1] # w /\ s[1] \in Workers /\ task'[s] = task[s] /\ disk'[s[1]] = disk[s[1]]
               /\ Beside(s, disk[s[1]], task[s])
    <2>1. task'[s] = task[s]
      BY <1>1, <1>2
    <2>2. s[1] # w /\ s[1] \in Workers
      BY <1>1, <1>2, <2>1, TaskWorker DEF Control, Alone
    <2> QED BY <1>2, <2>1, <2>2 DEF Control, Runs
  <1>3. ASSUME NEW s \in Tasks, NEW u \in Tasks, s[1] = u[1], task'[s].pc # "idle", task'[u].pc # "idle"
        PROVE  s = u
    <2>1. CASE s = t \/ u = t
      BY <1>2, <1>3, <2>1
    <2>2. CASE s # t /\ u # t
      <3>1. task[s].pc # "idle" /\ task[u].pc # "idle"
        BY <1>2, <1>3, <2>2
      <3> QED BY <1>3, <3>1 DEF Control, Alone
    <2> QED BY <2>1, <2>2
  <1>4. ASSUME NEW v \in Workers PROVE Phased(v, disk'[v])
    BY DEF Runs, Control
  <1>5. ASSUME NEW s \in Tasks, task'[s].pc # "idle" PROVE Beside(s, disk'[s[1]], task'[s])
    BY <1>2, <1>5 DEF Runs
  <1> QED BY <1>1, <1>3, <1>4, <1>5 DEF Control, Alone, Beside, Copies, States_of, Turn, Phased

-------------------------------------------------------------------------------
(* Ids: a land is one worker's, wherever it is mentioned.                   *)

Uses(w, i) == \/ disk[w].land # None /\ disk[w].land.id = i
              \/ \E t \in Tasks : t[1] = w /\ task[t].pc # "idle" /\ task[t].land.id = i
              \/ \E e \in log : e.worker = w /\ e.land = i

Ids == /\ \A v, w \in Workers : \A i : Uses(v, i) /\ Uses(w, i) => v = w
       /\ \A w \in Workers : \A i : Uses(w, i) => i \in 1..seq

-------------------------------------------------------------------------------
(* The other steps keep Control.                                            *)

LEMMA StillControl == ASSUME Control, up' = up, task' = task, disk' = disk PROVE Control'
  <1>1. Alone' /\ (~up' => \A t \in Tasks : task'[t].pc = "idle")
    BY DEF Control, Alone
  <1>2. ASSUME NEW w \in Workers PROVE Phased(w, disk'[w])
    BY DEF Control
  <1>3. ASSUME NEW t \in Tasks, task'[t].pc # "idle" PROVE Beside(t, disk'[t[1]], task'[t])
    BY <1>3 DEF Control
  <1> QED BY <1>1, <1>2, <1>3 DEF Control, Beside, Copies, States_of, Turn, Phased

\* Task t starts for a worker of whom nothing runs.
Starts(t) ==
    LET w == t[1]  y == task'[t]  d == disk[w]  e == disk'[w] IN
    /\ up /\ up' /\ Only(t) /\ log' = log /\ base' = base
    /\ \A s \in Tasks : s[1] = w => task[s].pc = "idle"
    /\ \A v \in Workers : v # w => disk'[v] = disk[v]
    /\ Phased(w, e)
    /\ d.land # None => d.land.state # "advancing"
    /\ e.land # None <=> d.land # None
    /\ e.land # None => /\ e.land.id = d.land.id /\ e.land.request = d.land.request
                        /\ e.land.state # "advancing" /\ Carries(w, d.land, e.land)
    /\ Waits(e) => e = d /\ y.pc # "idle"
    /\ cards' \subseteq cards /\ \A c \in cards : c.worker # w => c \in cards'
    /\ y.pc # "idle" =>
         /\ y.pc \in {"called", "drive", "gate", "refuse", "hold"} /\ Beside(t, e, y)
         /\ y.land.request = None \/ (d.land # None /\ y.land.request = d.land.request)
         /\ \/ d.land # None /\ y.land.id = d.land.id /\ Carries(w, d.land, y.land)
            \/ y.land.id = seq + 1 /\ seq' = seq + 1
    /\ seq' \in {seq, seq + 1}

LEMMA StartsControl == ASSUME Inv, Control, NEW t \in Tasks, Starts(t) PROVE Control'
  <1>0. PICK w : w = t[1]
    OBVIOUS
  <1>5. /\ up /\ up' /\ Only(t) /\ \A s \in Tasks : s[1] = w => task[s].pc = "idle"
        /\ \A v \in Workers : v # w => disk'[v] = disk[v]
        /\ Phased(w, disk'[w]) /\ (task'[t].pc # "idle" => Beside(t, disk'[w], task'[t]))
    BY <1>0 DEF Starts
  <1>1. ASSUME NEW s \in Tasks, s # t, task'[s].pc # "idle"
        PROVE  s[1] # w /\ s[1] \in Workers /\ task'[s] = task[s] /\ disk'[s[1]] = disk[s[1]]
               /\ Beside(s, disk[s[1]], task[s])
    <2>1. task'[s] = task[s]
      BY <1>1, <1>5 DEF Only
    <2>2. s[1] # w /\ s[1] \in Workers
      BY <1>1, <1>5, <2>1, TaskWorker
    <2> QED BY <1>1, <1>5, <2>1, <2>2 DEF Control
  <1>2. ASSUME NEW s \in Tasks, NEW u \in Tasks, s[1] = u[1], task'[s].pc # "idle", task'[u].pc # "idle"
        PROVE  s = u
    <2>1. CASE s = t \/ u = t
      BY <1>0, <1>1, <1>2, <2>1
    <2>2. CASE s # t /\ u # t
      <3>1. task[s].pc # "idle" /\ task[u].pc # "idle"
        BY <1>1, <1>2, <2>2
      <3> QED BY <1>2, <3>1 DEF Control, Alone
    <2> QED BY <2>1, <2>2
  <1>3. ASSUME NEW v \in Workers PROVE Phased(v, disk'[v])
    BY <1>5 DEF Control
  <1>4. ASSUME NEW s \in Tasks, task'[s].pc # "idle" PROVE Beside(s, disk'[s[1]], task'[s])
    BY <1>0, <1>1, <1>4, <1>5
  <1> QED BY <1>2, <1>3, <1>4, <1>5 DEF Control, Alone, Beside, Copies, States_of, Turn, Phased

\* While the record waits on the human, only its card's run may be under way.
LEMMA NobodyElse ==
  ASSUME Control, NEW w \in Workers, Waits(disk[w]), task[<<w, "card">>].pc = "idle"
  PROVE  \A s \in Tasks : s[1] = w => task[s].pc = "idle"
  <1> SUFFICES ASSUME NEW s \in Tasks, s[1] = w, task[s].pc # "idle" PROVE FALSE
    OBVIOUS
  <1>1. s[2] = "card"
    BY DEF Control, Beside, Turn, Waits
  <1>2. s = <<w, "card">>
    BY <1>1 DEF Tasks
  <1> QED BY <1>2

LEMMA QuietIs ==
  ASSUME NEW w \in Workers, Quiet(w) PROVE \A s \in Tasks : s[1] = w => task[s].pc = "idle"
  BY DEF Quiet, Busy, Tasks

\* What hiveLand starts from, and how it stands to the record.
LEMMA StartIs ==
  ASSUME Inv, Ids, NEW w \in Workers, NEW pins, NEW order, NEW d, d = disk[w],
         NEW m, m = start_state(w, pins, order)
  PROVE  /\ m.state = "locking" /\ OnlyChecked(w, m)
         /\ d.land # None /\ d.land.id = m.id => Resumes(d.land, pins) /\ Carries(w, d.land, m)
         /\ m.id = IF Resumes(d.land, pins) THEN d.land.id ELSE seq + 1
         /\ m.request = None \/ (m.request = d.land.request /\ is_held(d.land))
  <1> DEFINE l    == disk[w].land
             res  == Resumes(l, pins)
             keep == IF res THEN {r \in Of[w] : l.repos[r].status = "landed" \/ l.repos[r].pinned = pins[r]}
                     ELSE {}
             F    == [r \in Of[w] |-> IF r \in keep THEN KeptRepo(l.repos[r]) ELSE NewRepo(pins[r])]
  <1>1. /\ m.id = (IF res THEN l.id ELSE seq + 1) /\ m.state = "locking" /\ m.repos = F
        /\ m.request = None \/ (m.request = l.request /\ res)
    BY DEF start_state
  <1>2. res => is_held(l) /\ l \in LandState(w)
    BY RecordIs DEF Resumes, is_held
  <1>3. ASSUME NEW r \in Of[w]
        PROVE  /\ F[r].status # "checking"
               /\ r \in keep /\ l.repos[r].status = "landed" => F[r] = l.repos[r]
    <2>1. CASE r \in keep
      <3>1. PICK e : e = l.repos[r] /\ e \in LandRepo
        BY <1>2, <2>1 DEF LandState
      <3>2. F[r] = KeptRepo(e)
        BY <2>1, <3>1
      <3>3. KeptRepo(e).status # "checking" /\ (e.status = "landed" => KeptRepo(e) = e)
        <4>1. CASE e.status = "landed"
          BY <4>1 DEF KeptRepo
        <4>2. CASE e.status # "landed"
          <5>1. PICK s : s \in {"tested", "pending"} /\ s = IF Reusable(e) THEN "tested" ELSE "pending"
            OBVIOUS
          <5>2. KeptRepo(e) = [e EXCEPT !.attempts = 0, !.job = None, !.status = s]
            BY <4>2, <5>1 DEF KeptRepo
          <5>3. KeptRepo(e).status = s
            BY <3>1, <5>2 DEF LandRepo
          <5> QED BY <4>2, <5>1, <5>3
        <4> QED BY <4>1, <4>2
      <3> HIDE DEF F, keep
      <3> QED BY <2>1, <3>1, <3>2, <3>3
    <2>2. CASE r \notin keep
      <3>1. F[r] = NewRepo(pins[r])
        BY <2>2
      <3> HIDE DEF F, keep
      <3> QED BY <2>2, <3>1 DEF NewRepo
    <2> QED BY <2>1, <2>2
  <1>4. OnlyChecked(w, m)
    <2> HIDE DEF F, keep
    <2> QED BY <1>1, <1>3 DEF OnlyChecked
  <1>5. ASSUME d.land # None, d.land.id = m.id PROVE res /\ Carries(w, d.land, m)
    <2>1. d.land.id \in Nat /\ seq \in Nat /\ d.land.id <= seq
      <3>1. Uses(w, d.land.id)
        BY <1>5 DEF Uses
      <3>2. d.land.id \in 1..MaxLands /\ seq \in 0..MaxLands
        BY <1>5, RecordIs DEF LandState, Inv, Counters
      <3> QED BY <3>1, <3>2 DEF Ids
    <2>2. res
      <3> HIDE DEF F, keep, res
      <3> QED BY <1>1, <1>5, <2>1
    <2>3. \A r \in Of[w] : l.repos[r].status = "landed" => r \in keep
      BY <2>2
    <2> HIDE DEF F, keep
    <2> QED BY <1>1, <1>3, <2>2, <2>3 DEF Carries
  <1> QED BY <1>1, <1>2, <1>4, <1>5

\* A task starts with what its worker's record has.
LEMMA StartsWith ==
  ASSUME NEW t \in Tasks, NEW w, w = t[1], NEW d, d = disk[w], NEW e, e = disk'[w], NEW y, y = task'[t],
         up, up', Only(t), log' = log, base' = base, seq' = seq,
         \A s \in Tasks : s[1] = w => task[s].pc = "idle",
         \A v \in Workers : v # w => disk'[v] = disk[v],
         cards' \subseteq cards, \A c \in cards : c.worker # w => c \in cards',
         Phased(w, e), d.land # None, d.land.state # "advancing", e.land # None,
         e.land.id = d.land.id, e.land.request = d.land.request, e.land.state # "advancing",
         Carries(w, d.land, e.land), Waits(e) => e = d,
         y.pc \in {"called", "drive", "gate", "refuse", "hold"}, Beside(t, e, y),
         y.land.request = d.land.request, y.land.id = d.land.id, Carries(w, d.land, y.land)
  PROVE  Starts(t)
  <1>1. y.pc # "idle"
    OBVIOUS
  <1> QED BY <1>1 DEF Starts

LEMMA CarriesSelf == \A w, l : Carries(w, l, l)
  BY DEF Carries

LEMMA CallStarts ==
  ASSUME OneRun, Inv, Control, Ids, NEW w \in Workers, NEW c \in Callers, Call(w, c),
         NEW t, t = <<w, c>>
  PROVE  t \in Tasks /\ Starts(t)
  <1>1. /\ t \in Tasks /\ t[1] = w /\ up /\ up' /\ Landable(w) /\ disk' = disk
        /\ log' = log /\ base' = base /\ cards' = cards
        /\ \A s \in Tasks : s[1] = w => task[s].pc = "idle"
    BY QuietIs DEF Call, At, OneRun, Tasks, Slots, env
  <1>2. PICK pins, order : /\ Go(t, "called", start_state(w, pins, order))
                           /\ seq' = IF Resumes(disk[w].land, pins) THEN seq ELSE seq + 1
    BY DEF Call
  <1>3. PICK m : m = start_state(w, pins, order)
    OBVIOUS
  <1>4. PICK d, y : d = disk[w] /\ y = task'[t]
    OBVIOUS
  <1>5. Only(t) /\ y.pc = "called" /\ y.land = m
    <2>1. Only(t) /\ y = Gone(task[t], "called", m)
      BY <1>1, <1>2, <1>3, <1>4, GoIs
    <2> QED BY <2>1 DEF Gone
  <1>6. /\ m.state = "locking" /\ OnlyChecked(w, m)
        /\ d.land # None /\ d.land.id = m.id => Resumes(d.land, pins) /\ Carries(w, d.land, m)
        /\ m.id = IF Resumes(d.land, pins) THEN d.land.id ELSE seq + 1
        /\ m.request = None \/ (m.request = d.land.request /\ is_held(d.land))
    BY <1>3, <1>4, StartIs
  <1>7. Phased(w, d) /\ (d.phase = "landing" => d.land.state = "held")
    BY <1>1, <1>4 DEF Control, Landable, is_held
  <1>8. d.land # None => d.land.state \notin {"checking", "advancing"}
    <2>1. d.phase = "landing" \/ d.phase = "reported"
      BY <1>1, <1>4 DEF Landable
    <2> QED BY <1>7, <2>1 DEF Phased
  <1>9. Beside(t, d, y)
    <2>1. Copies(t, d, y)
      BY <1>1, <1>5, <1>6 DEF Copies
    <2>2. States_of(d, y) /\ Turn(t, d)
      BY <1>5, <1>6, <1>7, <1>8 DEF States_of, InRun, Turn
    <2> QED BY <2>1, <2>2 DEF Beside
  <1>10. /\ \/ d.land # None /\ y.land.id = d.land.id /\ Carries(w, d.land, y.land)
            \/ y.land.id = seq + 1 /\ seq' = seq + 1
         /\ seq' \in {seq, seq + 1}
    <2>1. CASE Resumes(d.land, pins)
      <3>1. d.land # None
        BY <2>1 DEF Resumes, is_held
      <3> QED BY <1>2, <1>4, <1>5, <1>6, <2>1, <3>1
    <2>2. CASE ~Resumes(d.land, pins)
      BY <1>2, <1>4, <1>5, <1>6, <2>2
    <2> QED BY <2>1, <2>2
  <1>11. y.land.request = None \/ (d.land # None /\ y.land.request = d.land.request)
    BY <1>5, <1>6 DEF is_held
  <1>12. ~Waits(d) /\ disk'[w] = d
    BY <1>1, <1>4, <1>7 DEF Waits
  <1>13. Carries(w, d.land, d.land)
    BY CarriesSelf
  <1> QED BY <1>1, <1>4, <1>5, <1>7, <1>8, <1>9, <1>10, <1>11, <1>12, <1>13 DEF Starts

LEMMA MarkedIs ==
  ASSUME Inv, NEW e \in ends, MarkEnded(e)
  PROVE  LET q == e.job  w == q.worker  t == <<w, q.id>>  r == q.repo  d == disk[w] IN
         /\ w \in Workers /\ t \in Tasks /\ t[1] = w /\ t[2] \in JobIds /\ up /\ up' /\ log' = log
         /\ cards' = cards /\ base' = base
         /\ \/ disk' = disk /\ task' = task
            \/ \E m : /\ d.land # None /\ d.land.state = "checking" /\ r \in Of[w]
                      /\ d.land.repos[r].status = "checking" /\ d.land.repos[r].job = q.id
                      /\ disk' = [disk EXCEPT ![w].land = m]
                      /\ m.state = "checking" /\ m.id = d.land.id /\ m.request = d.land.request
                      /\ m.repos[r].status \in {"tested", "pending"} /\ m.repos[r].pinned = d.land.repos[r].pinned
                      /\ m \in LandState(w) /\ \A p \in Of[w] : p # r => m.repos[p] = d.land.repos[p]
                      /\ \/ Fail(t, m)
                         \/ /\ m.repos[r].status = "tested"
                            /\ \/ AllIn(m) /\ Go(t, "gate", [m EXCEPT !.state = "advancing"])
                               \/ task' = task
  <1> DEFINE q == e.job
             w == q.worker
             t == <<w, q.id>>
             r == q.repo
             d == disk[w].land
             f == [d.repos[r] EXCEPT !.status = IF e.passed THEN "tested" ELSE "pending"]
             m == SetRepo(d, r, f)
             hit == Recorded(q) /\ d.repos[r].status = "checking" /\ d.repos[r].job = q.id
  <1>1. /\ up /\ up' /\ log' = log /\ cards' = cards /\ base' = base
        /\ hit => /\ disk' = [disk EXCEPT ![w].land = m]
                  /\ \/ Fail(t, m)
                     \/ /\ e.passed
                        /\ \/ AllIn(m) /\ Go(t, "gate", [m EXCEPT !.state = "advancing"])
                           \/ task' = task
        /\ ~hit => disk' = disk /\ task' = task
    BY DEF MarkEnded, env
  <1>2. q \in JobSet /\ w \in Workers /\ t \in Tasks /\ t[1] = w /\ t[2] \in JobIds /\ r \in Of[w]
    BY DEF Inv, Queue, JobSet, Tasks, Slots
  <1>3. CASE hit
    <2>1. d # None /\ d.state = "checking" /\ d \in LandState(w) /\ d.repos[r] \in LandRepo
      BY <1>2, <1>3, RecordIs DEF Recorded, LandState
    <2>2. PICK g : g = f
      OBVIOUS
    <2>3. PICK s : /\ s \in {"tested", "pending"} /\ g = [d.repos[r] EXCEPT !.status = s]
                   /\ e.passed => s = "tested"
      BY <2>2
    <2>4. /\ g.status \in {"tested", "pending"} /\ (e.passed => g.status = "tested")
          /\ g.pinned = d.repos[r].pinned /\ g \in LandRepo
      BY <2>1, <2>3 DEF LandRepo, Statuses
    <2>5. PICK n : n = m
      OBVIOUS
    <2>6. n = SetRepo(d, r, g)
      BY <2>2, <2>5
    <2>7. /\ disk' = [disk EXCEPT ![w].land = n]
          /\ \/ Fail(t, n)
             \/ /\ e.passed
                /\ \/ AllIn(n) /\ Go(t, "gate", [n EXCEPT !.state = "advancing"])
                   \/ task' = task
      BY <1>1, <1>3, <2>5
    <2> HIDE DEF m, f
    <2>8. /\ n.id = d.id /\ n.state = d.state /\ n.request = d.request /\ n.repos[r] = g
          /\ \A p \in Of[w] : p # r => n.repos[p] = d.repos[p]
      <3> HIDE DEF d, r, w, t
      <3> QED BY <1>2, <2>1, <2>6, RepoHas
    <2>9. n \in LandState(w)
      BY <1>2, <2>1, <2>4, <2>6 DEF SetRepo, LandState
    <2> QED BY <1>1, <1>2, <1>3, <2>1, <2>4, <2>7, <2>8, <2>9
  <1>4. CASE ~hit
    BY <1>1, <1>2, <1>4
  <1> QED BY <1>3, <1>4

LEMMA MarkEndedStarts ==
  ASSUME OneRun, Inv, Control, NEW e \in ends, MarkEnded(e)
  PROVE  \/ task' = task /\ disk' = disk
         \/ <<e.job.worker, e.job.id>> \in Tasks /\ Starts(<<e.job.worker, e.job.id>>)
  <1> DEFINE q == e.job
             w == q.worker
             t == <<w, q.id>>
             r == q.repo
  <1>1. /\ w \in Workers /\ t \in Tasks /\ t[1] = w /\ t[2] \in JobIds /\ up /\ up'
        /\ \A j \in JobIds : <<w, j>> \in Tasks
        /\ "ends together" \in Races \/ \A j \in JobIds : task[<<w, j>>].pc = "idle"
    BY MarkedIs DEF MarkEnded, Tasks, Slots
  <1>2. PICK d : d = disk[w]
    OBVIOUS
  <1>3. CASE disk' = disk /\ task' = task
    BY <1>3
  <1>4. CASE ~(disk' = disk /\ task' = task)
    <2>1. PICK m : /\ d.land # None /\ d.land.state = "checking" /\ r \in Of[w]
                   /\ d.land.repos[r].status = "checking" /\ disk' = [disk EXCEPT ![w].land = m]
                   /\ m.state = "checking" /\ m.id = d.land.id /\ m.request = d.land.request
                   /\ m.repos[r].status \in {"tested", "pending"} /\ m.repos[r].pinned = d.land.repos[r].pinned
                   /\ m \in LandState(w) /\ \A p \in Of[w] : p # r => m.repos[p] = d.land.repos[p]
                   /\ \/ Fail(t, m)
                      \/ AllIn(m) /\ Go(t, "gate", [m EXCEPT !.state = "advancing"])
                      \/ task' = task
      BY <1>2, <1>4, MarkedIs
    <2>2. /\ Phased(w, d) /\ d.phase = "landing" /\ OnlyChecked(w, d.land) /\ r \in Checked
          /\ d.land \in LandState(w) /\ disk \in [Workers -> Record]
      BY <1>1, <1>2, <2>1, RecordIs DEF Control, Phased, OnlyChecked, Inv, Records
    <2>3. \A s \in Tasks : s[1] = w => task[s].pc = "idle"
      <3> SUFFICES ASSUME NEW s \in Tasks, s[1] = w, task[s].pc # "idle" PROVE FALSE
        OBVIOUS
      <3>1. Turn(s, d)
        BY <1>2 DEF Control, Beside
      <3>2. s[2] \in JobIds /\ s = <<w, s[2]>>
        <4>1. s[2] \in JobIds
          BY <2>1, <3>1 DEF Turn
        <4> HIDE DEF w
        <4>2. s = <<w, s[2]>>
          BY DEF Tasks
        <4> QED BY <4>1, <4>2
      <3>3. "ends together" \in Races
        BY <1>1, <3>2
      <3>4. AllIn(d.land)
        BY <2>1, <3>1, <3>3 DEF Turn
      <3> QED BY <2>1, <2>2, <3>4 DEF AllIn, LandState
    <2>4. OnlyChecked(w, m) /\ ("ends together" \in Races => AllIn(m))
      <3>1. OnlyChecked(w, m)
        BY <2>1, <2>2 DEF OnlyChecked
      <3>2. ASSUME "ends together" \in Races, NEW p \in Of[w], m.repos[p].status = "checking" PROVE FALSE
        <4>1. p # r /\ p \in Checked
          BY <2>1, <3>1, <3>2 DEF OnlyChecked
        <4>2. p \in Of[w] \cap Checked /\ r \in Of[w] \cap Checked
          BY <2>1, <2>2, <4>1
        <4> HIDE DEF w, r
        <4>3. p = r
          BY <1>1, <3>2, <4>2 DEF OneRun
        <4> QED BY <4>1, <4>3
      <3>3. DOMAIN m.repos = Of[w]
        BY <2>1 DEF LandState
      <3> QED BY <3>1, <3>2, <3>3 DEF AllIn
    <2>5. PICK k : k = disk'[w]
      OBVIOUS
    <2>6. k.phase = "landing" /\ k.land = m /\ \A v \in Workers : v # w => disk'[v] = disk[v]
      BY <1>1, <1>2, <2>1, <2>2, <2>5 DEF Record
    <2>7. m # None /\ Phased(w, k) /\ Turn(t, k)
      <3>1. m # None
        BY <1>1, <2>1, NoneAssumption
      <3> QED BY <1>1, <2>1, <2>4, <2>6, <3>1 DEF Phased, Turn
    <2>8. Carries(w, m, m) /\ Carries(w, d.land, m)
      BY <2>1 DEF Carries
    <2>9. PICK y : y = task'[t]
      OBVIOUS
    <2>0. w = t[1] /\ w \in Workers /\ t \in Tasks
      BY <1>1
    <2>13. /\ log' = log /\ base' = base /\ cards' = cards /\ seq' = seq /\ ~Waits(k)
           /\ d = disk[w] /\ k = disk'[w] /\ y = task'[t]
      BY <1>2, <2>1, <2>5, <2>6, <2>9 DEF MarkEnded, env, Waits
    <2> SUFFICES ASSUME TRUE PROVE t \in Tasks /\ Starts(t)
      OBVIOUS
    <2> HIDE DEF t, w, r
    <2>10. CASE Fail(t, m)
      <3>1. /\ Only(t) /\ y.pc \in {"refuse", "hold"} /\ Alike(w, m, y.land) /\ y.land.request = m.request
            /\ y.pc = "hold" /\ y.repo \in Of[w] => y.land.repos[y.repo].status # "landed"
        BY <2>0, <2>1, <2>9, <2>10, FailIs
      <3>2. /\ OnlyChecked(w, y.land) /\ Carries(w, m, y.land) /\ Carries(w, d.land, y.land)
            /\ y.land.id = m.id /\ y.land.request = m.request
        BY <2>4, <2>8, <3>1, AlikeChecked, CarriesOn DEF Alike
      <3>3. Copies(t, k, y)
        BY <1>1, <2>6, <2>7, <3>1, <3>2 DEF Copies
      <3>4. States_of(k, y)
        BY <3>1 DEF States_of, InRun
      <3>5. Beside(t, k, y)
        BY <2>7, <3>3, <3>4 DEF Beside
      <3>6. /\ y.pc \in {"called", "drive", "gate", "refuse", "hold"} /\ Beside(t, k, y)
            /\ y.land.request = d.land.request /\ y.land.id = d.land.id /\ Carries(w, d.land, y.land)
            /\ Only(t)
        BY <2>1, <3>1, <3>2, <3>5
      <3> QED BY <1>1, <2>0, <2>1, <2>3, <2>6, <2>7, <2>8, <2>13, <3>6, StartsWith
    <2>11. CASE AllIn(m) /\ Go(t, "gate", [m EXCEPT !.state = "advancing"])
      <3>1. PICK n : n = [m EXCEPT !.state = "advancing"]
        OBVIOUS
      <3>2. Alike(w, m, n) /\ n.id = m.id /\ n.request = m.request
        BY <2>0, <2>1, <3>1, StateIs
      <3>3. Only(t) /\ y.pc = "gate" /\ y.land = n
        <4>1. Only(t) /\ y = Gone(task[t], "gate", n)
          BY <1>1, <2>9, <2>11, <3>1, GoIs
        <4> QED BY <4>1 DEF Gone
      <3>4. OnlyChecked(w, n) /\ Carries(w, m, n) /\ Carries(w, d.land, n)
        BY <2>4, <2>8, <3>2, AlikeChecked, CarriesOn
      <3>5. Copies(t, k, y)
        BY <1>1, <2>6, <2>7, <3>2, <3>3, <3>4 DEF Copies
      <3>6. States_of(k, y)
        BY <2>1, <2>6, <3>3 DEF States_of, InRun, Going
      <3>7. Beside(t, k, y)
        BY <2>7, <3>5, <3>6 DEF Beside
      <3>8. /\ y.pc \in {"called", "drive", "gate", "refuse", "hold"} /\ Beside(t, k, y)
            /\ y.land.request = d.land.request /\ y.land.id = d.land.id /\ Carries(w, d.land, y.land)
            /\ Only(t)
        BY <2>1, <3>2, <3>3, <3>4, <3>7
      <3> QED BY <1>1, <2>0, <2>1, <2>3, <2>6, <2>7, <2>8, <2>13, <3>8, StartsWith
    <2>12. CASE task' = task
      <3>1. Only(t) /\ y.pc = "idle"
        BY <2>0, <2>3, <2>9, <2>12 DEF Only
      <3> QED BY <1>1, <2>0, <2>1, <2>3, <2>6, <2>7, <2>8, <2>13, <3>1 DEF Starts
    <2> QED BY <2>1, <2>10, <2>11, <2>12
  <1> QED BY <1>3, <1>4

-------------------------------------------------------------------------------
(* The human's answers, and the steps nothing of a land moves in.           *)

Rests ==
    /\ UNCHANGED <<up, disk, task, log, seq>>
    /\ \A r \in Repos : /\ base[r] \subseteq base'[r]
                        /\ \A w \in Workers : base'[r] \cap Work(w) = base[r] \cap Work(w)
    /\ cards' \subseteq cards
    /\ \A c \in cards : c \notin cards' =>
         /\ ~Fits(c)
         /\ "quick human" \notin Races => \A t \in Tasks : task[t].pc = "asked" => task[t].land.request # c.id

\* What an answered card finds.
LEMMA FitsIs ==
  ASSUME Inv, Control, NEW c \in cards, Fits(c), task[<<c.worker, "card">>].pc = "idle",
         NEW w, w = c.worker, NEW t, t = <<w, "card">>, NEW d, d = disk[w]
  PROVE  /\ w \in Workers /\ t \in Tasks /\ t[1] = w /\ t[2] = "card"
         /\ d.land \in LandState(w) /\ d.land # None /\ d.phase = "landing" /\ d.land.state = "awaiting_human"
         /\ OnlyChecked(w, d.land) /\ Phased(w, d)
         /\ \A s \in Tasks : s[1] = w => task[s].pc = "idle"
  <1>1. w \in Workers /\ t \in Tasks /\ t[1] = w /\ t[2] = "card"
    BY DEF Inv, Cards, CardOf, Tasks, Slots
  <1>2. d.land # None /\ d.phase = "landing" /\ d.land.state = "awaiting_human"
    BY DEF Fits, awaits_human
  <1>3. d.land \in LandState(w)
    BY <1>1, <1>2, RecordIs
  <1>4. OnlyChecked(w, d.land) /\ Phased(w, d)
    BY <1>1, <1>2 DEF Control, Phased
  <1>5. Waits(disk[w]) /\ task[<<w, "card">>].pc = "idle"
    BY <1>2 DEF Waits
  <1>6. \A s \in Tasks : s[1] = w => task[s].pc = "idle"
    BY <1>1, <1>5, NobodyElse
  <1> QED BY <1>1, <1>2, <1>3, <1>4, <1>6

\* An approval changes only what the human agreed to, and sets the land going.
LEMMA GoesOnIs ==
  ASSUME Inv, NEW w \in Workers, NEW l \in LandState(w), NEW d \in cards, d.worker = w,
         NEW m, m = GoesOn(l, Agreed(d, w, l))
  PROVE  /\ m.id = l.id /\ m.state = "locking" /\ m.request = l.request
         /\ Alike(w, l, m)
         /\ m.repos \in [Of[w] -> LandRepo]
         /\ \A r \in Of[w] : m.repos[r].status = l.repos[r].status
  <1> DEFINE F == Agreed(d, w, l)
  <1>1. ASSUME NEW r \in Of[w]
        PROVE  F[r] \in LandRepo /\ F[r].status = l.repos[r].status /\ F[r].pinned = l.repos[r].pinned
    <2>1. PICK e : e = l.repos[r] /\ e \in LandRepo
      BY DEF LandState
    <2>2. CASE r \in DOMAIN d.fps /\ d.fps[r] # <<>>
      <3>1. d.fps[r] \in Catches
        BY <2>2 DEF Inv, Cards, CardOf
      <3>2. PICK c : c = d.fps[r] /\ c \in Catches
        BY <3>1
      <3>3. F[r] = [e EXCEPT !.config_approved = c]
        BY <2>1, <2>2, <3>2 DEF Agreed
      <3> HIDE DEF F
      <3>4. PICK f : f = F[r]
        OBVIOUS
      <3>5. f \in LandRepo /\ f.status = e.status /\ f.pinned = e.pinned
        BY <2>1, <3>2, <3>3, <3>4 DEF LandRepo
      <3> QED BY <2>1, <3>4, <3>5
    <2>3. CASE ~(r \in DOMAIN d.fps /\ d.fps[r] # <<>>)
      <3>1. F[r] = e
        BY <2>1, <2>3 DEF Agreed
      <3> HIDE DEF F
      <3> QED BY <2>1, <3>1
    <2> QED BY <2>2, <2>3
  <1>2. F \in [Of[w] -> LandRepo]
    <2>1. F = [r \in Of[w] |-> F[r]]
      BY DEF Agreed
    <2> HIDE DEF F
    <2> QED BY <1>1, <2>1
  <1>3. m = GoesOn(l, F)
    OBVIOUS
  <1> HIDE DEF F
  <1>4. m.id = l.id /\ m.state = "locking" /\ m.request = l.request /\ m.repos = F
    <2>1. m = [id |-> l.id, state |-> "locking", repos |-> F, order |-> l.order,
               approved |-> TRUE, request |-> l.request]
      BY <1>3 DEF LandState, GoesOn
    <2> QED BY <2>1
  <1> QED BY <1>1, <1>2, <1>4 DEF Alike

LEMMA AnswerRests ==
  ASSUME Inv, NEW c \in cards, Answerable(c), ~Fits(c), cards' = cards \ {c},
         UNCHANGED <<up, base, disk, task, log, seq>>
  PROVE  Rests
  BY DEF Rests, Answerable, land

LEMMA ApproveStarts ==
  ASSUME Inv, Control, NEW c \in cards, Approve(c), NEW t, t = <<c.worker, "card">>
  PROVE  Rests \/ (t \in Tasks /\ Starts(t))
  <1>1. /\ cards' = cards \ {c} /\ Answerable(c)
        /\ UNCHANGED <<up, base, log, seq>>
    BY DEF Approve, env
  <1>2. CASE ~Fits(c)
    BY <1>1, <1>2, AnswerRests DEF Approve
  <1>3. CASE Fits(c)
    <2>1. PICK w, d : w = c.worker /\ d = disk[w]
      OBVIOUS
    <2>2. task[<<c.worker, "card">>].pc = "idle" /\ up
      BY <1>1 DEF Answerable
    <2>3. /\ w \in Workers /\ t \in Tasks /\ t[1] = w /\ t[2] = "card"
          /\ d.land \in LandState(w) /\ d.land # None /\ d.phase = "landing" /\ d.land.state = "awaiting_human"
          /\ OnlyChecked(w, d.land) /\ Phased(w, d)
          /\ \A s \in Tasks : s[1] = w => task[s].pc = "idle"
      BY <1>3, <2>1, <2>2, FitsIs
    <2>4. PICK m : m = GoesOn(d.land, Agreed(c, w, d.land))
      OBVIOUS
    <2>5. disk' = [disk EXCEPT ![w].land = m] /\ Go(t, "drive", m)
      <3>1. DOMAIN d.land.repos = Of[w]
        BY <2>3 DEF LandState
      <3> QED BY <1>3, <2>1, <2>4, <3>1 DEF Approve, Agreed, GoesOn
    <2>6. /\ m.id = d.land.id /\ m.state = "locking" /\ m.request = d.land.request
          /\ Alike(w, d.land, m)
      BY <2>1, <2>3, <2>4, GoesOnIs
    <2>7. m \in LandState(w) /\ m # None
      <3>1. Inv'
        BY ApproveStep
      <3>2. PICK y : y = task'[t]
        OBVIOUS
      <3>3. y = Gone(task[t], "drive", m)
        BY <2>3, <2>5, <3>2, GoIs
      <3>4. y.pc # "idle" /\ y.land = m
        BY <3>3 DEF Gone
      <3>5. task'[t].land \in LandState(w)
        BY <2>3, <3>1, <3>2, <3>4 DEF Inv, Hands, TaskOf, Whole
      <3> QED BY <2>3, <3>2, <3>4, <3>5, NoneAssumption
    <2>8. PICK e, y : e = disk'[w] /\ y = task'[t]
      OBVIOUS
    <2>9. e.phase = "landing" /\ e.land = m /\ \A v \in Workers : v # w => disk'[v] = disk[v]
      <3>1. disk \in [Workers -> Record] /\ d \in Record
        BY <2>1, <2>3 DEF Inv, Records
      <3> QED BY <2>1, <2>3, <2>5, <2>8, <3>1 DEF Record
    <2>10. Only(t) /\ y.pc = "drive" /\ y.land = m
      <3>1. Only(t) /\ y = Gone(task[t], "drive", m)
        BY <2>3, <2>5, <2>8, GoIs
      <3> QED BY <3>1 DEF Gone
    <2>11. OnlyChecked(w, m) /\ Carries(w, d.land, m) /\ Carries(w, m, m)
      BY <2>3, <2>6, AlikeChecked, CarriesOn, CarriesSelf
    <2>12. Phased(w, e) /\ ~Waits(e)
      BY <2>6, <2>9, <2>11 DEF Phased, Waits
    <2>13. Beside(t, e, y)
      <3>1. Copies(t, e, y)
        BY <2>3, <2>7, <2>9, <2>10, <2>11 DEF Copies
      <3>2. States_of(e, y) /\ Turn(t, e)
        BY <2>6, <2>9, <2>10 DEF States_of, InRun, Going, Turn
      <3> QED BY <3>1, <3>2 DEF Beside
    <2>14. /\ cards' \subseteq cards /\ \A k \in cards : k.worker # w => k \in cards'
           /\ up' /\ log' = log /\ base' = base /\ seq' = seq
      BY <1>1, <2>1, <2>2
    <2> QED BY <2>1, <2>2, <2>3, <2>6, <2>7, <2>8, <2>9, <2>10, <2>11, <2>12, <2>13, <2>14, StartsWith
  <1> QED BY <1>2, <1>3

LEMMA DenyStarts ==
  ASSUME Inv, Control, NEW c \in cards, Deny(c), NEW t, t = <<c.worker, "card">>
  PROVE  Rests \/ (t \in Tasks /\ Starts(t))
  <1>1. /\ cards' = cards \ {c} /\ Answerable(c)
        /\ UNCHANGED <<up, base, disk, log, seq>>
        /\ IF Fits(c) THEN Fail(<<c.worker, "card">>, disk[c.worker].land) ELSE task' = task
    BY DEF Deny, env
  <1>2. CASE ~Fits(c)
    BY <1>1, <1>2, AnswerRests
  <1>3. CASE Fits(c)
    <2>1. PICK w, d : w = c.worker /\ d = disk[w]
      OBVIOUS
    <2>2. task[<<c.worker, "card">>].pc = "idle" /\ up
      BY <1>1 DEF Answerable
    <2>3. /\ w \in Workers /\ t \in Tasks /\ t[1] = w /\ t[2] = "card"
          /\ d.land \in LandState(w) /\ d.land # None /\ d.phase = "landing" /\ d.land.state = "awaiting_human"
          /\ OnlyChecked(w, d.land) /\ Phased(w, d)
          /\ \A s \in Tasks : s[1] = w => task[s].pc = "idle"
      BY <1>3, <2>1, <2>2, FitsIs
    <2>4. PICK y : y = task'[t]
      OBVIOUS
    <2>5. /\ Only(t) /\ y.pc \in {"refuse", "hold"} /\ Alike(w, d.land, y.land)
          /\ y.land.request = d.land.request
          /\ y.pc = "hold" /\ y.repo \in Of[w] => y.land.repos[y.repo].status # "landed"
      BY <1>1, <1>3, <2>1, <2>3, <2>4, FailIs
    <2>6. OnlyChecked(w, y.land) /\ Carries(w, d.land, d.land) /\ Carries(w, d.land, y.land) /\ y.land.id = d.land.id
      <3>1. Carries(w, d.land, d.land)
        BY CarriesSelf
      <3>2. OnlyChecked(w, y.land) /\ Carries(w, d.land, y.land)
        BY <2>3, <2>5, <3>1, AlikeChecked, CarriesOn
      <3> QED BY <2>5, <3>1, <3>2 DEF Alike
    <2>7. Beside(t, d, y)
      <3>1. Copies(t, d, y)
        BY <2>3, <2>5, <2>6 DEF Copies
      <3>2. States_of(d, y) /\ Turn(t, d)
        BY <2>3, <2>5 DEF States_of, InRun, Turn
      <3> QED BY <3>1, <3>2 DEF Beside
    <2>8. /\ cards' \subseteq cards /\ \A k \in cards : k.worker # w => k \in cards'
          /\ up' /\ log' = log /\ base' = base /\ seq' = seq /\ d = disk'[w]
          /\ \A v \in Workers : v # w => disk'[v] = disk[v]
      BY <1>1, <2>1, <2>2
    <2> QED BY <2>1, <2>2, <2>3, <2>4, <2>5, <2>6, <2>7, <2>8, StartsWith
  <1> QED BY <1>2, <1>3

LEMMA CheckEndsRests == ASSUME NEW q \in jobs, CheckEnds(q) PROVE Rests
  BY DEF CheckEnds, Rests, env

LEMMA WorkerCommitRests == ASSUME NEW w \in Workers, NEW r \in Repos, WorkerCommit(w, r) PROVE Rests
  BY DEF WorkerCommit, Rests

LEMMA HumanCommitRests == ASSUME Inv, NEW r \in Repos, HumanCommit(r) PROVE Rests
  <1>1. PICK n \in 1..MaxHuman : base' = [base EXCEPT ![r] = @ \cup {<<Human, n>>}]
    BY DEF HumanCommit
  <1>2. base \in [Repos -> Commits]
    BY DEF Inv, Trees
  <1>3. ASSUME NEW q \in Repos
        PROVE  base[q] \subseteq base'[q] /\ \A w \in Workers : base'[q] \cap Work(w) = base[q] \cap Work(w)
    <2>1. base'[q] = base[q] \/ base'[q] = base[q] \cup {<<Human, n>>}
      BY <1>1, <1>2
    <2>2. \A w \in Workers : <<Human, n>> \notin Work(w)
      <3>1. Human \notin Workers
        BY LandAssumption
      <3>2. \A w \in Workers : w # Human
        BY <3>1
      <3> QED BY <3>2 DEF Work
    <2> QED BY <2>1, <2>2
  <1> QED BY <1>3 DEF Rests, HumanCommit

LEMMA StutterRests == ASSUME UNCHANGED vars PROVE Rests
  BY DEF vars, Rests

LEMMA MarkEndedRests ==
  ASSUME NEW e \in ends, MarkEnded(e), task' = task, disk' = disk PROVE Rests
  BY DEF MarkEnded, Rests, env

LEMMA RestsControl == ASSUME Control, Rests PROVE Control'
  BY StillControl DEF Rests

-------------------------------------------------------------------------------
(* A worker's land withdrawn, and maiTerm's end and start.                  *)

Withdraws(w) ==
    LET d == disk[w]  e == disk'[w] IN
    /\ up /\ up' /\ UNCHANGED <<base, task, log, seq>>
    /\ \A v \in Workers : v # w => disk'[v] = disk[v]
    /\ d.phase = "reported" \/ (d.phase = "landing" /\ d.land.state \in {"held", "awaiting_human"})
    /\ e.phase \in {"reported", "retired"}
    /\ e.land # None <=> d.land # None
    /\ d.land # None => /\ e.land.id = d.land.id /\ e.land.repos = d.land.repos
                        /\ e.land.request = d.land.request
                        /\ e.land.state = d.land.state \/ (d.land.state = "awaiting_human" /\ e.land.state = "held")
    /\ cards' \subseteq cards
    /\ \A c \in cards : c \notin cards' => d.land # None /\ c.id = d.land.request

LEMMA WithdrawIs ==
  ASSUME Inv, NEW w \in Workers, Report(w) \/ Retire(w) PROVE Withdraws(w)
  <1> DEFINE l == disk[w].land
             m == hold_if_partial(l)
  <1>1. PICK p \in {"reported", "retired"} : up /\ Withdraw(w, p) /\ (disk[w].phase = "reported" \/ held(w))
    BY DEF Report, Retire
  <1>2. /\ disk' = [disk EXCEPT ![w] = [phase |-> p, land |-> m]]
        /\ cards' = IF awaits_human(l) THEN {d \in cards : d.id # l.request} ELSE cards
        /\ up /\ up' /\ UNCHANGED <<base, task, log, seq>>
    BY <1>1 DEF Withdraw, env
  <1>3. disk \in [Workers -> Record] /\ (l = None \/ (l # None /\ l \in LandState(w)))
    BY RecordIs DEF Inv, Records
  <1>4. /\ m # None <=> l # None
        /\ l # None => /\ m.id = l.id /\ m.repos = l.repos /\ m.request = l.request
                       /\ m.state = l.state \/ (l.state = "awaiting_human" /\ m.state = "held")
    <2>1. CASE m = l
      BY <2>1
    <2>2. CASE m # l
      <3>1. awaits_human(l) /\ m = [l EXCEPT !.state = "held"]
        BY <2>2 DEF hold_if_partial
      <3>2. l \in LandState(w) /\ l # None /\ l.state = "awaiting_human" /\ "held" \in States
        BY <1>3, <3>1 DEF awaits_human, States
      <3> HIDE DEF m, l
      <3>3. m.id = l.id /\ m.repos = l.repos /\ m.request = l.request /\ m.state = "held" /\ m \in LandState(w)
        BY <3>1, <3>2, StateIs
      <3> QED BY <3>2, <3>3, NoneAssumption
    <2> QED BY <2>1, <2>2
  <1> HIDE DEF m
  <1>5. PICK e : e = disk'[w]
    OBVIOUS
  <1>6. e.phase = p /\ e.land = m /\ \A v \in Workers : v # w => disk'[v] = disk[v]
    BY <1>2, <1>3, <1>5
  <1>7. disk[w].phase = "reported" \/ (disk[w].phase = "landing" /\ l.state \in {"held", "awaiting_human"})
    BY <1>1 DEF held, is_held, awaits_human
  <1>8. /\ cards' \subseteq cards
        /\ \A c \in cards : c \notin cards' => l # None /\ c.id = l.request
    BY <1>2 DEF awaits_human
  <1> QED BY <1>2, <1>4, <1>5, <1>6, <1>7, <1>8 DEF Withdraws

\* Who may be under way while a worker's land is held, waits or was withdrawn.
LEMMA WithdrawFinds ==
  ASSUME Control, NEW w \in Workers, Withdraws(w), NEW t \in Tasks, t[1] = w, task[t].pc # "idle"
  PROVE  task[t].pc \notin InRun \cup {"saveEnd", "after"}
  <1>1. States_of(disk[w], task[t]) /\ Phased(w, disk[w])
    BY DEF Control, Beside
  <1> QED BY <1>1 DEF States_of, Withdraws, InRun, Going

LEMMA WithdrawControl ==
  ASSUME Inv, Control, NEW w \in Workers, Withdraws(w) PROVE Control'
  <1>1. PICK d, e : d = disk[w] /\ e = disk'[w]
    OBVIOUS
  <1>2. Phased(w, d) /\ (d.land # None => d.land.state \notin {"locking", "checking", "advancing"})
    <2>1. Phased(w, d)
      BY <1>1 DEF Control
    <2> QED BY <1>1, <2>1 DEF Withdraws, Phased
  <1>3. /\ e.phase \in {"reported", "retired"} /\ (e.land # None <=> d.land # None)
        /\ d.land # None => /\ e.land.id = d.land.id /\ e.land.repos = d.land.repos
                            /\ e.land.state = d.land.state \/ (d.land.state = "awaiting_human" /\ e.land.state = "held")
        /\ up /\ up' /\ task' = task /\ \A v \in Workers : v # w => disk'[v] = disk[v]
    BY <1>1 DEF Withdraws
  <1>4. Phased(w, e)
    BY <1>2, <1>3 DEF Phased, OnlyChecked
  <1>5. ASSUME NEW t \in Tasks, t[1] = w, task[t].pc # "idle" PROVE Beside(t, e, task[t])
    <2>1. PICK x : x = task[t]
      OBVIOUS
    <2>2. x.pc \notin InRun \cup {"saveEnd", "after"} /\ Copies(t, d, x) /\ States_of(d, x)
      BY <1>1, <1>5, <2>1, WithdrawFinds DEF Control, Beside
    <2>3. Copies(t, e, x)
      BY <1>3, <1>5, <2>2 DEF Copies, Carries, InRun
    <2>4. States_of(e, x)
      <3>1. /\ x.pc = "called" => x.land.state = "locking"
            /\ x.pc \in {"holdClean", "holdSave"} => d.land # None /\ d.land.state = "held"
        BY <2>2 DEF States_of, Copies
      <3> QED BY <1>3, <2>2, <3>1 DEF States_of, InRun
    <2>5. Turn(t, e)
      BY <1>2, <1>3 DEF Turn
    <2> QED BY <2>1, <2>3, <2>4, <2>5 DEF Beside
  <1>6. Alone' /\ \A v \in Workers : Phased(v, disk'[v])
    BY <1>1, <1>3, <1>4 DEF Control, Alone
  <1>7. ASSUME NEW t \in Tasks, task'[t].pc # "idle" PROVE Beside(t, disk'[t[1]], task'[t])
    <2>1. CASE t[1] = w
      BY <1>1, <1>3, <1>5, <1>7, <2>1
    <2>2. CASE t[1] # w
      <3>1. Beside(t, disk[t[1]], task[t])
        BY <1>3, <1>7 DEF Control
      <3> QED BY <1>3, <2>2, <3>1, TaskWorker
    <2> QED BY <2>1, <2>2
  <1> QED BY <1>3, <1>6, <1>7 DEF Control, Beside, Copies, States_of, Turn, Phased

LEMMA CrashControl == ASSUME Control, Crash PROVE Control'
  <1>1. /\ \A t \in Tasks : task'[t].pc = "idle"
        /\ \A w \in Workers : Phased(w, disk'[w])
    BY DEF Crash, Idle, Control
  <1> QED BY <1>1 DEF Control, Alone, Phased

\* What reconcile makes of a land.
LEMMA ReconcileIs ==
  ASSUME NEW w \in Workers, NEW l \in LandState(w), NEW m, m = reconcile(l)
  PROVE  /\ m.id = l.id /\ m.state = "held" /\ m.request = l.request
         /\ \A r \in Of[w] :
              /\ m.repos[r].pinned = l.repos[r].pinned /\ m.repos[r].status # "checking"
              /\ m.repos[r].status = "landed" <=>
                   l.repos[r].status = "landed" \/ (l.repos[r].status = "advancing" /\ InBase(l.repos[r], r))
  <1> DEFINE G(e, r) == CASE e.status = "advancing" -> [e EXCEPT !.status = IF InBase(e, r) THEN "landed" ELSE "tested"]
                          [] e.status = "checking"  -> [e EXCEPT !.status = "pending", !.job = None]
                          [] OTHER -> e
             F == [r \in Of[w] |-> G(l.repos[r], r)]
  <1>1. m = [l EXCEPT !.state = "held", !.repos = F]
    BY DEF reconcile, LandState
  <1>2. ASSUME NEW r \in Of[w]
        PROVE  /\ F[r].pinned = l.repos[r].pinned /\ F[r].status # "checking"
               /\ F[r].status = "landed" <=>
                    l.repos[r].status = "landed" \/ (l.repos[r].status = "advancing" /\ InBase(l.repos[r], r))
    <2>1. PICK e : e = l.repos[r] /\ e \in LandRepo
      BY DEF LandState
    <2>2. PICK f : f = F[r]
      OBVIOUS
    <2>3. f = G(e, r)
      BY <2>1, <2>2
    <2> HIDE DEF F
    <2>4. CASE e.status = "advancing"
      <3>1. PICK s : s = IF InBase(e, r) THEN "landed" ELSE "tested"
        OBVIOUS
      <3>2. f = [e EXCEPT !.status = s]
        BY <2>3, <2>4, <3>1
      <3>3. f.status = s /\ f.pinned = e.pinned
        BY <2>1, <3>2 DEF LandRepo
      <3> QED BY <2>1, <2>2, <2>4, <3>1, <3>3
    <2>5. CASE e.status = "checking"
      <3>1. f = [e EXCEPT !.status = "pending", !.job = None]
        BY <2>3, <2>5
      <3>2. f.status = "pending" /\ f.pinned = e.pinned
        BY <2>1, <3>1 DEF LandRepo
      <3> QED BY <2>1, <2>2, <2>5, <3>2
    <2>6. CASE e.status \notin {"advancing", "checking"}
      <3>1. f = e
        BY <2>3, <2>6
      <3> QED BY <2>1, <2>2, <2>6, <3>1
    <2> QED BY <2>4, <2>5, <2>6
  <1> HIDE DEF F
  <1>3. m.id = l.id /\ m.state = "held" /\ m.request = l.request /\ m.repos = F
    BY <1>1 DEF LandState
  <1> QED BY <1>2, <1>3

\* What a start makes of worker w's record.
Reconciled(w, d, e) ==
    /\ e.phase = d.phase
    /\ \/ e = d /\ ~Interrupted(w)
       \/ /\ Interrupted(w) /\ d.phase = "landing" /\ d.land # None /\ d.land.state # "awaiting_human"
          /\ d.land \in LandState(w) /\ e.land = reconcile(d.land) /\ e.land # None

LEMMA RestartIs ==
  ASSUME Inv, Restart, NEW w \in Workers PROVE Reconciled(w, disk[w], disk'[w])
  <1>1. disk' = [v \in Workers |->
                     IF Interrupted(v) THEN [disk[v] EXCEPT !.land = reconcile(@)] ELSE disk[v]]
    BY DEF Restart
  <1>2. PICK d, e : d = disk[w] /\ e = disk'[w]
    OBVIOUS
  <1>3. d \in Record /\ (d.land = None \/ (d.land \in LandState(w) /\ d.land # None)) /\ (d.phase = "landing" => d.land # None)
    BY <1>2, RecordIs DEF Inv, Records
  <1>4. CASE ~Interrupted(w)
    BY <1>1, <1>2, <1>4 DEF Reconciled
  <1>5. CASE Interrupted(w)
    <2>1. d.phase = "landing" /\ d.land # None /\ d.land.state # "awaiting_human" /\ d.land \in LandState(w)
      BY <1>2, <1>3, <1>5 DEF Interrupted, in_progress
    <2>2. e = [d EXCEPT !.land = reconcile(d.land)]
      BY <1>1, <1>2, <1>5
    <2>3. PICK m : m = reconcile(d.land)
      OBVIOUS
    <2>4. e.land = m /\ e.phase = d.phase
      BY <1>3, <2>2, <2>3 DEF Record
    <2>5. m # None
      <3>1. Inv'
        BY RestartStep
      <3>2. e.phase = "landing" => e.land # None
        BY <1>2, <3>1 DEF Inv, Records, RecordOf
      <3> QED BY <2>1, <2>4, <3>2
    <2> QED BY <1>2, <1>5, <2>1, <2>3, <2>4, <2>5 DEF Reconciled
  <1> QED BY <1>4, <1>5

LEMMA RestartControl == ASSUME Inv, Control, Restart PROVE Control'
  <1>1. \A t \in Tasks : task'[t].pc = "idle"
    BY DEF Restart, Control
  <1>2. ASSUME NEW w \in Workers PROVE Phased(w, disk'[w])
    <2>1. PICK d, e : d = disk[w] /\ e = disk'[w]
      OBVIOUS
    <2>2. Reconciled(w, d, e) /\ Phased(w, d)
      BY <2>1, RestartIs DEF Control
    <2>3. CASE e = d
      BY <2>1, <2>2, <2>3
    <2>4. CASE e # d
      <3>1. PICK m : m = reconcile(d.land)
        OBVIOUS
      <3>2. e.land = m /\ d.land \in LandState(w)
        BY <2>2, <2>4, <3>1 DEF Reconciled
      <3>3. m.state = "held" /\ \A r \in Of[w] : m.repos[r].status # "checking"
        BY <3>1, <3>2, ReconcileIs
      <3> QED BY <2>1, <3>2, <3>3 DEF Phased, OnlyChecked
    <2> QED BY <2>3, <2>4
  <1>3. up'
    BY DEF Restart
  <1> QED BY <1>1, <1>2, <1>3 DEF Control, Alone, Phased

LEMMA InitControl == ASSUME Init PROVE Control
  BY DEF Init, Control, Alone, Idle, Phased

-------------------------------------------------------------------------------
(* What a task's step leaves alone.                                         *)

LEMMA TaskStepKeeps ==
  ASSUME NEW t \in Tasks, TaskStep(t)
  PROVE  /\ seq' = seq /\ crashes' = crashes
         /\ log' = log \/ Log(t)
         /\ base' = base \/ Cas(t)
         /\ cards' = cards \/ Ask(t) \/ SaveAsk(t)
  <1>1. CASE StartLand(t) \/ Drive(t) \/ TakeLock(t) \/ LockBusy(t) \/ Locked(t)
    BY <1>1 DEF StartLand, Drive, TakeLock, LockBusy, Locked, env
  <1>2. CASE Prepare(t) \/ Prepared(t) \/ StartCheck(t) \/ ChecksStarted(t) \/ Gate(t)
    BY <1>2 DEF Prepare, Prepared, StartCheck, ChecksStarted, Gate, env
  <1>3. CASE Cas(t) \/ Log(t) \/ SaveLanded(t) \/ Refuse(t) \/ RefuseClean(t)
    BY <1>3 DEF Cas, Log, SaveLanded, Refuse, RefuseClean, env
  <1>4. CASE Hold(t) \/ HoldClean(t) \/ HoldSave(t) \/ Finish(t) \/ FinishSave(t)
    BY <1>4 DEF Hold, HoldClean, HoldSave, Finish, FinishSave, env
  <1>5. CASE landed_unretired(t) \/ RetireLanded(t) \/ SaveEnd(t) \/ after_land(t)
    BY <1>5 DEF landed_unretired, RetireLanded, SaveEnd, after_land, env
  <1>6. CASE Ask(t) \/ SaveAsk(t)
    BY <1>6 DEF Ask, SaveAsk, env
  <1> QED BY <1>1, <1>2, <1>3, <1>4, <1>5, <1>6 DEF TaskStep

\* The line a run writes of what it just landed.
Line(w, l, r) == [land |-> l.id, repo |-> r, worker |-> w,
                  pinned |-> l.repos[r].pinned, tested |-> l.repos[r].tested]

LEMMA LogRepoIs ==
  ASSUME NEW w, NEW l, NEW r
  PROVE  log_repo(w, l, r) = IF HasLine(l, r) THEN log ELSE log \cup {Line(w, l, r)}
  BY DEF log_repo, HasLine, Line

LEMMA LogIs ==
  ASSUME NEW t \in Tasks, Log(t), NEW x, x = task[t]
  PROVE  /\ x.pc = "log" /\ base' = base /\ cards' = cards /\ disk' = disk /\ up' = up
         /\ log' = IF HasLine(x.land, x.repo) THEN log ELSE log \cup {Line(t[1], x.land, x.repo)}
  BY LogRepoIs DEF Log, At, land, env

\* The lines a start writes: of each step 2 it finds done, and of nothing else.
LEMMA RestartLog ==
  ASSUME Inv, Restart
  PROVE  /\ log \subseteq log'
         /\ \A e \in log' : e \in log \/
              \E w \in Workers : \E r \in Of[w] :
                /\ Interrupted(w) /\ disk[w].land.repos[r].status = "advancing"
                /\ InBase(disk[w].land.repos[r], r)
                /\ ~HasLine(disk[w].land, r) /\ e = Line(w, disk[w].land, r)
         /\ \A w \in Workers : \A r \in Of[w] :
              Interrupted(w) /\ disk[w].land.repos[r].status = "advancing" /\ InBase(disk[w].land.repos[r], r)
              => \E e \in log' : e.land = disk[w].land.id /\ e.repo = r /\ (e \in log \/ e = Line(w, disk[w].land, r))
  <1> DEFINE Due(w) == {q \in Of[w] : LET e == disk[w].land.repos[q] IN e.status = "advancing" /\ InBase(e, q)}
             Lines(w) == UNION {log_repo(w, disk[w].land, r) : r \in Due(w)}
  <1>1. log' = log \cup UNION {Lines(w) : w \in {v \in Workers : Interrupted(v)}}
    BY DEF Restart
  <1>2. log \subseteq log'
    BY <1>1
  <1>3. ASSUME NEW e \in log', e \notin log
        PROVE  \E w \in Workers : \E r \in Of[w] :
                /\ Interrupted(w) /\ disk[w].land.repos[r].status = "advancing"
                /\ InBase(disk[w].land.repos[r], r)
                /\ ~HasLine(disk[w].land, r) /\ e = Line(w, disk[w].land, r)
    <2>1. PICK w \in Workers : Interrupted(w) /\ e \in Lines(w)
      <3> HIDE DEF Lines
      <3> QED BY <1>1, <1>3
    <2>2. PICK r \in Due(w) : e \in log_repo(w, disk[w].land, r)
      BY <2>1
    <2>3. ~HasLine(disk[w].land, r) /\ e = Line(w, disk[w].land, r)
      BY <1>3, <2>2, LogRepoIs
    <2> QED BY <2>1, <2>2, <2>3
  <1>4. ASSUME NEW w \in Workers, NEW r \in Of[w], Interrupted(w),
               disk[w].land.repos[r].status = "advancing", InBase(disk[w].land.repos[r], r)
        PROVE  \E e \in log' : e.land = disk[w].land.id /\ e.repo = r /\ (e \in log \/ e = Line(w, disk[w].land, r))
    <2>1. r \in Due(w)
      BY <1>4
    <2>2. log_repo(w, disk[w].land, r) \subseteq Lines(w)
      <3> HIDE DEF Due
      <3> QED BY <2>1
    <2>3. Lines(w) \subseteq log'
      <3> HIDE DEF Lines
      <3> QED BY <1>1, <1>4
    <2> HIDE DEF Lines, Due
    <2>4. CASE HasLine(disk[w].land, r)
      BY <1>2, <2>4 DEF HasLine
    <2>5. CASE ~HasLine(disk[w].land, r)
      <3>1. Line(w, disk[w].land, r) \in log'
        BY <2>2, <2>3, <2>5, LogRepoIs
      <3> QED BY <3>1 DEF Line
    <2> QED BY <2>4, <2>5
  <1> QED BY <1>2, <1>3, <1>4

-------------------------------------------------------------------------------
(* Ids stays.                                                               *)

LEMMA IdsWith ==
  ASSUME Inv, Ids, NEW w \in Workers, seq' \in {seq, seq + 1},
         \A v \in Workers : \A i : Uses(v, i)' => Uses(v, i) \/ (v = w /\ i = seq + 1 /\ seq' = seq + 1)
  PROVE  Ids'
  <1>1. seq \in Nat /\ seq' \in Nat
    BY Bounds DEF Inv, Counters
  <1>2. ASSUME NEW v \in Workers, NEW u \in Workers, NEW i, Uses(v, i)', Uses(u, i)' PROVE v = u
    BY <1>1, <1>2 DEF Ids
  <1>3. ASSUME NEW v \in Workers, NEW i, Uses(v, i)' PROVE i \in 1..seq'
    BY <1>1, <1>3 DEF Ids
  <1> QED BY <1>2, <1>3 DEF Ids

LEMMA RunsIds ==
  ASSUME Inv, Ids, NEW t \in Tasks, TaskStep(t), Runs(t) PROVE Ids'
  <1>1. PICK w, x, y, d, e : w = t[1] /\ x = task[t] /\ y = task'[t] /\ d = disk[w] /\ e = disk'[w]
    OBVIOUS
  <1>2. /\ w \in Workers /\ x.pc # "idle" /\ Only(t) /\ \A v \in Workers : v # w => disk'[v] = disk[v]
        /\ y.pc # "idle" => y.land.id = x.land.id
        /\ e.land = d.land \/ e.land = None \/ (e.land # None /\ e.land.id = x.land.id)
    BY <1>1, TaskWorker DEF Runs, Turns, Alike
  <1>3. Uses(w, x.land.id)
    BY <1>1, <1>2 DEF Uses
  <1>4. \A i : e.land # None /\ e.land.id = i => Uses(w, i)
    BY <1>1, <1>2, <1>3 DEF Uses
  <1>5. ASSUME NEW s \in Tasks, task'[s].pc # "idle" PROVE Uses(s[1], task'[s].land.id)
    <2>1. CASE s = t
      BY <1>1, <1>2, <1>3, <1>5, <2>1
    <2>2. CASE s # t
      BY <1>2, <1>5, <2>2 DEF Only, Uses
    <2> QED BY <2>1, <2>2
  <1>6. ASSUME NEW k \in log' PROVE k \in log \/ (k.worker = w /\ k.land = x.land.id)
    <2>1. CASE log' = log
      BY <2>1
    <2>2. CASE log' # log
      <3>1. Log(t)
        BY <2>2, TaskStepKeeps
      <3> QED BY <1>1, <3>1, LogIs DEF Line
    <2> QED BY <2>1, <2>2
  <1>7. ASSUME NEW v \in Workers, NEW i, Uses(v, i)' PROVE Uses(v, i)
    <2>1. CASE disk'[v].land # None /\ disk'[v].land.id = i
      BY <1>1, <1>2, <1>4, <2>1 DEF Uses
    <2>2. CASE \E s \in Tasks : s[1] = v /\ task'[s].pc # "idle" /\ task'[s].land.id = i
      BY <1>5, <2>2
    <2>3. CASE \E k \in log' : k.worker = v /\ k.land = i
      BY <1>3, <1>6, <2>3 DEF Uses
    <2> QED BY <1>7, <2>1, <2>2, <2>3 DEF Uses
  <1> QED BY <1>2, <1>7, TaskStepKeeps, IdsWith

LEMMA StartsIds == ASSUME Inv, Ids, NEW t \in Tasks, Starts(t) PROVE Ids'
  <1>1. PICK w, y, d, e : w = t[1] /\ y = task'[t] /\ d = disk[w] /\ e = disk'[w]
    OBVIOUS
  <1>2. /\ w \in Workers /\ Only(t) /\ log' = log /\ \A v \in Workers : v # w => disk'[v] = disk[v]
        /\ e.land # None <=> d.land # None
        /\ e.land # None => e.land.id = d.land.id
        /\ y.pc # "idle" => \/ d.land # None /\ y.land.id = d.land.id
                            \/ y.land.id = seq + 1 /\ seq' = seq + 1
        /\ seq' \in {seq, seq + 1}
    BY <1>1, TaskWorker DEF Starts
  <1>3. d.land # None => Uses(w, d.land.id)
    BY <1>1 DEF Uses
  <1>4. ASSUME NEW s \in Tasks, task'[s].pc # "idle"
        PROVE  \/ Uses(s[1], task'[s].land.id)
               \/ s[1] = w /\ task'[s].land.id = seq + 1 /\ seq' = seq + 1
    <2>1. CASE s = t
      BY <1>1, <1>2, <1>3, <1>4, <2>1
    <2>2. CASE s # t
      BY <1>2, <1>4, <2>2 DEF Only, Uses
    <2> QED BY <2>1, <2>2
  <1>5. ASSUME NEW v \in Workers, NEW i, Uses(v, i)'
        PROVE  Uses(v, i) \/ (v = w /\ i = seq + 1 /\ seq' = seq + 1)
    <2>1. CASE disk'[v].land # None /\ disk'[v].land.id = i
      BY <1>1, <1>2, <1>3, <2>1 DEF Uses
    <2>2. CASE \E s \in Tasks : s[1] = v /\ task'[s].pc # "idle" /\ task'[s].land.id = i
      BY <1>4, <2>2
    <2>3. CASE \E k \in log' : k.worker = v /\ k.land = i
      BY <1>2, <2>3 DEF Uses
    <2> QED BY <1>5, <2>1, <2>2, <2>3 DEF Uses
  <1> QED BY <1>2, <1>5, IdsWith

LEMMA RestsIds == ASSUME Ids, Rests PROVE Ids'
  <1>1. \A v \in Workers : \A i : Uses(v, i)' <=> Uses(v, i)
    BY DEF Rests, Uses
  <1>2. seq' = seq
    BY DEF Rests
  <1> QED BY <1>1, <1>2 DEF Ids

LEMMA WithdrawIds == ASSUME Ids, NEW w \in Workers, Withdraws(w) PROVE Ids'
  <1>1. \A v \in Workers : disk'[v].land # None => disk[v].land # None /\ disk'[v].land.id = disk[v].land.id
    BY DEF Withdraws
  <1>2. \A v \in Workers : \A i : Uses(v, i)' => Uses(v, i)
    BY <1>1 DEF Withdraws, Uses
  <1>3. seq' = seq
    BY DEF Withdraws
  <1> QED BY <1>2, <1>3 DEF Ids

LEMMA CrashIds == ASSUME Ids, Crash PROVE Ids'
  <1>1. \A v \in Workers : \A i : Uses(v, i)' => Uses(v, i)
    BY DEF Crash, Uses, Idle
  <1>2. seq' = seq
    BY DEF Crash
  <1> QED BY <1>1, <1>2 DEF Ids

LEMMA RestartIds == ASSUME Inv, Control, Ids, Restart PROVE Ids'
  <1>1. ASSUME NEW w \in Workers, disk'[w].land # None
        PROVE  disk[w].land # None /\ disk'[w].land.id = disk[w].land.id
    <2>1. PICK d, e : d = disk[w] /\ e = disk'[w]
      OBVIOUS
    <2>2. Reconciled(w, d, e)
      BY <2>1, RestartIs
    <2>3. e = d \/ (d.land # None /\ d.land \in LandState(w) /\ e.land = reconcile(d.land))
      BY <2>2 DEF Reconciled
    <2> QED BY <1>1, <2>1, <2>3, ReconcileIs
  <1>2. ASSUME NEW k \in log' PROVE k \in log \/ (k.worker \in Workers /\ Uses(k.worker, k.land))
    <2> SUFFICES ASSUME k \notin log PROVE k.worker \in Workers /\ Uses(k.worker, k.land)
      OBVIOUS
    <2>1. PICK w \in Workers : \E r \in Of[w] : Interrupted(w) /\ k = Line(w, disk[w].land, r)
      BY RestartLog
    <2>2. disk[w].land # None
      BY <2>1, RecordIs DEF Interrupted
    <2> QED BY <2>1, <2>2 DEF Line, Uses
  <1>3. task' = task /\ seq' = seq
    BY DEF Restart
  <1>4. ASSUME NEW v \in Workers, NEW i, Uses(v, i)' PROVE Uses(v, i)
    <2>1. CASE disk'[v].land # None /\ disk'[v].land.id = i
      BY <1>1, <2>1 DEF Uses
    <2>2. CASE \E s \in Tasks : s[1] = v /\ task'[s].pc # "idle" /\ task'[s].land.id = i
      BY <1>3, <2>2 DEF Uses
    <2>3. CASE \E k \in log' : k.worker = v /\ k.land = i
      BY <1>2, <2>3 DEF Uses
    <2> QED BY <1>4, <2>1, <2>2, <2>3 DEF Uses
  <1> QED BY <1>3, <1>4 DEF Ids

LEMMA InitIds == ASSUME Init PROVE Ids
  BY DEF Init, Ids, Uses, Idle

-------------------------------------------------------------------------------
(* The first three parts together, and what they keep landed.               *)

Held == Inv /\ Control /\ Ids

LEMMA HeldTask ==
  ASSUME Held, NEW t \in Tasks, TaskStep(t) PROVE Runs(t) /\ Control' /\ Ids'
  <1>1. Runs(t)
    BY TaskStepRuns DEF Held
  <1> QED BY <1>1, RunsControl, RunsIds DEF Held

\* Every step is one of these.
Classes ==
    \/ \E t \in Tasks : TaskStep(t) /\ Runs(t)
    \/ \E t \in Tasks : Starts(t)
    \/ Rests
    \/ \E w \in Workers : Withdraws(w)
    \/ Crash \/ Restart

LEMMA StepIs == ASSUME OneRun, Held, [Next]_vars PROVE Classes
  <1>1. CASE UNCHANGED vars
    BY <1>1, StutterRests DEF Classes
  <1>2. CASE \E t \in Tasks : TaskStep(t)
    BY <1>2, HeldTask DEF Classes
  <1>3. CASE \E q \in jobs : CheckEnds(q)
    BY <1>3, CheckEndsRests DEF Classes
  <1>4. CASE \E e \in ends : MarkEnded(e)
    <2>1. PICK e \in ends : MarkEnded(e)
      BY <1>4
    <2>2. CASE task' = task /\ disk' = disk
      BY <2>1, <2>2, MarkEndedRests DEF Classes
    <2>3. CASE ~(task' = task /\ disk' = disk)
      <3>1. \E t \in Tasks : Starts(t)
        BY <2>1, <2>3, MarkEndedStarts DEF Held
      <3> QED BY <3>1 DEF Classes
    <2> QED BY <2>2, <2>3
  <1>5. CASE \E w \in Workers, c \in Callers : Call(w, c)
    BY <1>5, CallStarts DEF Held, Classes
  <1>6. CASE \E d \in cards : Approve(d) \/ Deny(d)
    BY <1>6, ApproveStarts, DenyStarts DEF Held, Classes
  <1>7. CASE \E r \in Repos : HumanCommit(r)
    BY <1>7, HumanCommitRests DEF Held, Classes
  <1>8. CASE \E w \in Workers, r \in Repos : WorkerCommit(w, r)
    BY <1>8, WorkerCommitRests DEF Classes
  <1>9. CASE \E w \in Workers : Report(w) \/ Retire(w)
    BY <1>9, WithdrawIs DEF Held, Classes
  <1>10. CASE Crash \/ Restart
    BY <1>10 DEF Classes
  <1> QED BY <1>1, <1>2, <1>3, <1>4, <1>5, <1>6, <1>7, <1>8, <1>9, <1>10 DEF Next, Others

LEMMA HeldNext == ASSUME OneRun, Held, [Next]_vars PROVE Held'
  <1>1. Inv'
    BY NextInv DEF Held
  <1>2. Classes
    BY StepIs
  <1>3. CASE \E t \in Tasks : TaskStep(t) /\ Runs(t)
    BY <1>1, <1>3, HeldTask DEF Held
  <1>4. CASE \E t \in Tasks : Starts(t)
    BY <1>1, <1>4, StartsControl, StartsIds DEF Held
  <1>5. CASE Rests
    BY <1>1, <1>5, RestsControl, RestsIds DEF Held
  <1>6. CASE \E w \in Workers : Withdraws(w)
    BY <1>1, <1>6, WithdrawControl, WithdrawIds DEF Held
  <1>7. CASE Crash
    BY <1>1, <1>7, CrashControl, CrashIds DEF Held
  <1>8. CASE Restart
    BY <1>1, <1>8, RestartControl, RestartIds DEF Held
  <1> QED BY <1>2, <1>3, <1>4, <1>5, <1>6, <1>7, <1>8 DEF Classes

LEMMA HeldInit == ASSUME Init PROVE Held
  BY InitInv, InitControl, InitIds DEF Held

\* What a record says landed stays so in what is saved over it.
LEMMA RunsCarry ==
  ASSUME Control, NEW t \in Tasks, Runs(t), NEW w, w = t[1], NEW d, d = disk[w], NEW e, e = disk'[w],
         d.land # None, e.land # None, d.land.id = e.land.id
  PROVE  Carries(w, d.land, e.land)
  <1>1. PICK x : x = task[t]
    OBVIOUS
  <1>2. /\ e.land = d.land \/ (x.pc # "clean" /\ Alike(w, x.land, e.land))
        /\ Copies(t, d, x)
    BY <1>1 DEF Runs, Turns, Control, Beside
  <1>3. CASE e.land = d.land
    BY <1>3, CarriesSelf
  <1>4. CASE x.pc # "clean" /\ Alike(w, x.land, e.land)
    <2>1. d.land.id = x.land.id
      BY <1>4 DEF Alike
    <2>2. Carries(w, d.land, x.land)
      BY <1>2, <1>4, <2>1 DEF Copies
    <2> QED BY <1>4, <2>2, CarriesOn
  <1> QED BY <1>2, <1>3, <1>4

LEMMA Carried ==
  ASSUME OneRun, Held, [Next]_vars, NEW w \in Workers, NEW d, d = disk[w], NEW e, e = disk'[w],
         d.land # None, e.land # None, d.land.id = e.land.id
  PROVE  Carries(w, d.land, e.land)
  <1>1. Classes
    BY StepIs
  <1>2. CASE e.land = d.land
    BY <1>2, CarriesSelf
  <1>3. CASE \E t \in Tasks : TaskStep(t) /\ Runs(t)
    <2>1. PICK t \in Tasks : Runs(t)
      BY <1>3
    <2>2. CASE w = t[1]
      BY <2>1, <2>2, RunsCarry DEF Held
    <2>3. CASE w # t[1]
      BY <1>2, <2>1, <2>3 DEF Runs
    <2> QED BY <2>2, <2>3
  <1>4. CASE \E t \in Tasks : Starts(t)
    <2>1. PICK t \in Tasks : Starts(t)
      BY <1>4
    <2>2. CASE w = t[1]
      BY <2>1, <2>2 DEF Starts
    <2>3. CASE w # t[1]
      BY <1>2, <2>1, <2>3 DEF Starts
    <2> QED BY <2>2, <2>3
  <1>5. CASE Rests \/ Crash
    BY <1>2, <1>5 DEF Rests, Crash
  <1>6. CASE \E v \in Workers : Withdraws(v)
    BY <1>2, <1>6 DEF Withdraws, Carries
  <1>7. CASE Restart
    <2>1. Reconciled(w, d, e)
      BY <1>7, RestartIs DEF Held
    <2>2. CASE e # d
      <3>1. PICK m : m = reconcile(d.land)
        OBVIOUS
      <3>2. d.land \in LandState(w) /\ e.land = m
        BY <2>1, <2>2, <3>1 DEF Reconciled
      <3>3. \A r \in Of[w] : /\ m.repos[r].pinned = d.land.repos[r].pinned
                             /\ d.land.repos[r].status = "landed" => m.repos[r].status = "landed"
        BY <3>1, <3>2, ReconcileIs
      <3> QED BY <3>2, <3>3 DEF Carries
    <2> QED BY <1>2, <2>2
  <1> QED BY <1>1, <1>3, <1>4, <1>5, <1>6, <1>7 DEF Classes

-------------------------------------------------------------------------------
(* The land log.                                                            *)

\* A copy has landed what the log has of its land.
Knows(w, l) ==
    \A k \in log : k.land = l.id =>
        /\ k.worker = w /\ k.repo \in Of[w]
        /\ l.repos[k.repo].status = "landed" /\ l.repos[k.repo].pinned = k.pinned

\* The record of a step 2 that is done but not saved as landed.
Advanced(w, r) ==
    /\ disk[w].phase = "landing" /\ disk[w].land # None /\ disk[w].land.state = "advancing"
    /\ disk[w].land.repos[r].status = "advancing" /\ InBase(disk[w].land.repos[r], r)

Saving(w, r) == \E t \in Tasks : t[1] = w /\ task[t].pc = "saveLanded" /\ task[t].repo = r

DiskKnows(w) ==
    disk[w].land # None => \A k \in log : k.land = disk[w].land.id =>
        /\ k.worker = w /\ k.repo \in Of[w] /\ disk[w].land.repos[k.repo].pinned = k.pinned
        /\ \/ disk[w].land.repos[k.repo].status = "landed"
           \/ Advanced(w, k.repo) /\ (up => Saving(w, k.repo))

\* A change of worker w that Base holds is in the log, about to be, or, after a
\* crash, for the next start to find.
Shown(w, r, c) ==
    \/ \E k \in log : k.worker = w /\ k.repo = r /\ c \in k.pinned
    \/ up /\ \E t \in Tasks : /\ t[1] = w /\ task[t].pc = "log" /\ task[t].repo = r
                              /\ c \in task[t].land.repos[r].pinned
    \/ ~up /\ Advanced(w, r) /\ c \in disk[w].land.repos[r].pinned

LinesTrue  == \A k \in log : k.worker \in Workers /\ k.repo \in Repos /\ k.tested \subseteq base[k.repo]
TasksKnow  == \A t \in Tasks : task[t].pc # "idle" => Knows(t[1], task[t].land)
DisksKnow  == \A w \in Workers : DiskKnows(w)
WorkShown  == \A w \in Workers : \A r \in Of[w] : \A c \in base[r] \cap Work(w) : Shown(w, r, c)

Logged == LinesTrue /\ TasksKnow /\ DisksKnow /\ WorkShown

BaseGrows == \A r \in Repos : base[r] \subseteq base'[r]

\* What a successful compare-and-swap does.
LEMMA CasIs ==
  ASSUME Inv, NEW t \in Tasks, Cas(t), base' # base, NEW w, w = t[1], NEW x, x = task[t], NEW y, y = task'[t]
  PROVE  /\ w \in Workers /\ x.pc = "cas" /\ y.pc = "log" /\ y.land = x.land /\ y.repo = x.repo
         /\ x.repo \in Of[w] /\ x.repo \in Repos
         /\ base'[x.repo] = base[x.repo] \cup x.land.repos[x.repo].pinned
         /\ \A q \in Repos : q # x.repo => base'[q] = base[q]
         /\ x.land.repos[x.repo].pinned \ Work(w) \subseteq base[x.repo]
         /\ log' = log /\ disk' = disk /\ up' = up
  <1>1. PICK l, r, e : l = x.land /\ r = x.repo /\ e = l.repos[r]
    OBVIOUS
  <1>2. /\ x.pc = "cas" /\ base[r] = e.base_before /\ base' = [base EXCEPT ![r] = e.tested]
        /\ Go(t, "log", l) /\ log' = log /\ disk' = disk /\ up' = up
    BY <1>1 DEF Cas, At, land, BaseMoved
  <1>3. y = Gone(x, "log", l)
    BY <1>2, GoIs
  <1>4. y.pc = "log" /\ y.land = l /\ y.repo = r
    BY <1>1, <1>3 DEF Gone
  <1>5. /\ w \in Workers /\ r \in Of[w] /\ r \in Repos /\ e.status = "advancing" /\ Sane(e)
        /\ Entry(World, w, r, e)
    <2>1. TaskOf(World, w, x) /\ w \in Workers
      BY TaskWorker DEF Inv, Hands
    <2>2. r \in Of[w] /\ e.status = "advancing" /\ Whole(World, w, l) /\ Clean(w, l)
      BY <1>1, <1>2, <2>1 DEF TaskOf, Holding
    <2> QED BY <1>1, <2>1, <2>2, OfRepos DEF Whole, Clean
  <1>6. e.tested # None /\ e.tested = e.base_before \cup e.pinned /\ e.pinned \ Work(w) \subseteq base[r]
    BY <1>5 DEF Sane, Entry, Merged, Tip, World
  <1>7. base \in [Repos -> Commits]
    BY DEF Inv, Trees
  <1> QED BY <1>1, <1>2, <1>4, <1>5, <1>6, <1>7

LEMMA TaskGrows == ASSUME Inv, NEW t \in Tasks, TaskStep(t) PROVE BaseGrows
  <1>1. CASE base' = base
    BY <1>1 DEF BaseGrows
  <1>2. CASE base' # base
    <2>1. Cas(t)
      BY <1>2, TaskStepKeeps
    <2>2. PICK x, w, y : x = task[t] /\ w = t[1] /\ y = task'[t]
      OBVIOUS
    <2>3. /\ base'[x.repo] = base[x.repo] \cup x.land.repos[x.repo].pinned
          /\ \A q \in Repos : q # x.repo => base'[q] = base[q]
      BY <1>2, <2>1, <2>2, CasIs
    <2> QED BY <2>3 DEF BaseGrows
  <1> QED BY <1>1, <1>2

LEMMA InBaseStays ==
  ASSUME BaseGrows, NEW r \in Repos, NEW e, InBase(e, r) PROVE InBase(e, r)'
  BY DEF InBase, BaseGrows

\* With nobody about to save it, the record has landed what the log has.
LEMMA DiskIs ==
  ASSUME NEW w \in Workers, DiskKnows(w), disk[w].land # None,
         \A r \in Of[w] : ~Advanced(w, r) \/ (up /\ ~Saving(w, r))
  PROVE  Knows(w, disk[w].land)
  BY DEF DiskKnows, Knows

LEMMA KnowsOn ==
  ASSUME NEW w, NEW l, NEW m, Knows(w, l), m.id = l.id, Carries(w, l, m) PROVE Knows(w, m)
  BY DEF Knows, Carries

LEMMA AlikeCarries == ASSUME NEW w, NEW l, NEW m, Alike(w, l, m) PROVE Carries(w, l, m) /\ m.id = l.id
  BY DEF Alike, Carries

\* Where a task stands at its log step.
LEMMA LogFinds ==
  ASSUME Held, NEW t \in Tasks, task[t].pc = "log", NEW w, w = t[1], NEW x, x = task[t], NEW d, d = disk[w]
  PROVE  /\ w \in Workers /\ x.repo \in Of[w] /\ x.repo \in Repos /\ x.land \in LandState(w)
         /\ x.land.repos[x.repo].status = "advancing"
         /\ d.land # None /\ d.land.id = x.land.id /\ d.land.repos[x.repo] = x.land.repos[x.repo]
         /\ x.land.repos[x.repo].tested \subseteq base[x.repo]
         /\ Advanced(w, x.repo)
  <1>1. TaskOf(World, w, x) /\ w \in Workers
    BY TaskWorker DEF Held, Inv, Hands
  <1>2. /\ x.repo \in Of[w] /\ x.land.repos[x.repo].status = "advancing" /\ Whole(World, w, x.land) /\ Clean(w, x.land)
        /\ x.land.repos[x.repo].tested \subseteq base[x.repo]
    BY <1>1 DEF TaskOf, Holding, World
  <1>3. x.repo \in Repos /\ x.land \in LandState(w) /\ x.land.repos[x.repo].tested # None
    BY <1>1, <1>2, OfRepos DEF Whole, Clean, Sane
  <1>4. Copies(t, d, x) /\ States_of(d, x)
    BY DEF Held, Control, Beside
  <1>5. /\ d.land # None /\ d.land.id = x.land.id /\ d.land.repos[x.repo] = x.land.repos[x.repo]
        /\ d.land.state = "advancing" /\ d.phase = "landing"
    BY <1>4 DEF Copies, States_of, InRun
  <1> QED BY <1>1, <1>2, <1>3, <1>5 DEF Advanced, InBase

-------------------------------------------------------------------------------
(* A task's step keeps the log.                                             *)

LEMMA NewLine ==
  ASSUME NEW t \in Tasks, TaskStep(t), NEW w, w = t[1], NEW x, x = task[t]
  PROVE  /\ log \subseteq log'
         /\ \A k \in log' : k \in log \/ (Log(t) /\ x.pc = "log" /\ k = Line(w, x.land, x.repo))
         /\ x.pc # "log" => log' = log
  <1>1. CASE log' = log
    BY <1>1
  <1>2. CASE log' # log
    <2>1. Log(t)
      BY <1>2, TaskStepKeeps
    <2> QED BY <2>1, LogIs
  <1> QED BY <1>1, <1>2

LEMMA OnlyMine ==
  ASSUME Held, NEW t \in Tasks, Runs(t), NEW w, w = t[1], NEW s \in Tasks, s # t, task'[s].pc # "idle"
  PROVE  task'[s] = task[s] /\ s[1] # w /\ s[1] \in Workers
  <1>1. task'[s] = task[s] /\ task[t].pc # "idle"
    BY DEF Runs, Only
  <1>2. s[1] # w
    BY <1>1 DEF Held, Control, Alone
  <1> QED BY <1>1, <1>2, TaskWorker

\* A new line is of no other worker's land.
LEMMA NotTheirs ==
  ASSUME Held, NEW t \in Tasks, TaskStep(t), NEW w, w = t[1], task[t].pc # "idle", NEW v \in Workers, v # w,
         NEW k \in log', Uses(v, k.land)
  PROVE  k \in log
  <1>1. Uses(w, task[t].land.id) /\ w \in Workers
    BY TaskWorker DEF Uses
  <1>2. SUFFICES ASSUME k \notin log PROVE FALSE
    OBVIOUS
  <1>3. k.land = task[t].land.id
    BY <1>2, NewLine DEF Line
  <1> QED BY <1>1, <1>3 DEF Held, Ids

LEMMA RunsLines ==
  ASSUME Held, Logged, NEW t \in Tasks, TaskStep(t), Runs(t) PROVE LinesTrue'
  <1>1. BaseGrows
    BY TaskGrows DEF Held
  <1>2. ASSUME NEW k \in log' PROVE k.worker \in Workers /\ k.repo \in Repos /\ k.tested \subseteq base'[k.repo]
    <2>1. CASE k \in log
      BY <1>1, <2>1 DEF Logged, LinesTrue, BaseGrows
    <2>2. CASE k \notin log
      <3>1. PICK w, x : w = t[1] /\ x = task[t]
        OBVIOUS
      <3>2. x.pc = "log" /\ k = Line(w, x.land, x.repo)
        BY <2>2, <3>1, NewLine
      <3>3. w \in Workers /\ x.repo \in Repos /\ x.land.repos[x.repo].tested \subseteq base[x.repo]
        BY <3>1, <3>2, LogFinds
      <3> QED BY <1>1, <3>2, <3>3 DEF Line, BaseGrows
    <2> QED BY <2>1, <2>2
  <1> QED BY <1>2 DEF LinesTrue

LEMMA RunsTasks ==
  ASSUME Held, Logged, NEW t \in Tasks, TaskStep(t), Runs(t) PROVE TasksKnow'
  <1>1. PICK w, x, y, d : w = t[1] /\ x = task[t] /\ y = task'[t] /\ d = disk[w]
    OBVIOUS
  <1>2. w \in Workers /\ x.pc # "idle" /\ up /\ Knows(w, x.land) /\ DiskKnows(w)
    BY <1>1, TaskWorker DEF Runs, Logged, TasksKnow, DisksKnow
  <1>3. ASSUME NEW s \in Tasks, s # t, task'[s].pc # "idle", NEW k \in log', k.land = task'[s].land.id
        PROVE  /\ k.worker = s[1] /\ k.repo \in Of[s[1]] /\ task'[s].land.repos[k.repo].status = "landed"
               /\ task'[s].land.repos[k.repo].pinned = k.pinned
    <2>1. task'[s] = task[s] /\ s[1] # w /\ s[1] \in Workers
      BY <1>1, <1>3, OnlyMine
    <2>2. k \in log
      <3>1. Uses(s[1], k.land)
        BY <1>3, <2>1 DEF Uses
      <3> QED BY <1>1, <1>2, <2>1, <3>1, NotTheirs
    <2>3. Knows(s[1], task[s].land)
      BY <1>3, <2>1 DEF Logged, TasksKnow
    <2> QED BY <1>3, <2>1, <2>2, <2>3 DEF Knows
  <1>4. ASSUME y.pc # "idle", NEW k \in log', k.land = y.land.id
        PROVE  /\ k.worker = w /\ k.repo \in Of[w] /\ y.land.repos[k.repo].status = "landed"
               /\ y.land.repos[k.repo].pinned = k.pinned
    <2>1. CASE x.pc = "log"
      <3>1. PICK l, r, f : l = x.land /\ r = x.repo /\ f = [l.repos[r] EXCEPT !.status = "landed"]
        OBVIOUS
      <3>2. /\ r \in Of[w] /\ l \in LandState(w) /\ l.repos[r].status = "advancing"
        BY <1>1, <2>1, <3>1, LogFinds
      <3>3. Log(t) \/ log' = log
        BY TaskStepKeeps
      <3>4. Log(t)
        BY <1>1, <2>1 DEF TaskStep, StartLand, Drive, TakeLock, LockBusy, Locked, Prepare, Prepared,
           StartCheck, ChecksStarted, Gate, Cas, SaveLanded, Refuse, RefuseClean, Hold, HoldClean,
           HoldSave, Finish, FinishSave, landed_unretired, RetireLanded, SaveEnd, after_land, Ask, SaveAsk, At
      <3>5. y.land = SetRepo(l, r, f)
        <4>1. Go(t, "saveLanded", SetRepo(l, r, f))
          BY <1>1, <3>1, <3>4 DEF Log, land
        <4>2. y = Gone(x, "saveLanded", SetRepo(l, r, f))
          BY <1>1, <4>1, GoIs DEF Held
        <4> QED BY <4>2 DEF Gone
      <3>6. f.status = "landed" /\ f.pinned = l.repos[r].pinned
        <4>1. PICK g : g = l.repos[r] /\ g \in LandRepo
          BY <3>2 DEF LandState
        <4> QED BY <3>1, <4>1 DEF LandRepo
      <3>7. /\ y.land.id = l.id /\ y.land.repos[r] = f
            /\ \A q \in Of[w] : q # r => y.land.repos[q] = l.repos[q]
        BY <1>2, <3>2, <3>5, RepoHas
      <3>8. CASE k \in log
        <4>1. /\ k.worker = w /\ k.repo \in Of[w] /\ l.repos[k.repo].status = "landed"
              /\ l.repos[k.repo].pinned = k.pinned
          BY <1>2, <1>4, <3>1, <3>7, <3>8 DEF Knows
        <4> QED BY <3>2, <3>6, <3>7, <4>1
      <3>9. CASE k \notin log
        <4>1. k = Line(w, l, r)
          BY <1>1, <3>1, <3>9, NewLine
        <4> QED BY <3>2, <3>6, <3>7, <4>1 DEF Line
      <3> QED BY <3>8, <3>9
    <2>2. CASE x.pc = "drive"
      <3>1. y.land = d.land /\ log' = log /\ d.land # None
        <4>1. y.land \in {None, d.land} /\ log' = log
          BY <1>1, <2>2, NewLine DEF Runs, Turns
        <4>2. y.land # None
          <5>1. Inv'
            BY TaskStepInv DEF Held
          <5>2. y.land \in LandState(w)
            BY <1>1, <1>4, <5>1 DEF Inv, Hands, TaskOf, Whole
          <5> QED BY <1>2, <5>2, NoneAssumption
        <4> QED BY <4>1, <4>2
      <3>2. \A r \in Of[w] : ~Saving(w, r)
        BY <1>1, <1>2, <2>2 DEF Held, Control, Alone, Saving
      <3>3. Knows(w, d.land)
        BY <1>1, <1>2, <3>1, <3>2, DiskIs
      <3> QED BY <1>4, <3>1, <3>3 DEF Knows
    <2>3. CASE x.pc \notin {"log", "drive"}
      <3>1. Alike(w, x.land, y.land) /\ log' = log
        BY <1>1, <1>4, <2>3, NewLine DEF Runs, Turns
      <3>2. Knows(w, y.land)
        BY <1>2, <3>1, AlikeCarries, KnowsOn
      <3> QED BY <1>4, <3>1, <3>2 DEF Knows
    <2> QED BY <2>1, <2>2, <2>3
  <1>5. ASSUME NEW s \in Tasks, task'[s].pc # "idle", NEW k \in log', k.land = task'[s].land.id
        PROVE  /\ k.worker = s[1] /\ k.repo \in Of[s[1]] /\ task'[s].land.repos[k.repo].status = "landed"
               /\ task'[s].land.repos[k.repo].pinned = k.pinned
    BY <1>1, <1>3, <1>4, <1>5
  <1> QED BY <1>5 DEF TasksKnow, Knows

LEMMA RunsDisks ==
  ASSUME Held, Logged, NEW t \in Tasks, TaskStep(t), Runs(t) PROVE DisksKnow'
  <1>1. PICK w, x, y, d, e : w = t[1] /\ x = task[t] /\ y = task'[t] /\ d = disk[w] /\ e = disk'[w]
    OBVIOUS
  <1>2. /\ w \in Workers /\ x.pc # "idle" /\ up /\ up' /\ Knows(w, x.land) /\ DiskKnows(w) /\ BaseGrows
        /\ Only(t) /\ \A v \in Workers : v # w => disk'[v] = disk[v]
    BY <1>1, TaskWorker, TaskGrows DEF Runs, Logged, TasksKnow, DisksKnow, Held
  <1>3. ASSUME NEW v \in Workers, v # w, NEW k \in log', disk'[v].land # None, k.land = disk'[v].land.id
        PROVE  /\ k.worker = v /\ k.repo \in Of[v] /\ disk'[v].land.repos[k.repo].pinned = k.pinned
               /\ \/ disk'[v].land.repos[k.repo].status = "landed"
                  \/ Advanced(v, k.repo)' /\ (up' => Saving(v, k.repo)')
    <2>1. disk'[v] = disk[v] /\ Uses(v, k.land)
      BY <1>2, <1>3 DEF Uses
    <2>2. k \in log
      BY <1>1, <1>2, <1>3, <2>1, NotTheirs
    <2>3. /\ k.worker = v /\ k.repo \in Of[v] /\ disk[v].land.repos[k.repo].pinned = k.pinned
          /\ \/ disk[v].land.repos[k.repo].status = "landed"
             \/ Advanced(v, k.repo) /\ Saving(v, k.repo)
      BY <1>2, <1>3, <2>1, <2>2 DEF Logged, DisksKnow, DiskKnows
    <2>4. CASE disk[v].land.repos[k.repo].status = "landed"
      BY <2>1, <2>3, <2>4
    <2>5. CASE Advanced(v, k.repo) /\ Saving(v, k.repo)
      <3>1. Saving(v, k.repo)'
        BY <1>1, <1>2, <1>3, <2>5 DEF Saving, Only
      <3>2. k.repo \in Repos
        BY <2>3, <1>3, OfRepos
      <3>3. Advanced(v, k.repo)'
        BY <1>2, <2>1, <2>5, <3>2, InBaseStays DEF Advanced
      <3> QED BY <2>1, <2>3, <3>1, <3>3
    <2> QED BY <2>3, <2>4, <2>5
  <1>4. ASSUME NEW k \in log', e.land # None, k.land = e.land.id
        PROVE  /\ k.worker = w /\ k.repo \in Of[w] /\ e.land.repos[k.repo].pinned = k.pinned
               /\ \/ e.land.repos[k.repo].status = "landed"
                  \/ Advanced(w, k.repo)' /\ Saving(w, k.repo)'
    <2>1. CASE x.pc = "log"
      <3>1. PICK l, r : l = x.land /\ r = x.repo
        OBVIOUS
      <3>2. /\ r \in Of[w] /\ r \in Repos /\ l.repos[r].status = "advancing"
            /\ d.land # None /\ d.land.id = l.id /\ d.land.repos[r] = l.repos[r] /\ Advanced(w, r)
        BY <1>1, <2>1, <3>1, LogFinds
      <3>3. Log(t)
        BY <1>1, <2>1 DEF TaskStep, StartLand, Drive, TakeLock, LockBusy, Locked, Prepare, Prepared,
           StartCheck, ChecksStarted, Gate, Cas, SaveLanded, Refuse, RefuseClean, Hold, HoldClean,
           HoldSave, Finish, FinishSave, landed_unretired, RetireLanded, SaveEnd, after_land, Ask, SaveAsk, At
      <3>4. disk' = disk /\ e = d
        BY <1>1, <3>3, LogIs
      <3>5. CASE k \in log
        <4>1. \A q \in Of[w] : ~Saving(w, q)
          BY <1>1, <1>2, <2>1 DEF Held, Control, Alone, Saving
        <4>2. Knows(w, d.land)
          BY <1>1, <1>2, <3>2, <4>1, DiskIs
        <4> QED BY <1>4, <3>4, <3>5, <4>2 DEF Knows
      <3>6. CASE k \notin log
        <4>1. k = Line(w, l, r)
          BY <1>1, <3>1, <3>6, NewLine
        <4>2. Advanced(w, r)'
          BY <1>2, <3>2, <3>4, InBaseStays DEF Advanced
        <4>3. y.pc = "saveLanded" /\ y.repo = r
          <5>1. \E m : Go(t, "saveLanded", m)
            BY <3>3 DEF Log
          <5>2. \E m : y = Gone(x, "saveLanded", m)
            BY <1>1, <5>1, GoIs DEF Held
          <5> QED BY <3>1, <5>2 DEF Gone
        <4>4. Saving(w, r)'
          BY <1>1, <4>3 DEF Saving
        <4> QED BY <1>1, <3>2, <3>4, <4>1, <4>2, <4>4 DEF Line
      <3> QED BY <3>5, <3>6
    <2>2. CASE x.pc # "log"
      <3>1. /\ log' = log
            /\ e.land = d.land \/ Alike(w, x.land, e.land)
            /\ x.pc = "saveLanded" => e.land = x.land
        BY <1>1, <1>4, <2>2, NewLine DEF Runs, Turns
      <3>2. CASE Alike(w, x.land, e.land) \/ x.pc = "saveLanded"
        <4>1. Alike(w, x.land, e.land)
          BY <3>1, <3>2, AlikeSelf
        <4>2. Knows(w, e.land)
          BY <1>2, <4>1, AlikeCarries, KnowsOn
        <4> QED BY <1>4, <3>1, <4>2 DEF Knows
      <3>3. CASE e.land = d.land /\ x.pc # "saveLanded"
        <4>1. \A q \in Of[w] : ~Saving(w, q)
          BY <1>1, <1>2, <3>3 DEF Held, Control, Alone, Saving
        <4>2. Knows(w, d.land)
          BY <1>1, <1>2, <1>4, <3>3, <4>1, DiskIs
        <4> QED BY <1>4, <3>1, <3>3, <4>2 DEF Knows
      <3> QED BY <3>1, <3>2, <3>3
    <2> QED BY <2>1, <2>2
  <1>5. ASSUME NEW v \in Workers, NEW k \in log', disk'[v].land # None, k.land = disk'[v].land.id
        PROVE  /\ k.worker = v /\ k.repo \in Of[v] /\ disk'[v].land.repos[k.repo].pinned = k.pinned
               /\ \/ disk'[v].land.repos[k.repo].status = "landed"
                  \/ Advanced(v, k.repo)' /\ (up' => Saving(v, k.repo)')
    <2>1. CASE v = w
      BY <1>1, <1>4, <1>5, <2>1
    <2>2. CASE v # w
      BY <1>3, <1>5, <2>2
    <2> QED BY <2>1, <2>2
  <1> QED BY <1>5 DEF DisksKnow, DiskKnows

LEMMA RunsWork ==
  ASSUME Held, Logged, NEW t \in Tasks, TaskStep(t), Runs(t) PROVE WorkShown'
  <1>1. PICK w, x, y : w = t[1] /\ x = task[t] /\ y = task'[t]
    OBVIOUS
  <1>2. w \in Workers /\ x.pc # "idle" /\ up /\ up' /\ Only(t) /\ Knows(w, x.land)
    BY <1>1, TaskWorker DEF Runs, Logged, TasksKnow
  \* What was shown still is.
  <1>3. ASSUME NEW v \in Workers, NEW r \in Of[v], NEW c, Shown(v, r, c) PROVE Shown(v, r, c)'
    <2>1. CASE \E k \in log : k.worker = v /\ k.repo = r /\ c \in k.pinned
      BY <2>1, NewLine DEF Shown
    <2>2. ASSUME NEW s \in Tasks, s[1] = v, task[s].pc = "log", task[s].repo = r, c \in task[s].land.repos[r].pinned
          PROVE  Shown(v, r, c)'
      <3>1. CASE s # t
        <4>1. task'[s] = task[s]
          BY <1>2, <3>1 DEF Only
        <4> QED BY <1>2, <2>2, <4>1 DEF Shown
      <3>2. CASE s = t
        <4>1. x.pc = "log" /\ x.repo = r /\ w = v /\ c \in x.land.repos[r].pinned
          BY <1>1, <2>2, <3>2
        <4>2. ~HasLine(x.land, r)
          <5>1. x.land.repos[r].status = "advancing"
            BY <1>1, <4>1, LogFinds
          <5> QED BY <1>2, <5>1 DEF HasLine, Knows
        <4>3. Log(t)
          BY <1>1, <4>1 DEF TaskStep, StartLand, Drive, TakeLock, LockBusy, Locked, Prepare, Prepared,
             StartCheck, ChecksStarted, Gate, Cas, SaveLanded, Refuse, RefuseClean, Hold, HoldClean,
             HoldSave, Finish, FinishSave, landed_unretired, RetireLanded, SaveEnd, after_land, Ask, SaveAsk, At
        <4>4. Line(w, x.land, r) \in log'
          BY <1>1, <4>1, <4>2, <4>3, LogIs
        <4> QED BY <4>1, <4>4 DEF Shown, Line
      <3> QED BY <3>1, <3>2
    <2> QED BY <1>2, <1>3, <2>1, <2>2 DEF Shown
  <1>4. ASSUME NEW v \in Workers, NEW r \in Of[v], NEW c \in base'[r] \cap Work(v) PROVE Shown(v, r, c)'
    <2>1. CASE c \in base[r]
      BY <1>3, <1>4, <2>1 DEF Logged, WorkShown
    <2>2. CASE c \notin base[r]
      <3>1. base' # base
        BY <1>4, <2>2
      <3>2. Cas(t)
        BY <3>1, TaskStepKeeps
      <3>3. /\ y.pc = "log" /\ y.land = x.land /\ y.repo = x.repo /\ x.repo \in Repos
            /\ base'[x.repo] = base[x.repo] \cup x.land.repos[x.repo].pinned
            /\ \A q \in Repos : q # x.repo => base'[q] = base[q]
            /\ x.land.repos[x.repo].pinned \ Work(w) \subseteq base[x.repo]
        <4>1. Inv
          BY DEF Held
        <4> QED BY <1>1, <3>1, <3>2, <4>1, CasIs
      <3>4. r \in Repos
        BY OfRepos
      <3>5. r = x.repo /\ c \in x.land.repos[r].pinned /\ c \in Work(w) /\ c \in Work(v)
        BY <1>4, <2>2, <3>3, <3>4
      <3>6. v = w
        BY <3>5 DEF Work
      <3> QED BY <1>1, <1>2, <3>3, <3>5, <3>6 DEF Shown
    <2> QED BY <2>1, <2>2
  <1> QED BY <1>4 DEF WorkShown

-------------------------------------------------------------------------------
(* The other steps keep the log.                                            *)

\* A step that leaves Base's work, the log and who saves or logs alone.
LEMMA ShownStays ==
  ASSUME NEW v, NEW r, NEW c, Shown(v, r, c), log \subseteq log', up, up',
         \A t \in Tasks : task[t].pc = "log" => task'[t] = task[t]
  PROVE  Shown(v, r, c)'
  <1>1. CASE \E k \in log : k.worker = v /\ k.repo = r /\ c \in k.pinned
    BY <1>1 DEF Shown
  <1>2. ASSUME NEW s \in Tasks, s[1] = v, task[s].pc = "log", task[s].repo = r, c \in task[s].land.repos[r].pinned
        PROVE  Shown(v, r, c)'
    <2>1. task'[s] = task[s]
      BY <1>2
    <2> QED BY <1>2, <2>1 DEF Shown
  <1> QED BY <1>1, <1>2 DEF Shown

LEMMA DiskStays ==
  ASSUME NEW v \in Workers, DiskKnows(v), disk'[v] = disk[v], log' = log, BaseGrows, up, up',
         \A t \in Tasks : task[t].pc = "saveLanded" => task'[t] = task[t]
  PROVE  DiskKnows(v)'
  <1>1. ASSUME NEW r \in Of[v], Advanced(v, r) /\ Saving(v, r) PROVE Advanced(v, r)' /\ Saving(v, r)'
    <2>1. r \in Repos
      BY OfRepos
    <2>2. Advanced(v, r)'
      BY <1>1, <2>1, InBaseStays DEF Advanced
    <2>3. PICK t \in Tasks : t[1] = v /\ task[t].pc = "saveLanded" /\ task[t].repo = r
      BY <1>1 DEF Saving
    <2>4. task'[t] = task[t]
      BY <2>3
    <2> QED BY <2>2, <2>3, <2>4 DEF Saving
  <1>2. ASSUME NEW k \in log, disk[v].land # None, k.land = disk[v].land.id
        PROVE  /\ k.worker = v /\ k.repo \in Of[v] /\ disk'[v].land.repos[k.repo].pinned = k.pinned
               /\ \/ disk'[v].land.repos[k.repo].status = "landed"
                  \/ Advanced(v, k.repo)' /\ Saving(v, k.repo)'
    <2>1. /\ k.worker = v /\ k.repo \in Of[v] /\ disk[v].land.repos[k.repo].pinned = k.pinned
          /\ \/ disk[v].land.repos[k.repo].status = "landed"
             \/ Advanced(v, k.repo) /\ Saving(v, k.repo)
      BY <1>2 DEF DiskKnows
    <2> QED BY <1>1, <2>1
  <1> QED BY <1>2 DEF DiskKnows

LEMMA StartsLogged == ASSUME Held, Logged, NEW t \in Tasks, Starts(t) PROVE Logged'
  <1>1. PICK w, y, d, e : w = t[1] /\ y = task'[t] /\ d = disk[w] /\ e = disk'[w]
    OBVIOUS
  <1>2. /\ w \in Workers /\ up /\ up' /\ Only(t) /\ log' = log /\ base' = base /\ DiskKnows(w)
        /\ \A v \in Workers : v # w => disk'[v] = disk[v]
        /\ d.land # None => d.land.state # "advancing"
        /\ e.land # None => d.land # None /\ e.land.id = d.land.id /\ Carries(w, d.land, e.land)
        /\ y.pc # "idle" => \/ d.land # None /\ y.land.id = d.land.id /\ Carries(w, d.land, y.land)
                            \/ y.land.id = seq + 1
    BY <1>1, TaskWorker DEF Starts, Logged, DisksKnow
  <1>3. task[t].pc = "idle"
    BY <1>1 DEF Starts
  <1>4. d.land # None => Knows(w, d.land)
    BY <1>1, <1>2, DiskIs DEF Advanced
  <1>5. LinesTrue'
    BY <1>2 DEF Logged, LinesTrue
  <1>6. ASSUME NEW s \in Tasks, task'[s].pc # "idle", NEW k \in log, k.land = task'[s].land.id
        PROVE  /\ k.worker = s[1] /\ k.repo \in Of[s[1]] /\ task'[s].land.repos[k.repo].status = "landed"
               /\ task'[s].land.repos[k.repo].pinned = k.pinned
    <2>1. CASE s # t
      <3>1. task'[s] = task[s]
        BY <1>2, <2>1 DEF Only
      <3> QED BY <1>6, <3>1 DEF Logged, TasksKnow, Knows
    <2>2. CASE s = t /\ d.land # None /\ y.land.id = d.land.id /\ Carries(w, d.land, y.land)
      <3>1. Knows(w, y.land)
        BY <1>4, <2>2, KnowsOn
      <3> QED BY <1>1, <1>6, <2>2, <3>1 DEF Knows
    <2>3. CASE s = t /\ y.land.id = seq + 1
      <3>1. k.worker \in Workers
        BY DEF Logged, LinesTrue
      <3>2. Uses(k.worker, seq + 1)
        BY <1>1, <1>6, <2>3 DEF Uses
      <3>3. seq + 1 \in 1..seq /\ seq \in Nat
        BY <3>1, <3>2, Bounds DEF Held, Ids, Inv, Counters
      <3> QED BY <3>3
    <2> QED BY <1>1, <1>2, <1>6, <2>1, <2>2, <2>3
  <1>7. TasksKnow'
    BY <1>2, <1>6 DEF TasksKnow, Knows
  <1>8. ASSUME NEW v \in Workers PROVE DiskKnows(v)'
    <2>1. CASE v # w
      <3>1. \A s \in Tasks : task[s].pc = "saveLanded" => task'[s] = task[s]
        BY <1>2, <1>3 DEF Only
      <3>2. BaseGrows
        BY <1>2 DEF BaseGrows
      <3> QED BY <1>2, <2>1, <3>1, <3>2, DiskStays DEF Logged, DisksKnow
    <2>2. CASE v = w
      <3>1. e.land # None => Knows(w, e.land)
        BY <1>2, <1>4, KnowsOn
      <3> QED BY <1>1, <1>2, <2>2, <3>1 DEF DiskKnows, Knows
    <2> QED BY <2>1, <2>2
  <1>9. ASSUME NEW v \in Workers, NEW r \in Of[v], NEW c \in base'[r] \cap Work(v) PROVE Shown(v, r, c)'
    <2>1. Shown(v, r, c)
      BY <1>2 DEF Logged, WorkShown
    <2>2. \A s \in Tasks : task[s].pc = "log" => task'[s] = task[s]
      BY <1>2, <1>3 DEF Only
    <2> QED BY <1>2, <2>1, <2>2, ShownStays
  <1> QED BY <1>5, <1>7, <1>8, <1>9 DEF Logged, DisksKnow, WorkShown

LEMMA RestsLogged == ASSUME Logged, Rests PROVE Logged'
  <1>1. /\ up' = up /\ disk' = disk /\ task' = task /\ log' = log /\ BaseGrows
        /\ \A r \in Repos, w \in Workers : base'[r] \cap Work(w) = base[r] \cap Work(w)
    BY DEF Rests, BaseGrows
  <1>2. ASSUME NEW v \in Workers, NEW r \in Of[v], Advanced(v, r) PROVE Advanced(v, r)'
    <2>1. r \in Repos
      BY OfRepos
    <2> QED BY <1>1, <1>2, <2>1, InBaseStays DEF Advanced
  <1>3. LinesTrue'
    BY <1>1 DEF Logged, LinesTrue, BaseGrows
  <1>4. TasksKnow'
    BY <1>1 DEF Logged, TasksKnow, Knows
  <1>5. ASSUME NEW v \in Workers, disk[v].land # None, NEW k \in log, k.land = disk[v].land.id
        PROVE  /\ k.worker = v /\ k.repo \in Of[v] /\ disk[v].land.repos[k.repo].pinned = k.pinned
               /\ \/ disk[v].land.repos[k.repo].status = "landed"
                  \/ Advanced(v, k.repo)' /\ (up => Saving(v, k.repo))
    <2>1. /\ k.worker = v /\ k.repo \in Of[v] /\ disk[v].land.repos[k.repo].pinned = k.pinned
          /\ \/ disk[v].land.repos[k.repo].status = "landed"
             \/ Advanced(v, k.repo) /\ (up => Saving(v, k.repo))
      BY <1>5 DEF Logged, DisksKnow, DiskKnows
    <2> QED BY <1>2, <2>1
  <1>6. DisksKnow'
    BY <1>1, <1>5 DEF DisksKnow, DiskKnows, Saving
  <1>7. ASSUME NEW v \in Workers, NEW r \in Of[v], NEW c \in base'[r] \cap Work(v) PROVE Shown(v, r, c)'
    <2>1. Shown(v, r, c)
      <3>1. r \in Repos
        BY OfRepos
      <3>2. c \in base[r] \cap Work(v)
        BY <1>1, <3>1
      <3> QED BY <3>2 DEF Logged, WorkShown
    <2> QED BY <1>1, <1>2, <2>1 DEF Shown
  <1> QED BY <1>3, <1>4, <1>6, <1>7 DEF Logged, WorkShown

LEMMA WithdrawLogged == ASSUME Held, Logged, NEW w \in Workers, Withdraws(w) PROVE Logged'
  <1>1. PICK d, e : d = disk[w] /\ e = disk'[w]
    OBVIOUS
  <1>2. /\ up /\ up' /\ task' = task /\ log' = log /\ base' = base
        /\ \A v \in Workers : v # w => disk'[v] = disk[v]
        /\ d.phase = "reported" \/ (d.phase = "landing" /\ d.land.state \in {"held", "awaiting_human"})
        /\ e.land # None => d.land # None /\ e.land.id = d.land.id /\ e.land.repos = d.land.repos
    BY <1>1 DEF Withdraws
  <1>3. LinesTrue' /\ TasksKnow'
    BY <1>2 DEF Logged, LinesTrue, TasksKnow, Knows
  <1>4. ASSUME NEW v \in Workers PROVE DiskKnows(v)'
    <2>1. CASE v # w
      BY <1>2, <2>1, DiskStays DEF Logged, DisksKnow, BaseGrows
    <2>2. CASE v = w
      <3>1. \A r \in Of[w] : ~Advanced(w, r)
        BY <1>1, <1>2 DEF Advanced
      <3>2. d.land # None => Knows(w, d.land)
        BY <1>1, <3>1, DiskIs DEF Logged, DisksKnow
      <3> QED BY <1>1, <1>2, <2>2, <3>2 DEF DiskKnows, Knows
    <2> QED BY <2>1, <2>2
  <1>5. ASSUME NEW v \in Workers, NEW r \in Of[v], NEW c \in base'[r] \cap Work(v) PROVE Shown(v, r, c)'
    BY <1>2, ShownStays DEF Logged, WorkShown
  <1> QED BY <1>3, <1>4, <1>5 DEF Logged, DisksKnow, WorkShown

LEMMA CrashLogged == ASSUME Held, Logged, Crash PROVE Logged'
  <1>1. /\ up /\ ~up' /\ log' = log /\ base' = base /\ disk' = disk
        /\ \A t \in Tasks : task'[t].pc = "idle"
    BY DEF Crash, env, Idle
  <1>2. LinesTrue' /\ TasksKnow'
    BY <1>1 DEF Logged, LinesTrue, TasksKnow
  <1>3. \A v \in Workers : \A r \in Of[v] : Advanced(v, r)' <=> Advanced(v, r)
    BY <1>1 DEF Advanced, InBase
  <1>4. DisksKnow'
    BY <1>1, <1>3 DEF Logged, DisksKnow, DiskKnows
  <1>5. ASSUME NEW v \in Workers, NEW r \in Of[v], NEW c \in base'[r] \cap Work(v) PROVE Shown(v, r, c)'
    <2>1. Shown(v, r, c)
      BY <1>1, <1>5 DEF Logged, WorkShown
    <2>2. CASE \E k \in log : k.worker = v /\ k.repo = r /\ c \in k.pinned
      BY <1>1, <2>2 DEF Shown
    <2>3. ASSUME NEW s \in Tasks, s[1] = v, task[s].pc = "log", task[s].repo = r, c \in task[s].land.repos[r].pinned
          PROVE  Shown(v, r, c)'
      <3>1. Advanced(v, r) /\ disk[v].land.repos[r] = task[s].land.repos[r]
        BY <2>3, LogFinds
      <3> QED BY <1>1, <1>3, <2>3, <3>1 DEF Shown
    <2> QED BY <1>1, <2>1, <2>2, <2>3 DEF Shown
  <1> QED BY <1>2, <1>4, <1>5 DEF Logged, WorkShown

LEMMA RestartLogged == ASSUME Held, Logged, Restart PROVE Logged'
  <1>1. ~up /\ up' /\ base' = base /\ task' = task /\ \A t \in Tasks : task[t].pc = "idle"
    BY DEF Restart, env, Held, Control
  \* The record of each worker, and each line, as the start leaves it.
  <1>2. ASSUME NEW w \in Workers, NEW r \in Of[w], NEW d, d = disk[w], Interrupted(w),
               d.land.repos[r].status = "advancing", InBase(d.land.repos[r], r)
        PROVE  r \in Repos /\ d.land.repos[r].tested \subseteq base[r]
    BY <1>2, OfRepos DEF InBase
  <1>3. ASSUME NEW k \in log', k \notin log
        PROVE  \E w \in Workers : \E r \in Of[w] :
                 /\ k = Line(w, disk[w].land, r) /\ disk[w].land # None /\ Interrupted(w)
                 /\ disk[w].land.repos[r].status = "advancing" /\ InBase(disk[w].land.repos[r], r)
    <2>1. PICK w \in Workers : \E r \in Of[w] :
                 /\ k = Line(w, disk[w].land, r) /\ Interrupted(w)
                 /\ disk[w].land.repos[r].status = "advancing" /\ InBase(disk[w].land.repos[r], r)
      BY <1>3, RestartLog DEF Held
    <2>2. disk[w].land # None
      BY <2>1, RecordIs DEF Held, Interrupted
    <2> QED BY <2>1, <2>2
  <1>4. LinesTrue'
    <2>1. ASSUME NEW k \in log' PROVE k.worker \in Workers /\ k.repo \in Repos /\ k.tested \subseteq base[k.repo]
      <3>1. CASE k \in log
        BY <3>1 DEF Logged, LinesTrue
      <3>2. CASE k \notin log
        BY <1>2, <1>3, <3>2 DEF Line
      <3> QED BY <3>1, <3>2
    <2> QED BY <1>1, <2>1 DEF LinesTrue
  <1>5. TasksKnow'
    BY <1>1 DEF TasksKnow
  <1>6. ASSUME NEW w \in Workers, NEW d, d = disk[w], NEW e, e = disk'[w], e.land # None,
               NEW k \in log', k.land = e.land.id
        PROVE  /\ k.worker = w /\ k.repo \in Of[w] /\ e.land.repos[k.repo].pinned = k.pinned
               /\ e.land.repos[k.repo].status = "landed"
    <2>1. Reconciled(w, d, e) /\ DiskKnows(w)
      BY <1>6, RestartIs DEF Held, Logged, DisksKnow
    <2>2. /\ d.land # None /\ e.land.id = d.land.id
          /\ \A r \in Of[w] : /\ e.land.repos[r].pinned = d.land.repos[r].pinned
                              /\ d.land.repos[r].status = "landed" => e.land.repos[r].status = "landed"
                              /\ Interrupted(w) /\ d.land.repos[r].status = "advancing" /\ InBase(d.land.repos[r], r)
                                   => e.land.repos[r].status = "landed"
      <3>1. CASE ~Interrupted(w)
        BY <1>6, <2>1, <3>1 DEF Reconciled
      <3>2. CASE Interrupted(w)
        <4>1. PICK m : m = reconcile(d.land)
          OBVIOUS
        <4>2. d.land \in LandState(w) /\ d.land # None /\ e.land = m
          BY <2>1, <3>2, <4>1 DEF Reconciled
        <4> QED BY <4>1, <4>2, ReconcileIs
      <3> QED BY <3>1, <3>2
    <2>3. CASE k \in log
      <3>1. /\ k.worker = w /\ k.repo \in Of[w] /\ d.land.repos[k.repo].pinned = k.pinned
            /\ d.land.repos[k.repo].status = "landed" \/ Advanced(w, k.repo)
        BY <1>6, <2>1, <2>2, <2>3 DEF DiskKnows
      <3>2. Advanced(w, k.repo) => Interrupted(w) /\ d.land.repos[k.repo].status = "advancing" /\ InBase(d.land.repos[k.repo], k.repo)
        BY <1>6 DEF Advanced, Interrupted, in_progress
      <3> QED BY <2>2, <3>1, <3>2
    <2>4. CASE k \notin log
      <3>1. PICK v \in Workers : \E r \in Of[v] :
                 /\ k = Line(v, disk[v].land, r) /\ disk[v].land # None /\ Interrupted(v)
                 /\ disk[v].land.repos[r].status = "advancing" /\ InBase(disk[v].land.repos[r], r)
        BY <1>3, <2>4
      <3>2. PICK r \in Of[v] :
                 /\ k = Line(v, disk[v].land, r) /\ disk[v].land # None /\ Interrupted(v)
                 /\ disk[v].land.repos[r].status = "advancing" /\ InBase(disk[v].land.repos[r], r)
        BY <3>1
      <3>3. k.land = disk[v].land.id /\ k.worker = v /\ k.repo = r /\ k.pinned = disk[v].land.repos[r].pinned
        BY <3>2 DEF Line
      <3>4. v = w
        <4>1. Uses(v, k.land) /\ Uses(w, k.land)
          BY <1>6, <2>2, <3>2, <3>3 DEF Uses
        <4> QED BY <4>1 DEF Held, Ids
      <3> QED BY <1>6, <2>2, <3>2, <3>3, <3>4
    <2> QED BY <2>3, <2>4
  <1>7. DisksKnow'
    <2>1. ASSUME NEW w \in Workers, disk'[w].land # None, NEW k \in log', k.land = disk'[w].land.id
          PROVE  /\ k.worker = w /\ k.repo \in Of[w] /\ disk'[w].land.repos[k.repo].pinned = k.pinned
                 /\ disk'[w].land.repos[k.repo].status = "landed"
      BY <1>6, <2>1
    <2> QED BY <2>1 DEF DisksKnow, DiskKnows
  <1>8. ASSUME NEW v \in Workers, NEW r \in Of[v], NEW c \in base[r] \cap Work(v)
        PROVE  \E k \in log' : k.worker = v /\ k.repo = r /\ c \in k.pinned
    <2>1. Shown(v, r, c)
      BY DEF Logged, WorkShown
    <2>2. CASE \E k \in log : k.worker = v /\ k.repo = r /\ c \in k.pinned
      BY <2>2, RestartLog DEF Held
    <2>3. CASE Advanced(v, r) /\ c \in disk[v].land.repos[r].pinned
      <3>1. PICK d : d = disk[v]
        OBVIOUS
      <3>2. Interrupted(v) /\ d.land # None /\ d.land.repos[r].status = "advancing" /\ InBase(d.land.repos[r], r)
        BY <2>3, <3>1 DEF Advanced, Interrupted, in_progress
      <3>3. PICK k \in log' : k.land = d.land.id /\ k.repo = r /\ (k \in log \/ k = Line(v, d.land, r))
        BY <3>1, <3>2, RestartLog DEF Held
      <3>4. CASE k \in log
        <4>1. k.worker = v /\ d.land.repos[r].pinned = k.pinned
          BY <3>1, <3>2, <3>3, <3>4 DEF Logged, DisksKnow, DiskKnows
        <4> QED BY <2>3, <3>1, <3>3, <4>1
      <3>5. CASE k = Line(v, d.land, r)
        BY <2>3, <3>1, <3>3, <3>5 DEF Line
      <3> QED BY <3>3, <3>4, <3>5
    <2> QED BY <1>1, <2>1, <2>2, <2>3 DEF Shown
  <1>9. WorkShown'
    BY <1>1, <1>8 DEF WorkShown, Shown
  <1> QED BY <1>4, <1>5, <1>7, <1>9 DEF Logged

LEMMA LoggedNext == ASSUME OneRun, Held, Logged, [Next]_vars PROVE Logged'
  <1>1. Classes
    BY StepIs
  <1>2. CASE \E t \in Tasks : TaskStep(t) /\ Runs(t)
    BY <1>2, RunsLines, RunsTasks, RunsDisks, RunsWork DEF Logged
  <1>3. CASE \E t \in Tasks : Starts(t)
    BY <1>3, StartsLogged
  <1>4. CASE Rests
    BY <1>4, RestsLogged
  <1>5. CASE \E w \in Workers : Withdraws(w)
    BY <1>5, WithdrawLogged
  <1>6. CASE Crash
    BY <1>6, CrashLogged
  <1>7. CASE Restart
    BY <1>7, RestartLogged
  <1> QED BY <1>1, <1>2, <1>3, <1>4, <1>5, <1>6, <1>7 DEF Classes

LEMMA LoggedInit == ASSUME Init PROVE Logged
  <1>1. log = {} /\ (\A t \in Tasks : task[t].pc = "idle") /\ \A w \in Workers : disk[w].land = None
    BY DEF Init, Idle
  <1>2. \A r \in Repos : base[r] = {}
    BY DEF Init
  <1> QED BY <1>1, <1>2, OfRepos DEF Logged, LinesTrue, TasksKnow, DisksKnow, DiskKnows, WorkShown

LEMMA LoggedIs == ASSUME Logged PROVE LandsLogged
  <1>1. ASSUME NEW w \in Workers, Quiet(w), NEW r \in Of[w], NEW c \in base[r] \cap Work(w)
        PROVE  c \in UNION {e.pinned : e \in {e \in log : e.worker = w /\ e.repo = r}}
    <2>1. Shown(w, r, c)
      BY DEF Logged, WorkShown
    <2>2. up /\ \A t \in Tasks : t[1] = w => task[t].pc = "idle"
      BY <1>1, QuietIs DEF Quiet
    <2>3. \E k \in log : k.worker = w /\ k.repo = r /\ c \in k.pinned
      BY <2>1, <2>2 DEF Shown
    <2> QED BY <2>3
  <1>2. \A e \in log : e.tested \subseteq base[e.repo]
    BY DEF Logged, LinesTrue
  <1> QED BY <1>1, <1>2 DEF LandsLogged

\* With one run at a time, once nothing of a worker runs, everything of its work
\* that Base holds is in the land log under the commit that was reviewed, though a
\* crash may come between the compare-and-swap of Base, the log's line and the save
\* of worker.json; and no line is of a commit Base doesn't hold.
THEOREM EveryLandIsLogged == ASSUME OneRun PROVE Spec => []LandsLogged
  <1>1. Init => Held /\ Logged
    BY HeldInit, LoggedInit
  <1>2. Held /\ Logged /\ [Next]_vars => (Held /\ Logged)'
    BY HeldNext, LoggedNext
  <1>3. Held /\ Logged => LandsLogged
    BY LoggedIs
  <1> QED BY <1>1, <1>2, <1>3, PTL DEF Spec

-------------------------------------------------------------------------------
(* No land is given up once something of it landed.                         *)

\* A land that waits on the human, of a worker that no longer lands, landed nothing.
Waived(d) == d.land # None /\ d.land.state = "awaiting_human" /\ d.phase # "landing" => landed(d.land) = {}

\* Who takes its worker's land away or puts another in its place: nothing of it
\* landed, or it is over.
GivesUp(d, x) ==
    /\ x.pc = "refuse" => landed(x.land) = {}
    /\ x.pc = "called" /\ d.land # None /\ d.land.id # x.land.id =>
         landed(d.land) = {} \/ d.land.state = "landed"

Spares ==
    /\ \A w \in Workers : Waived(disk[w])
    /\ \A t \in Tasks : GivesUp(disk[t[1]], task[t])

LEMMA GoesTo ==
  ASSUME Inv, NEW t \in Tasks
  PROVE  /\ \A pc, l : Go(t, pc, l) => task'[t].pc = pc /\ task'[t].land = l
         /\ \A pc, l, r : GoRepo(t, pc, l, r) => task'[t].pc = pc
         /\ \A pc, l, S : GoTodo(t, pc, l, S) => task'[t].pc = pc
         /\ Stop(t) => task'[t].pc = "idle"
         /\ \A l : Fail(t, l) => \/ task'[t].pc = "hold"
                                 \/ task'[t].pc = "refuse" /\ task'[t].land = l /\ landed(l) = {}
  <1>0. PICK y : y = task'[t]
    OBVIOUS
  <1>1. /\ \A pc, l : Go(t, pc, l) => y.pc = pc /\ y.land = l
        /\ Stop(t) => y.pc = "idle"
    <2>1. ASSUME NEW pc, NEW l, Go(t, pc, l) PROVE y.pc = pc /\ y.land = l
      <3>1. y = Gone(task[t], pc, l)
        BY <1>0, <2>1, GoIs
      <3> QED BY <3>1 DEF Gone
    <2>2. ASSUME Stop(t) PROVE y.pc = "idle"
      <3>1. y = Idle
        BY <1>0, <2>2, GoIs
      <3> QED BY <3>1 DEF Idle
    <2> QED BY <2>1, <2>2
  <1>2. ASSUME NEW pc, NEW l, NEW r, GoRepo(t, pc, l, r) PROVE y.pc = pc
    <2>1. y = GoneAt(task[t], pc, l, r)
      BY <1>0, <1>2, GoIs
    <2> QED BY <2>1 DEF GoneAt
  <1>3. ASSUME NEW pc, NEW l, NEW S, GoTodo(t, pc, l, S) PROVE y.pc = pc
    <2>1. y = GoneTo(task[t], pc, l, S)
      BY <1>0, <1>3, GoIs
    <2> QED BY <2>1 DEF GoneTo
  <1>4. ASSUME NEW l, Fail(t, l)
        PROVE  \/ y.pc = "hold"
               \/ y.pc = "refuse" /\ y.land = l /\ landed(l) = {}
    <2>1. \/ landed(l) = {} /\ Go(t, "refuse", l)
          \/ \E m, r : GoRepo(t, "hold", m, r)
      BY <1>4 DEF Fail
    <2> QED BY <1>1, <1>2, <2>1
  <1> QED BY <1>0, <1>1, <1>2, <1>3, <1>4

\* Where a task's step leaves it: it refuses only what landed nothing.
Sparing(y) == y.pc # "called" /\ (y.pc = "refuse" => landed(y.land) = {})

LEMMA TaskStepSpares == ASSUME Inv, Control, NEW t \in Tasks, TaskStep(t) PROVE Sparing(task'[t])
  <1>0. PICK y : y = task'[t]
    OBVIOUS
  <1>1. /\ \A pc, l : Go(t, pc, l) => y.pc = pc
        /\ \A pc, l, r : GoRepo(t, pc, l, r) => y.pc = pc
        /\ \A pc, l, S : GoTodo(t, pc, l, S) => y.pc = pc
        /\ Stop(t) => y.pc = "idle"
        /\ \A l : Fail(t, l) => Sparing(y)
    BY <1>0, GoesTo DEF Sparing
  <1>2. CASE StartLand(t)
    <2>1. Stop(t) \/ Go(t, "ask", land(t)) \/ Go(t, "drive", land(t))
      BY <1>2 DEF StartLand
    <2> QED BY <1>0, <1>1, <2>1 DEF Sparing
  <1>3. CASE Drive(t)
    <2>1. y.pc \in {"idle", "lock"}
      BY <1>0, <1>3, DriveRuns DEF Runs, Turns, Drive, At
    <2> QED BY <1>0, <2>1 DEF Sparing
  <1>4. CASE TakeLock(t) \/ LockBusy(t) \/ Locked(t)
    <2>1. y.pc \in {"lock", "drive", "prep"}
      BY <1>1, <1>4 DEF TakeLock, LockBusy, Locked
    <2> QED BY <1>0, <2>1 DEF Sparing
  <1>5. CASE Prepare(t)
    <2>1. y.pc = "prep" \/ Sparing(y)
      BY <1>1, <1>5 DEF Prepare
    <2> QED BY <1>0, <2>1 DEF Sparing
  <1>6. CASE Prepared(t)
    <2>1. y.pc = "check"
      BY <1>1, <1>6 DEF Prepared
    <2> QED BY <1>0, <2>1 DEF Sparing
  <1>7. CASE StartCheck(t)
    <2>1. y.pc = "check" \/ Sparing(y)
      BY <1>1, <1>7 DEF StartCheck
    <2> QED BY <1>0, <2>1 DEF Sparing
  <1>8. CASE ChecksStarted(t)
    <2>1. y.pc \in {"idle", "gate"}
      BY <1>1, <1>8 DEF ChecksStarted
    <2> QED BY <1>0, <2>1 DEF Sparing
  <1>9. CASE Gate(t)
    <2>1. y.pc \in {"finish", "ask", "cas"} \/ Sparing(y)
      BY <1>1, <1>9 DEF Gate
    <2> QED BY <1>0, <2>1 DEF Sparing
  <1>10. CASE Cas(t)
    <2>1. \/ \E l : Go(t, "log", l) \/ Go(t, "hold", l) \/ Fail(t, l)
          \/ \E l, S : task' = [task EXCEPT ![t] =
                          [@ EXCEPT !.pc = "prep", !.todo = S, !.again = TRUE, !.land = l]]
      BY <1>10 DEF Cas
    <2>2. task \in [Tasks -> Task] /\ task[t] \in Task
      BY DEF Inv, Hands
    <2>3. y.pc \in {"log", "hold", "prep"} \/ Sparing(y)
      <3>1. CASE \E l : Go(t, "log", l) \/ Go(t, "hold", l) \/ Fail(t, l)
        BY <1>1, <3>1
      <3>2. CASE \E l, S : task' = [task EXCEPT ![t] =
                              [@ EXCEPT !.pc = "prep", !.todo = S, !.again = TRUE, !.land = l]]
        <4>1. PICK l, S : y = [task[t] EXCEPT !.pc = "prep", !.todo = S, !.again = TRUE, !.land = l]
          BY <1>0, <2>2, <3>2
        <4> QED BY <2>2, <4>1 DEF Task
      <3> QED BY <2>1, <3>1, <3>2
    <2> QED BY <1>0, <2>3 DEF Sparing
  <1>11. CASE Log(t) \/ Refuse(t) \/ RefuseClean(t)
    <2>1. y.pc \in {"saveLanded", "clean", "idle"}
      BY <1>1, <1>11 DEF Log, Refuse, RefuseClean
    <2> QED BY <1>0, <2>1 DEF Sparing
  <1>12. CASE SaveLanded(t)
    <2>1. task' = [task EXCEPT ![t] = [@ EXCEPT !.pc = "gate", !.again = FALSE]]
      BY <1>12 DEF SaveLanded
    <2>2. task \in [Tasks -> Task] /\ task[t] \in Task
      BY DEF Inv, Hands
    <2>3. y = [task[t] EXCEPT !.pc = "gate", !.again = FALSE]
      BY <1>0, <2>1, <2>2
    <2>4. y.pc = "gate"
      BY <2>2, <2>3 DEF Task
    <2> QED BY <1>0, <2>4 DEF Sparing
  <1>13. CASE Hold(t) \/ HoldClean(t) \/ HoldSave(t) \/ Finish(t)
    <2>1. y.pc \in {"holdClean", "holdSave", "idle", "finishSave"}
      BY <1>1, <1>13 DEF Hold, HoldClean, HoldSave, Finish
    <2> QED BY <1>0, <2>1 DEF Sparing
  <1>14. CASE FinishSave(t)
    <2>1. Go(t, "unretire", land(t)) \/ Go(t, "retire", land(t))
      BY <1>14 DEF FinishSave
    <2> QED BY <1>0, <1>1, <2>1 DEF Sparing
  <1>15. CASE landed_unretired(t) \/ RetireLanded(t) \/ SaveEnd(t) \/ after_land(t)
    <2>1. y.pc \in {"idle", "saveEnd", "after"}
      BY <1>1, <1>15 DEF landed_unretired, RetireLanded, SaveEnd, after_land
    <2> QED BY <1>0, <2>1 DEF Sparing
  <1>16. CASE Ask(t)
    <2>1. y.pc = "asked" \/ Sparing(y)
      BY <1>1, <1>16 DEF Ask
    <2> QED BY <1>0, <2>1 DEF Sparing
  <1>17. CASE SaveAsk(t)
    <2>1. y.pc = "idle" \/ Sparing(y)
      BY <1>1, <1>17 DEF SaveAsk
    <2> QED BY <1>0, <2>1 DEF Sparing
  <1> QED BY <1>2, <1>3, <1>4, <1>5, <1>6, <1>7, <1>8, <1>9, <1>10, <1>11, <1>12, <1>13, <1>14,
             <1>15, <1>16, <1>17
      DEF TaskStep

\* A save keeps the phase.
LEMMA SaveKeeps ==
  ASSUME Inv, NEW w \in Workers, NEW l, Save(w, l), NEW d, d = disk[w], NEW e, e = disk'[w]
  PROVE  e = d \/ (e.phase = d.phase /\ e.land = l)
  <1>1. CASE Ours(w, l)
    BY <1>1, SaveIs DEF Ours
  <1>2. CASE ~Ours(w, l)
    BY <1>2 DEF Save
  <1> QED BY <1>1, <1>2

\* What a task's step makes of its worker's record: only a refusal takes it away.
Waives(t, d, e) ==
    \/ e = d
    \/ e.land = None /\ Refuse(t)
    \/ e.land # None /\ (e.phase = "landing" \/ e.land.state # "awaiting_human")

LEMMA TaskStepWaives ==
  ASSUME Held, NEW t \in Tasks, TaskStep(t), NEW d, d = disk[t[1]], NEW e, e = disk'[t[1]]
  PROVE  Waives(t, d, e)
  <1>0. PICK w, x : w = t[1] /\ x = task[t]
    OBVIOUS
  <1>1. /\ w \in Workers /\ Inv /\ disk \in [Workers -> Record]
        /\ x.pc # "idle" => States_of(d, x)
        /\ x.pc \in InRun => d.phase = "landing" /\ d.land # None
        /\ x.pc = "holdSave" => x.land.state = "held"
        /\ x.pc # "idle" => x.land \in LandState(w) /\ x.land # None
        /\ e.phase = "landing" => e.land # None
    <2>1. w \in Workers /\ Inv /\ disk \in [Workers -> Record] /\ TaskOf(World, w, x)
      BY <1>0, TaskWorker DEF Held, Inv, Hands, Records
    <2>2. x.pc # "idle" => States_of(d, x)
      BY <1>0 DEF Held, Control, Beside
    <2>3. d.phase = "landing" => d.land # None
      BY <1>0, <2>1, RecordIs
    <2>4. x.pc # "idle" => x.land \in LandState(w) /\ x.land # None
      BY <1>0, <2>1, TaskIs
    <2>5. e.phase = "landing" => e.land # None
      <3>1. Inv'
        BY <2>1, NextInv DEF Next
      <3> QED BY <1>0, <2>1, <3>1 DEF Inv, Records, RecordOf
    <2> QED BY <2>1, <2>2, <2>3, <2>4, <2>5 DEF States_of, InRun, TaskOf, Holding
  <1>2. CASE disk' = disk
    BY <1>2 DEF Waives
  <1>3. CASE StartLand(t)
    <2>1. PICK g : /\ g = [phase |-> "landing", land |-> x.land]
                   /\ disk' = disk \/ disk' = [disk EXCEPT ![w] = g]
      BY <1>0, <1>3 DEF StartLand, land
    <2>2. g.phase = "landing"
      BY <2>1
    <2>3. e = d \/ e = g
      BY <1>0, <1>1, <2>1
    <2> QED BY <1>1, <2>2, <2>3 DEF Waives
  <1>4. CASE \E l : Save(w, l) /\ x.pc \in InRun
    <2>1. e = d \/ e.phase = "landing"
      BY <1>0, <1>1, <1>4, SaveKeeps
    <2> QED BY <1>1, <2>1 DEF Waives
  <1>5. CASE \E l : Save(w, l) /\ l # None /\ l.state # "awaiting_human"
    <2>1. PICK l : Save(w, l) /\ l # None /\ l.state # "awaiting_human"
      BY <1>5
    <2>2. e = d \/ e.land = l
      BY <1>0, <1>1, <2>1, SaveKeeps
    <2> QED BY <2>1, <2>2 DEF Waives
  <1>6. CASE LockBusy(t) \/ Prepared(t) \/ ChecksStarted(t) \/ Gate(t)
    <2>1. x.pc \in InRun /\ (disk' = disk \/ \E l : Save(w, l))
      BY <1>0, <1>6 DEF LockBusy, Prepared, ChecksStarted, Gate, At, InRun
    <2> QED BY <1>2, <1>4, <2>1
  <1>7. CASE SaveLanded(t) \/ FinishSave(t) \/ SaveAsk(t)
    <2>1. x.pc \in InRun /\ \E l : Save(w, l)
      BY <1>0, <1>7 DEF SaveLanded, FinishSave, SaveAsk, At, InRun
    <2> QED BY <1>4, <2>1
  <1>8. CASE Refuse(t)
    <2>1. disk' = disk \/ disk' = [disk EXCEPT ![w] = [phase |-> "reported", land |-> None]]
      BY <1>0, <1>8 DEF Refuse
    <2>2. e = d \/ e.land = None
      <3>1. PICK g : g = [phase |-> "reported", land |-> None]
        OBVIOUS
      <3>2. g.land = None /\ (disk' = disk \/ disk' = [disk EXCEPT ![w] = g])
        BY <2>1, <3>1
      <3> QED BY <1>0, <1>1, <3>2
    <2> QED BY <1>8, <2>2 DEF Waives
  <1>9. CASE Hold(t)
    <2>1. PICK l : l = HeldAt(x.land, x.repo) /\ Save(w, l)
      BY <1>0, <1>9 DEF Hold, HeldAt, land
    <2>2. x.land \in LandState(w)
      BY <1>0, <1>1, <1>9 DEF Hold, At
    <2>3. l.state = "held"
      BY <2>1, <2>2 DEF HeldAt, LandState
    <2>4. l # None
      <3>1. Inv' /\ Go(t, "holdClean", l)
        BY <1>0, <1>1, <1>9, <2>1, HoldStep DEF Hold, HeldAt, land
      <3>2. PICK y : y = task'[t]
        OBVIOUS
      <3>3. y.pc = "holdClean" /\ y.land = l
        BY <1>1, <3>1, <3>2, GoesTo
      <3>4. TaskOf(World', w, y)
        BY <1>0, <3>1, <3>2 DEF Inv, Hands
      <3> QED BY <1>1, <3>3, <3>4, NoneAssumption DEF TaskOf, Whole
    <2> QED BY <1>5, <2>1, <2>3, <2>4
  <1>10. CASE HoldSave(t) \/ SaveEnd(t)
    <2>1. x.pc \in {"holdSave", "saveEnd"} /\ Save(w, x.land)
      BY <1>0, <1>10 DEF HoldSave, SaveEnd, At, land
    <2>2. x.land # None /\ x.land.state # "awaiting_human"
      BY <1>1, <2>1 DEF States_of
    <2> QED BY <1>5, <2>1, <2>2
  <1>11. CASE landed_unretired(t)
    <2>1. PICK l : /\ l = [x.land EXCEPT !.state = "landed"]
                   /\ disk' = disk \/ disk' = [disk EXCEPT ![w] = [phase |-> "reported", land |-> l]]
      BY <1>0, <1>11 DEF landed_unretired, land
    <2>2. x.land \in LandState(w)
      BY <1>0, <1>1, <1>11 DEF landed_unretired, At
    <2>3. l.state = "landed" /\ l # None
      BY <1>1, <2>1, <2>2, StateIs, NoneAssumption DEF States
    <2>4. PICK g : g = [phase |-> "reported", land |-> l]
      OBVIOUS
    <2>5. g.land = l /\ (disk' = disk \/ disk' = [disk EXCEPT ![w] = g])
      BY <2>1, <2>4
    <2>6. e = d \/ e.land = l
      BY <1>0, <1>1, <2>5
    <2> QED BY <2>3, <2>6 DEF Waives
  <1>12. CASE RetireLanded(t)
    <2>1. x.pc = "retire" /\ x.pc \in InRun
      BY <1>0, <1>12 DEF RetireLanded, At, InRun
    <2>2. \/ disk' = disk \/ \E l : Save(w, l)
          \/ disk' = [disk EXCEPT ![w].phase = "landed"]
      BY <1>0, <1>12 DEF RetireLanded
    <2>3. CASE disk' = [disk EXCEPT ![w].phase = "landed"]
      <3>1. e = [d EXCEPT !.phase = "landed"] /\ d \in Record
        BY <1>0, <1>1, <2>3
      <3>2. e.land = d.land
        BY <3>1 DEF Record
      <3>3. d.land.state = "advancing" /\ d.land # None
        BY <1>1, <2>1 DEF States_of
      <3> QED BY <3>2, <3>3 DEF Waives
    <2> QED BY <1>2, <1>4, <2>1, <2>2, <2>3
  <1>13. CASE Drive(t) \/ TakeLock(t) \/ Locked(t) \/ Prepare(t) \/ StartCheck(t) \/ Cas(t) \/ Log(t)
    BY <1>2, <1>13 DEF Drive, TakeLock, Locked, Prepare, StartCheck, Cas, Log
  <1>14. CASE RefuseClean(t) \/ HoldClean(t) \/ Finish(t) \/ after_land(t) \/ Ask(t)
    BY <1>2, <1>14 DEF RefuseClean, HoldClean, Finish, after_land, Ask
  <1> QED BY <1>3, <1>6, <1>7, <1>8, <1>9, <1>10, <1>11, <1>12, <1>13, <1>14 DEF TaskStep

LEMMA RunsSpares == ASSUME Held, Spares, NEW t \in Tasks, TaskStep(t), Runs(t) PROVE Spares'
  <1>1. PICK w, d, e : w = t[1] /\ d = disk[w] /\ e = disk'[w]
    OBVIOUS
  <1>2. w \in Workers /\ (\A v \in Workers : v # w => disk'[v] = disk[v])
        /\ \A s \in Tasks : s # t => task'[s] = task[s]
    BY <1>1, TaskWorker DEF Runs, Only
  <1>3. Waived(e)
    <2>1. Waived(d)
      BY <1>1, <1>2 DEF Spares
    <2>2. Waives(t, d, e)
      BY <1>1, TaskStepWaives
    <2> QED BY <2>1, <2>2 DEF Waived, Waives
  <1>4. ASSUME NEW v \in Workers PROVE Waived(disk'[v])
    BY <1>1, <1>2, <1>3 DEF Spares
  <1>5. ASSUME NEW s \in Tasks PROVE GivesUp(disk'[s[1]], task'[s])
    <2>1. CASE s = t
      <3>1. Sparing(task'[t])
        BY TaskStepSpares DEF Held
      <3> QED BY <2>1, <3>1 DEF Sparing, GivesUp
    <2>2. CASE s # t /\ task'[s].pc # "idle"
      <3>1. task'[s] = task[s] /\ s[1] # w /\ s[1] \in Workers
        BY <1>1, <2>2, OnlyMine
      <3>2. disk'[s[1]] = disk[s[1]] /\ GivesUp(disk[s[1]], task[s])
        BY <1>2, <3>1 DEF Spares
      <3> QED BY <3>1, <3>2
    <2>3. CASE task'[s].pc = "idle"
      BY <2>3 DEF GivesUp
    <2> QED BY <2>1, <2>2, <2>3
  <1> QED BY <1>4, <1>5 DEF Spares, Waived, GivesUp

LEMMA StartsSpares ==
  ASSUME Spares, NEW t \in Tasks, Starts(t), Waived(disk'[t[1]]), GivesUp(disk'[t[1]], task'[t])
  PROVE  Spares'
  <1>1. PICK w : w = t[1]
    OBVIOUS
  <1>2. /\ w \in Workers /\ (\A v \in Workers : v # w => disk'[v] = disk[v])
        /\ \A s \in Tasks : s # t => task'[s] = task[s]
        /\ \A s \in Tasks : s[1] = w => task[s].pc = "idle"
    BY <1>1, TaskWorker DEF Starts, Only
  <1>3. ASSUME NEW v \in Workers PROVE Waived(disk'[v])
    BY <1>1, <1>2 DEF Spares
  <1>4. ASSUME NEW s \in Tasks PROVE GivesUp(disk'[s[1]], task'[s])
    <2>1. CASE s = t
      BY <2>1
    <2>2. CASE s # t /\ s[1] = w
      <3>1. task'[s].pc = "idle"
        BY <1>2, <2>2
      <3> QED BY <3>1 DEF GivesUp
    <2>3. CASE s # t /\ s[1] # w
      <3>1. task'[s] = task[s] /\ disk'[s[1]] = disk[s[1]] /\ GivesUp(disk[s[1]], task[s])
        BY <1>2, <2>3, TaskWorker DEF Spares
      <3> QED BY <3>1
    <2> QED BY <2>1, <2>2, <2>3
  <1> QED BY <1>3, <1>4 DEF Spares, Waived, GivesUp

\* A call names a land anew only when the one there is landed nothing or is over.
LEMMA CallSpares ==
  ASSUME OneRun, Held, Spares, NEW w \in Workers, NEW c \in Callers, Call(w, c) PROVE Spares'
  <1>1. PICK t : t = <<w, c>>
    OBVIOUS
  <1>2. t \in Tasks /\ Starts(t) /\ t[1] = w
    BY <1>1, CallStarts DEF Held
  <1>3. disk' = disk /\ Landable(w)
    BY DEF Call
  <1>4. PICK pins, order :
          /\ pins \in [Of[w] -> UNION {Nameable(w, r) : r \in Of[w]}]
          /\ \A r \in Of[w] : pins[r] \in Nameable(w, r)
          /\ Go(t, "called", start_state(w, pins, order))
    BY <1>1 DEF Call
  <1>5. PICK d, y, m : d = disk[w] /\ y = task'[t] /\ m = start_state(w, pins, order)
    OBVIOUS
  <1>6. y.pc = "called" /\ y.land = m
    BY <1>2, <1>4, <1>5, GoesTo DEF Held
  <1>7. m.id = IF Resumes(d.land, pins) THEN d.land.id ELSE seq + 1
    BY <1>5, StartIs DEF Held
  <1>8. Waived(d) /\ Phased(w, d) /\ (d.land # None => d.land \in LandState(w))
    BY <1>5, RecordIs DEF Spares, Held, Control
  <1>9. ASSUME d.land # None, d.land.id # m.id, landed(d.land) # {} PROVE d.land.state = "landed"
    <2>1. DOMAIN d.land.repos = Of[w]
      BY <1>8, <1>9 DEF LandState
    <2>2. is_held(d.land) => Resumes(d.land, pins)
      <3>1. ASSUME is_held(d.land), NEW r \in landed(d.land) PROVE d.land.repos[r].pinned = pins[r]
        <4>1. r \in Of[w]
          BY <2>1 DEF landed
        <4>2. Nameable(w, r) = {d.land.repos[r].pinned}
          BY <1>5, <1>9, <3>1 DEF Nameable
        <4> QED BY <1>4, <4>1, <4>2
      <3> QED BY <1>9, <3>1 DEF Resumes
    <2>3. ~is_held(d.land)
      BY <1>7, <1>9, <2>2
    <2>4. d.phase = "reported" /\ d.land.state # "held"
      BY <1>3, <1>5, <1>9, <2>3 DEF Landable, is_held
    <2>5. d.land.state \notin {"locking", "checking", "advancing", "awaiting_human"}
      BY <1>8, <1>9, <2>4 DEF Phased, Waived
    <2>6. d.land.state \in States
      BY <1>8, <1>9 DEF LandState
    <2> QED BY <2>4, <2>5, <2>6 DEF States
  <1>10. Waived(disk'[t[1]]) /\ GivesUp(disk'[t[1]], task'[t])
    BY <1>2, <1>3, <1>5, <1>6, <1>8, <1>9 DEF GivesUp
  <1> QED BY <1>2, <1>10, StartsSpares

LEMMA RestsSpares == ASSUME Spares, Rests PROVE Spares'
  BY DEF Spares, Rests, Waived, GivesUp

LEMMA MarkEndedSpares == ASSUME OneRun, Held, Spares, NEW e \in ends, MarkEnded(e) PROVE Spares'
  <1>1. PICK w, t, r : w = e.job.worker /\ t = <<w, e.job.id>> /\ r = e.job.repo
    OBVIOUS
  <1>2. CASE task' = task /\ disk' = disk
    BY <1>2, MarkEndedRests, RestsSpares
  <1>3. CASE ~(task' = task /\ disk' = disk)
    <2>1. t \in Tasks /\ Starts(t)
      BY <1>1, <1>3, MarkEndedStarts DEF Held
    <2>2. w \in Workers /\ t[1] = w /\ disk \in [Workers -> Record] /\ task[t].pc = "idle"
      BY <1>1, MarkedIs DEF Held, Inv, Records, MarkEnded
    <2>3. PICK m : /\ disk' = [disk EXCEPT ![w].land = m] /\ m.state = "checking"
                   /\ \/ Fail(t, m)
                      \/ Go(t, "gate", [m EXCEPT !.state = "advancing"])
                      \/ task' = task
      BY <1>1, <1>3, MarkedIs DEF Held
    <2>4. PICK d : d = disk'[w]
      OBVIOUS
    <2>5. d = [disk[w] EXCEPT !.land = m]
      BY <2>2, <2>3, <2>4
    <2>6. d.land = m
      BY <2>2, <2>5 DEF Record
    <2>7. Waived(disk'[w])
      BY <2>3, <2>4, <2>6 DEF Waived
    <2>8. PICK y : y = task'[t]
      OBVIOUS
    <2>9. y.pc \in {"hold", "gate", "idle"} \/ (y.pc = "refuse" /\ landed(y.land) = {})
      BY <2>1, <2>2, <2>3, <2>8, GoesTo DEF Held
    <2>10. GivesUp(disk'[w], task'[t])
      BY <2>8, <2>9 DEF GivesUp
    <2> QED BY <2>1, <2>2, <2>7, <2>10, StartsSpares
  <1> QED BY <1>2, <1>3

LEMMA AnswerSpares == ASSUME Held, Spares, NEW c \in cards, Approve(c) \/ Deny(c) PROVE Spares'
  <1>1. PICK w, t : w = c.worker /\ t = <<w, "card">>
    OBVIOUS
  <1>2. Rests \/ (t \in Tasks /\ Starts(t))
    BY <1>1, ApproveStarts, DenyStarts DEF Held
  <1>3. CASE Rests
    BY <1>3, RestsSpares
  <1>4. CASE ~Rests
    <2>1. t \in Tasks /\ Starts(t) /\ t[1] = w /\ w \in Workers /\ disk \in [Workers -> Record]
      BY <1>1, <1>2, <1>4, TaskWorker DEF Held, Inv, Records
    <2>2. PICK y : y = task'[t]
      OBVIOUS
    <2>3. CASE Approve(c)
      <3>1. Fits(c)
        BY <1>4, <2>3, AnswerRests DEF Approve, Held, env
      <3>2. PICK m : /\ Go(t, "drive", m) /\ disk' = [disk EXCEPT ![w].land = m]
                     /\ m = GoesOn(disk[w].land, Agreed(c, w, disk[w].land))
        <4>1. disk[w].land \in LandState(w)
          BY <1>1, <2>1, <3>1, RecordIs DEF Fits, Held
        <4>2. DOMAIN disk[w].land.repos = Of[w]
          BY <4>1 DEF LandState
        <4> QED BY <1>1, <2>3, <3>1, <4>2 DEF Approve, Agreed, GoesOn
      <3>3. m.state = "locking"
        BY <3>2 DEF GoesOn
      <3>4. PICK d : d = disk'[w]
        OBVIOUS
      <3>5. d = [disk[w] EXCEPT !.land = m]
        BY <2>1, <3>2, <3>4
      <3>6. d.land = m
        BY <2>1, <3>5 DEF Record
      <3>7. Waived(disk'[w])
        BY <3>3, <3>4, <3>6 DEF Waived
      <3>8. y.pc = "drive"
        BY <2>1, <2>2, <3>2, GoesTo DEF Held
      <3>9. GivesUp(disk'[w], task'[t])
        BY <2>2, <3>8 DEF GivesUp
      <3> QED BY <2>1, <3>7, <3>9, StartsSpares
    <2>4. CASE Deny(c)
      <3>1. Fits(c)
        BY <1>4, <2>4, AnswerRests DEF Deny, Held, env
      <3>2. disk' = disk /\ Fail(t, disk[w].land)
        BY <1>1, <2>4, <3>1 DEF Deny
      <3>3. Waived(disk'[w])
        BY <2>1, <3>2 DEF Spares
      <3>4. y.pc = "hold" \/ (y.pc = "refuse" /\ landed(y.land) = {})
        BY <2>1, <2>2, <3>2, GoesTo DEF Held
      <3>5. GivesUp(disk'[w], task'[t])
        BY <2>2, <3>4 DEF GivesUp
      <3> QED BY <2>1, <3>3, <3>5, StartsSpares
    <2> QED BY <2>3, <2>4
  <1> QED BY <1>3, <1>4

LEMMA WithdrawSpares ==
  ASSUME Held, Spares, NEW w \in Workers, Report(w) \/ Retire(w) PROVE Spares'
  <1>1. PICK d, e : d = disk[w] /\ e = disk'[w]
    OBVIOUS
  <1>2. Withdraws(w)
    BY WithdrawIs DEF Held
  <1>3. /\ task' = task /\ (\A v \in Workers : v # w => disk'[v] = disk[v])
        /\ e.land # None => /\ d.land # None /\ e.land.id = d.land.id /\ e.land.repos = d.land.repos
                            /\ d.land.state = "landed" => e.land.state = "landed"
    BY <1>1, <1>2 DEF Withdraws
  <1>4. landed(e.land) = landed(d.land) \/ e.land = None
    BY <1>3 DEF landed
  <1>5. Waived(e)
    <2>1. PICK p : disk' = [disk EXCEPT ![w] = [phase |-> p, land |-> hold_if_partial(@.land)]]
      BY DEF Report, Retire, Withdraw
    <2>2. disk \in [Workers -> Record]
      BY DEF Held, Inv, Records
    <2>3. e.land = hold_if_partial(d.land)
      BY <1>1, <2>1, <2>2
    <2>4. ASSUME e.land # None, e.land.state = "awaiting_human", landed(e.land) # {} PROVE FALSE
      <3>1. d.land # None /\ d.land \in LandState(w) /\ landed(d.land) # {}
        BY <1>1, <1>3, <1>4, <2>4, RecordIs DEF Held
      <3>2. CASE awaits_human(d.land)
        <4>1. e.land = [d.land EXCEPT !.state = "held"]
          BY <2>3, <3>1, <3>2 DEF hold_if_partial
        <4> QED BY <2>4, <3>1, <4>1 DEF LandState
      <3>3. CASE ~awaits_human(d.land)
        <4>1. e.land = d.land
          BY <2>3, <3>3 DEF hold_if_partial
        <4> QED BY <2>4, <3>1, <3>3, <4>1 DEF awaits_human
      <3> QED BY <3>2, <3>3
    <2> QED BY <2>4 DEF Waived
  <1>6. ASSUME NEW v \in Workers PROVE Waived(disk'[v])
    BY <1>1, <1>3, <1>5 DEF Spares
  <1>7. ASSUME NEW t \in Tasks PROVE GivesUp(disk'[t[1]], task'[t])
    <2>1. GivesUp(disk[t[1]], task[t]) /\ t[1] \in Workers
      BY TaskWorker DEF Spares
    <2>2. CASE t[1] = w
      BY <1>1, <1>3, <1>4, <2>1, <2>2 DEF GivesUp
    <2>3. CASE t[1] # w
      BY <1>3, <2>1, <2>3
    <2> QED BY <2>2, <2>3
  <1> QED BY <1>6, <1>7 DEF Spares, Waived, GivesUp

LEMMA CrashSpares == ASSUME Spares, Crash PROVE Spares'
  <1>1. disk' = disk /\ \A t \in Tasks : task'[t].pc = "idle"
    BY DEF Crash, Idle
  <1> QED BY <1>1 DEF Spares, Waived, GivesUp

LEMMA RestartSpares == ASSUME Held, Spares, Restart PROVE Spares'
  <1>1. \A t \in Tasks : task'[t].pc = "idle"
    BY DEF Restart, Held, Control
  <1>2. ASSUME NEW w \in Workers PROVE Waived(disk'[w])
    <2>1. PICK d, e : d = disk[w] /\ e = disk'[w]
      OBVIOUS
    <2>2. Reconciled(w, d, e) /\ Waived(d)
      BY <2>1, RestartIs DEF Held, Spares
    <2>3. e = d \/ (e.land # None /\ e.land.state = "held")
      <3>1. CASE e # d
        <4>1. PICK m : m = reconcile(d.land)
          OBVIOUS
        <4>2. d.land \in LandState(w) /\ e.land = m /\ e.land # None
          BY <2>2, <3>1, <4>1 DEF Reconciled
        <4> QED BY <4>1, <4>2, ReconcileIs
      <3> QED BY <3>1
    <2> QED BY <2>1, <2>2, <2>3 DEF Waived
  <1> QED BY <1>1, <1>2 DEF Spares, Waived, GivesUp

LEMMA SparesNext == ASSUME OneRun, Held, Spares, [Next]_vars PROVE Spares'
  <1>1. CASE UNCHANGED vars
    BY <1>1, StutterRests, RestsSpares
  <1>2. CASE \E t \in Tasks : TaskStep(t)
    BY <1>2, HeldTask, RunsSpares
  <1>3. CASE \E q \in jobs : CheckEnds(q)
    BY <1>3, CheckEndsRests, RestsSpares
  <1>4. CASE \E e \in ends : MarkEnded(e)
    BY <1>4, MarkEndedSpares
  <1>5. CASE \E w \in Workers, c \in Callers : Call(w, c)
    BY <1>5, CallSpares
  <1>6. CASE \E d \in cards : Approve(d) \/ Deny(d)
    BY <1>6, AnswerSpares
  <1>7. CASE \E r \in Repos : HumanCommit(r)
    BY <1>7, HumanCommitRests, RestsSpares DEF Held
  <1>8. CASE \E w \in Workers, r \in Repos : WorkerCommit(w, r)
    BY <1>8, WorkerCommitRests, RestsSpares
  <1>9. CASE \E w \in Workers : Report(w) \/ Retire(w)
    BY <1>9, WithdrawSpares
  <1>10. CASE Crash \/ Restart
    BY <1>10, CrashSpares, RestartSpares
  <1> QED BY <1>1, <1>2, <1>3, <1>4, <1>5, <1>6, <1>7, <1>8, <1>9, <1>10 DEF Next, Others

LEMMA SparesInit == ASSUME Init PROVE Spares
  <1>1. (\A t \in Tasks : task[t].pc = "idle") /\ \A w \in Workers : disk[w].land = None
    BY DEF Init, Idle
  <1> QED BY <1>1 DEF Spares, Waived, GivesUp

\* Of what landed: only a task that refuses, or one that starts another land, would
\* take the record away, and neither does.
LEMMA NotGivenUp ==
  ASSUME OneRun, Held, Logged, Spares, [Next]_vars, NEW w \in Workers, NEW r \in Of[w],
         NEW d, d = disk[w], NEW e, e = disk'[w], d.land # None,
         d.land.repos[r].status = "landed" \/ HasLine(d.land, r)
  PROVE  \/ d.land.state = "landed" /\ e.land # None /\ e.land.id # d.land.id
         \/ e.land # None /\ e.land.id = d.land.id
  <1>1. Classes
    BY StepIs
  <1>2. DOMAIN d.land.repos = Of[w]
    BY RecordIs DEF Held, LandState
  <1>3. CASE e.land = d.land
    BY <1>3
  <1>4. CASE \E t \in Tasks : TaskStep(t) /\ Runs(t)
    <2>1. PICK t \in Tasks : TaskStep(t) /\ Runs(t)
      BY <1>4
    <2>2. CASE w # t[1]
      BY <1>3, <2>1, <2>2 DEF Runs
    <2>3. CASE w = t[1]
      <3>1. PICK x : x = task[t]
        OBVIOUS
      <3>2. /\ x.pc # "idle" /\ Copies(t, d, x) /\ GivesUp(d, x)
            /\ \/ e.land = d.land
               \/ e.land = None /\ Refuse(t)
               \/ e.land # None /\ e.land.id = x.land.id /\ x.pc # "clean"
        <4>1. x.pc # "idle" /\ Copies(t, d, x) /\ GivesUp(d, x)
          BY <2>1, <2>3, <3>1 DEF Runs, Held, Control, Beside, Spares
        <4>2. \/ e.land = d.land \/ e.land = None
              \/ e.land # None /\ e.land.id = x.land.id /\ x.pc # "clean"
          BY <2>1, <2>3, <3>1 DEF Runs, Turns, Alike
        <4>3. e.land = None => Refuse(t)
          BY <2>1, <2>3, TaskStepWaives DEF Waives
        <4> QED BY <4>1, <4>2, <4>3
      <3>3. CASE Refuse(t)
        <4>1. x.pc = "refuse"
          BY <3>1, <3>3 DEF Refuse, At
        <4>2. d.land.id = x.land.id /\ Carries(w, d.land, x.land) /\ landed(x.land) = {}
          BY <2>3, <3>2, <4>1 DEF Copies, GivesUp
        <4>3. DOMAIN x.land.repos = Of[w]
          BY <2>1, <2>3, <3>1, <4>1, TaskIs DEF Held, LandState
        <4>4. x.land.repos[r].status # "landed"
          BY <4>2, <4>3 DEF landed
        <4>5. ~HasLine(d.land, r)
          <5>1. Knows(w, x.land)
            BY <2>3, <3>1, <4>1 DEF Logged, TasksKnow
          <5> QED BY <4>2, <4>4, <5>1 DEF Knows, HasLine
        <4> QED BY <4>2, <4>4, <4>5 DEF Carries
      <3>4. CASE x.pc = "called" /\ d.land.id # x.land.id /\ e.land # None /\ e.land.id = x.land.id
        <4>1. landed(d.land) = {} \/ d.land.state = "landed"
          BY <3>2, <3>4 DEF GivesUp
        <4>2. landed(d.land) # {}
          <5>1. d.land.repos[r].status = "landed" \/ Saving(w, r)
            <6>1. CASE HasLine(d.land, r)
              <7>1. DiskKnows(w) /\ up
                BY <2>1 DEF Logged, DisksKnow, Runs
              <7> QED BY <6>1, <7>1 DEF HasLine, DiskKnows
            <6> QED BY <6>1
          <5>2. ~Saving(w, r)
            <6> SUFFICES ASSUME NEW s \in Tasks, s[1] = w, task[s].pc = "saveLanded" PROVE FALSE
              BY DEF Saving
            <6>1. s = t
              BY <2>3, <3>1, <3>4 DEF Held, Control, Alone
            <6> QED BY <3>1, <3>4, <6>1
          <5> QED BY <1>2, <5>1, <5>2 DEF landed
        <4> QED BY <3>4, <4>1, <4>2
      <3>5. CASE e.land # None /\ e.land.id = x.land.id /\ x.pc # "clean" /\ x.pc # "called"
        <4>1. d.land.id = x.land.id
          BY <3>2, <3>5 DEF Copies
        <4> QED BY <3>5, <4>1
      <3> QED BY <1>3, <3>2, <3>3, <3>4, <3>5
    <2> QED BY <2>2, <2>3
  <1>5. CASE \E t \in Tasks : Starts(t)
    <2>1. PICK t \in Tasks : Starts(t)
      BY <1>5
    <2>2. CASE w = t[1]
      BY <2>1, <2>2 DEF Starts
    <2>3. CASE w # t[1]
      BY <1>3, <2>1, <2>3 DEF Starts
    <2> QED BY <2>2, <2>3
  <1>6. CASE Rests \/ Crash
    BY <1>3, <1>6 DEF Rests, Crash
  <1>7. CASE \E v \in Workers : Withdraws(v)
    BY <1>3, <1>7 DEF Withdraws
  <1>8. CASE Restart
    <2>1. Reconciled(w, d, e)
      BY <1>8, RestartIs DEF Held
    <2>2. CASE e # d
      <3>1. PICK m : m = reconcile(d.land)
        OBVIOUS
      <3>2. d.land \in LandState(w) /\ e.land = m /\ e.land # None
        BY <2>1, <2>2, <3>1 DEF Reconciled
      <3>3. m.id = d.land.id
        BY <3>1, <3>2, ReconcileIs
      <3> QED BY <3>2, <3>3
    <2> QED BY <1>3, <2>2
  <1> QED BY <1>1, <1>4, <1>5, <1>6, <1>7, <1>8 DEF Classes

\* The log only grows.
LEMMA LogGrows == ASSUME OneRun, Held, [Next]_vars PROVE log \subseteq log'
  <1>1. Classes
    BY StepIs
  <1>2. CASE \E t \in Tasks : TaskStep(t) /\ Runs(t)
    BY <1>2, NewLine
  <1>3. CASE (\E t \in Tasks : Starts(t)) \/ Rests \/ \E w \in Workers : Withdraws(w)
    BY <1>3 DEF Starts, Rests, Withdraws
  <1>4. CASE Crash
    BY <1>4 DEF Crash
  <1>5. CASE Restart
    BY <1>5, RestartLog DEF Held
  <1> QED BY <1>1, <1>2, <1>3, <1>4, <1>5 DEF Classes

\* While the land is the record's, what landed of it stays so, at its pin.
LEMMA StaysLanded ==
  ASSUME OneRun, Held, Logged, Logged', [Next]_vars, NEW w \in Workers, NEW r \in Of[w],
         NEW d, d = disk[w], NEW e, e = disk'[w], d.land # None, e.land # None, e.land.id = d.land.id,
         d.land.repos[r].status = "landed" \/ HasLine(d.land, r)
  PROVE  /\ e.land.repos[r].pinned = d.land.repos[r].pinned
         /\ e.land.repos[r].status \in {d.land.repos[r].status, "landed"}
  <1>1. CASE d.land.repos[r].status = "landed"
    <2>1. Carries(w, d.land, e.land)
      BY Carried
    <2> QED BY <1>1, <2>1 DEF Carries
  <1>2. CASE HasLine(d.land, r) /\ d.land.repos[r].status # "landed"
    <2>1. PICK k \in log : k.land = d.land.id /\ k.repo = r
      BY <1>2 DEF HasLine
    <2>2. k \in log'
      BY <2>1, LogGrows
    <2>3. d.land.repos[r].pinned = k.pinned /\ d.land.repos[r].status = "advancing"
      <3>1. DiskKnows(w)
        BY DEF Logged, DisksKnow
      <3> QED BY <1>2, <2>1, <3>1 DEF DiskKnows, Advanced
    <2>4. /\ e.land.repos[r].pinned = k.pinned
          /\ e.land.repos[r].status \in {"landed", "advancing"}
      <3>1. DiskKnows(w)'
        BY DEF Logged, DisksKnow
      <3> QED BY <2>1, <2>2, <3>1 DEF DiskKnows, Advanced
    <2> QED BY <2>3, <2>4
  <1> QED BY <1>1, <1>2

\* With one run at a time, what landed, by its record or by its line in the log,
\* stays landed at its pin: whatever fails, is answered, withdrawn, resumed or cut
\* off by a crash, its land is not refused, forgotten or replaced and lands it no
\* second time, until it is over (driver.rs: fail; mod.rs: start_state; approval.rs:
\* hold_if_partial).
THEOREM NothingLandsTwice == ASSUME OneRun PROVE Spec => LandedKept
  <1> DEFINE I == Held /\ Logged /\ Spares
  <1>1. I /\ [Next]_vars => I'
    BY HeldNext, LoggedNext, SparesNext
  <1>2. ASSUME I, I', [Next]_vars
        PROVE [\A w \in Workers : \A r \in Of[w] :
                LET l == disk[w].land  m == disk'[w].land
                IN  l # None /\ (l.repos[r].status = "landed" \/ HasLine(l, r)) =>
                    \/ l.state = "landed" /\ m # None /\ m.id # l.id
                    \/ /\ m # None /\ m.id = l.id /\ m.repos[r].pinned = l.repos[r].pinned
                       /\ m.repos[r].status \in {l.repos[r].status, "landed"}]_vars
    <2>1. ASSUME NEW w \in Workers, NEW r \in Of[w], NEW d, d = disk[w], NEW e, e = disk'[w], d.land # None,
                 d.land.repos[r].status = "landed" \/ HasLine(d.land, r)
          PROVE  \/ d.land.state = "landed" /\ e.land # None /\ e.land.id # d.land.id
                 \/ /\ e.land # None /\ e.land.id = d.land.id
                    /\ e.land.repos[r].pinned = d.land.repos[r].pinned
                    /\ e.land.repos[r].status \in {d.land.repos[r].status, "landed"}
      <3>1. \/ d.land.state = "landed" /\ e.land # None /\ e.land.id # d.land.id
            \/ e.land # None /\ e.land.id = d.land.id
        BY <1>2, <2>1, NotGivenUp
      <3> QED BY <1>2, <2>1, <3>1, StaysLanded
    <2> QED BY <2>1
  <1>3. Init => I
    BY HeldInit, LoggedInit, SparesInit
  <1> HIDE DEF I
  <1>4. I /\ I' /\ [Next]_vars =>
               [\A w \in Workers : \A r \in Of[w] :
                LET l == disk[w].land  m == disk'[w].land
                IN  l # None /\ (l.repos[r].status = "landed" \/ HasLine(l, r)) =>
                    \/ l.state = "landed" /\ m # None /\ m.id # l.id
                    \/ /\ m # None /\ m.id = l.id /\ m.repos[r].pinned = l.repos[r].pinned
                       /\ m.repos[r].status \in {l.repos[r].status, "landed"}]_vars
    BY <1>2
  <1> QED BY <1>1, <1>3, <1>4, PTL DEF Spec, LandedKept

-------------------------------------------------------------------------------
(* The card a land waits on.                                                *)

\* Where a card's name stands for worker w.
Mentions(w, c) ==
    \/ disk[w].land # None /\ disk[w].land.request = c
    \/ \E t \in Tasks : t[1] = w /\ task[t].pc # "idle" /\ task[t].land.request = c
    \/ \E d \in cards : d.worker = w /\ d.id = c

\* A card that asks for what land l of worker w waits on.
Suits(d, w, l) ==
    /\ d.worker = w /\ d.id = l.request /\ d.land = l.id
    /\ \A r \in unlanded(l) : r \in DOMAIN d.pins /\ d.pins[r] = l.repos[r].pinned

HasCard(C, w, l) == l.request \in CardIds /\ \E d \in C : Suits(d, w, l)

Apart    == \A v, w \in Workers : \A c \in CardIds : Mentions(v, c) /\ Mentions(w, c) => v = w
AskedHas == \A t \in Tasks : task[t].pc = "asked" => HasCard(cards, t[1], task[t].land)
WaitsHas == \A w \in Workers : Waits(disk[w]) =>
              /\ disk[w].land.request \in CardIds
              /\ up /\ (\A s \in Tasks : s[1] = w => task[s].pc = "idle") => HasCard(cards, w, disk[w].land)

Carded == Apart /\ AskedHas /\ WaitsHas

\* The card await_human files asks for the land as it is then saved.
LEMMA CardSuits ==
  ASSUME NEW w \in Workers, NEW m \in LandState(w), NEW c, NEW k, k = [m EXCEPT !.request = c]
  PROVE  k.request = c /\ Suits(Card(c, w, m), w, k)
  <1>1. k.request = c /\ k.id = m.id /\ k.repos = m.repos
    BY DEF LandState
  <1>2. unlanded(k) = unlanded(m)
    BY <1>1 DEF unlanded, landed
  <1>3. PICK d : d = Card(c, w, m)
    OBVIOUS
  <1>4. /\ d.worker = w /\ d.id = c /\ d.land = m.id
        /\ d.pins = [r \in unlanded(m) |-> m.repos[r].pinned]
    BY <1>3 DEF Card
  <1> QED BY <1>1, <1>2, <1>3, <1>4 DEF Suits

LEMMA AskFiles ==
  ASSUME Inv, NEW t \in Tasks, Ask(t), NEW w, w = t[1], NEW x, x = task[t], NEW y, y = task'[t]
  PROVE  \/ y.pc # "asked" /\ y.land.request = x.land.request /\ cards' = cards
         \/ /\ y.pc = "asked" /\ y.land.request \in FreshCards
            /\ \E k : cards' = cards \cup {k} /\ Suits(k, w, y.land)
  <1>1. PICK m, c : /\ x.pc = "ask" /\ m = AskedLand(x.land) /\ c = CHOOSE n \in FreshCards : TRUE
                    /\ FreshCards # {}
                    /\ \/ Go(t, "asked", [m EXCEPT !.request = c]) /\ cards' = cards \cup {Card(c, w, m)}
                       \/ Fail(t, m) /\ cards' = cards
    BY DEF Ask, At, land, AskedLand
  <1>2. w \in Workers /\ x.land \in LandState(w)
    BY <1>1, TaskIs
  <1>3. m \in LandState(w) /\ m.request = x.land.request
    BY <1>1, <1>2, AskedIs
  <1>4. c \in FreshCards
    BY <1>1
  <1>5. CASE Fail(t, m) /\ cards' = cards
    BY <1>3, <1>5, FailIs
  <1>6. CASE Go(t, "asked", [m EXCEPT !.request = c]) /\ cards' = cards \cup {Card(c, w, m)}
    <2>1. PICK k : k = [m EXCEPT !.request = c]
      OBVIOUS
    <2>2. y = Gone(x, "asked", k)
      BY <1>6, <2>1, GoIs
    <2>3. y.pc = "asked" /\ y.land = k
      BY <2>2 DEF Gone
    <2>4. k.request = c /\ Suits(Card(c, w, m), w, k)
      BY <1>2, <1>3, <2>1, CardSuits
    <2> QED BY <1>4, <1>6, <2>3, <2>4
  <1> QED BY <1>1, <1>5, <1>6

\* The save that follows is of the run's own land.
LEMMA AskSaves ==
  ASSUME Held, NEW t \in Tasks, SaveAsk(t), NEW w, w = t[1], NEW x, x = task[t], NEW y, y = task'[t]
  PROVE  x.pc = "asked" /\ y.pc = "idle" /\ disk'[w].land = x.land /\ cards' = cards
  <1>1. Inv /\ Control
    BY DEF Held
  <1>2. PICK d : d = disk[w]
    OBVIOUS
  <1>3. x.pc = "asked" /\ w \in Workers /\ d.land # None /\ d.land.id = x.land.id
    BY <1>1, <1>2, BusyIs DEF SaveAsk, At, InRun
  <1>4. Save(w, x.land) /\ Stop(t) /\ cards' = cards
    BY <1>2, <1>3 DEF SaveAsk, land, Ours
  <1>5. disk'[w].land = x.land
    BY <1>1, <1>2, <1>3, <1>4, SaveIs
  <1>6. y.pc = "idle"
    BY <1>1, <1>4, GoIs DEF Idle
  <1> QED BY <1>3, <1>4, <1>5, <1>6

LEMMA FreshMentions == ASSUME Inv, NEW c \in FreshCards, NEW w \in Workers PROVE ~Mentions(w, c) /\ c \in CardIds
  <1>1. \A t \in Tasks : task[t].pc # "idle" => task[t].land # None
    BY TaskIs
  <1> QED BY <1>1 DEF Mentions, FreshCards, land

\* The cards a task's step leaves.
LEMMA RunsCards ==
  ASSUME Held, NEW t \in Tasks, TaskStep(t), Runs(t), NEW w, w = t[1], NEW x, x = task[t], NEW y, y = task'[t],
         NEW e, e = disk'[w]
  PROVE  /\ cards \subseteq cards'
         /\ \/ cards' = cards /\ y.pc # "asked"
            \/ /\ y.pc = "asked" /\ y.land.request \in FreshCards
               /\ \E k : cards' = cards \cup {k} /\ Suits(k, w, y.land)
         /\ x.pc = "ask" /\ y.pc \notin {"idle", "asked"} => y.land.request = x.land.request
         /\ Waits(e) => x.pc = "asked" /\ e.land = x.land
  <1>1. Inv
    BY DEF Held
  <1>2. /\ y.pc = "asked" => x.pc = "ask"
        /\ Waits(e) => x.pc = "asked"
    BY DEF Runs, Turns
  <1>3. x.pc = "ask" => Ask(t)
    BY DEF TaskStep, StartLand, Drive, TakeLock, LockBusy, Locked, Prepare, Prepared,
       StartCheck, ChecksStarted, Gate, Cas, Log, SaveLanded, Refuse, RefuseClean, Hold, HoldClean,
       HoldSave, Finish, FinishSave, landed_unretired, RetireLanded, SaveEnd, after_land, SaveAsk, At
  <1>4. x.pc = "asked" => SaveAsk(t)
    BY DEF TaskStep, StartLand, Drive, TakeLock, LockBusy, Locked, Prepare, Prepared,
       StartCheck, ChecksStarted, Gate, Cas, Log, SaveLanded, Refuse, RefuseClean, Hold, HoldClean,
       HoldSave, Finish, FinishSave, landed_unretired, RetireLanded, SaveEnd, after_land, Ask, At
  <1>5. Ask(t) => x.pc = "ask"
    BY DEF Ask, At
  <1>6. CASE Ask(t)
    BY <1>1, <1>2, <1>5, <1>6, AskFiles
  <1>7. CASE SaveAsk(t)
    BY <1>7, AskSaves
  <1>8. CASE ~Ask(t) /\ ~SaveAsk(t)
    <2>1. cards' = cards
      BY <1>8, TaskStepKeeps
    <2> QED BY <1>2, <1>3, <1>4, <1>8, <2>1
  <1> QED BY <1>6, <1>7, <1>8

LEMMA RunsMentions ==
  ASSUME Held, NEW t \in Tasks, TaskStep(t), Runs(t), NEW v \in Workers, NEW c, Mentions(v, c)'
  PROVE  Mentions(v, c) \/ (v = t[1] /\ c \in FreshCards)
  <1>1. PICK w, x, y, d, e : w = t[1] /\ x = task[t] /\ y = task'[t] /\ d = disk[w] /\ e = disk'[w]
    OBVIOUS
  <1>2. /\ w \in Workers /\ x.pc # "idle" /\ Only(t) /\ Turns(w, x, y, d, e)
        /\ \A u \in Workers : u # w => disk'[u] = disk[u]
    BY <1>1, TaskWorker DEF Runs
  <1>3. /\ cards \subseteq cards'
        /\ \/ cards' = cards /\ y.pc # "asked"
           \/ /\ y.pc = "asked" /\ y.land.request \in FreshCards
              /\ \E k : cards' = cards \cup {k} /\ Suits(k, w, y.land)
        /\ x.pc = "ask" /\ y.pc \notin {"idle", "asked"} => y.land.request = x.land.request
    BY <1>1, RunsCards
  <1>4. Mentions(w, x.land.request) /\ (d.land # None => Mentions(w, d.land.request))
    BY <1>1, <1>2 DEF Mentions
  <1>5. CASE disk'[v].land # None /\ disk'[v].land.request = c
    <2>1. CASE v = w
      BY <1>1, <1>2, <1>4, <1>5, <2>1 DEF Turns
    <2>2. CASE v # w
      BY <1>2, <1>5, <2>2 DEF Mentions
    <2> QED BY <2>1, <2>2
  <1>6. ASSUME NEW s \in Tasks, s[1] = v, task'[s].pc # "idle", task'[s].land.request = c
        PROVE  Mentions(v, c) \/ (v = w /\ c \in FreshCards)
    <2>1. CASE s # t
      <3>1. task'[s] = task[s]
        BY <1>2, <2>1 DEF Only
      <3> QED BY <1>6, <3>1 DEF Mentions
    <2>2. CASE s = t
      <3>1. y.pc # "idle" /\ y.land.request = c /\ v = w
        BY <1>1, <1>6, <2>2
      <3>2. CASE x.pc \notin {"drive", "ask"}
        <4>1. y.land.request = x.land.request
          BY <1>2, <3>1, <3>2 DEF Turns
        <4> QED BY <1>4, <3>1, <4>1
      <3>3. CASE x.pc = "ask"
        BY <1>3, <1>4, <3>1, <3>3
      <3>4. CASE x.pc = "drive"
        <4>1. y.land \in {None, d.land}
          BY <1>2, <3>4 DEF Turns
        <4>2. y.land # None
          <5>1. Inv'
            BY TaskStepInv DEF Held
          <5>2. y.land \in LandState(w)
            BY <1>1, <3>1, <5>1 DEF Inv, Hands, TaskOf, Whole
          <5> QED BY <1>2, <5>2, NoneAssumption
        <4> QED BY <1>4, <3>1, <4>1, <4>2
      <3> QED BY <3>2, <3>3, <3>4
    <2> QED BY <2>1, <2>2
  <1>7. ASSUME NEW k \in cards', k.worker = v, k.id = c
        PROVE  Mentions(v, c) \/ (v = w /\ c \in FreshCards)
    <2>1. CASE k \in cards
      BY <1>7, <2>1 DEF Mentions
    <2>2. CASE k \notin cards
      <3>1. Suits(k, w, y.land) /\ y.land.request \in FreshCards
        BY <1>3, <1>7, <2>2
      <3> QED BY <1>7, <3>1 DEF Suits
    <2> QED BY <2>1, <2>2
  <1> QED BY <1>1, <1>5, <1>6, <1>7 DEF Mentions

LEMMA RunsCarded == ASSUME Held, Carded, NEW t \in Tasks, TaskStep(t), Runs(t) PROVE Carded'
  <1>1. PICK w, x, y, d, e : w = t[1] /\ x = task[t] /\ y = task'[t] /\ d = disk[w] /\ e = disk'[w]
    OBVIOUS
  <1>2. /\ w \in Workers /\ x.pc # "idle" /\ Only(t) /\ up /\ up'
        /\ \A v \in Workers : v # w => disk'[v] = disk[v]
    BY <1>1, TaskWorker DEF Runs
  <1>3. /\ cards \subseteq cards'
        /\ \/ cards' = cards /\ y.pc # "asked"
           \/ /\ y.pc = "asked" /\ y.land.request \in FreshCards
              /\ \E k : cards' = cards \cup {k} /\ Suits(k, w, y.land)
        /\ Waits(e) => x.pc = "asked" /\ e.land = x.land
    BY <1>1, RunsCards
  <1>4. Inv
    BY DEF Held
  <1>5. Apart'
    <2>1. ASSUME NEW v \in Workers, NEW u \in Workers, NEW c \in CardIds, Mentions(v, c)', Mentions(u, c)'
          PROVE  v = u
      <3>1. Mentions(v, c) \/ (v = w /\ c \in FreshCards)
        BY <1>1, <2>1, RunsMentions
      <3>2. Mentions(u, c) \/ (u = w /\ c \in FreshCards)
        BY <1>1, <2>1, RunsMentions
      <3>3. c \in FreshCards => ~Mentions(v, c) /\ ~Mentions(u, c)
        BY <1>4, FreshMentions
      <3> QED BY <3>1, <3>2, <3>3 DEF Carded, Apart
    <2> QED BY <2>1 DEF Apart
  <1>6. \A v, l : HasCard(cards, v, l) => HasCard(cards', v, l)
    BY <1>3 DEF HasCard
  <1>7. ASSUME NEW s \in Tasks, task'[s].pc = "asked" PROVE HasCard(cards', s[1], task'[s].land)
    <2>1. CASE s # t
      <3>1. task'[s] = task[s]
        BY <1>2, <2>1 DEF Only
      <3> QED BY <1>6, <1>7, <3>1 DEF Carded, AskedHas
    <2>2. CASE s = t
      <3>1. y.pc = "asked" /\ y.land.request \in FreshCards /\ \E k : cards' = cards \cup {k} /\ Suits(k, w, y.land)
        BY <1>1, <1>3, <1>7, <2>2
      <3>2. y.land.request \in CardIds
        BY <3>1 DEF FreshCards
      <3>3. PICK k \in cards' : Suits(k, w, y.land)
        BY <3>1
      <3>4. HasCard(cards', w, y.land)
        BY <3>2, <3>3 DEF HasCard
      <3> QED BY <1>1, <2>2, <3>4 DEF HasCard
    <2> QED BY <2>1, <2>2
  <1>8. ASSUME NEW v \in Workers, Waits(disk'[v])
        PROVE  /\ disk'[v].land.request \in CardIds
               /\ (\A s \in Tasks : s[1] = v => task'[s].pc = "idle") => HasCard(cards', v, disk'[v].land)
    <2>1. CASE v = w
      <3>1. x.pc = "asked" /\ e.land = x.land
        BY <1>1, <1>3, <1>8, <2>1
      <3>2. HasCard(cards, w, x.land)
        BY <1>1, <3>1 DEF Carded, AskedHas
      <3>3. HasCard(cards, w, e.land) /\ HasCard(cards', w, e.land)
        BY <1>6, <3>1, <3>2 DEF HasCard
      <3> QED BY <1>1, <2>1, <3>3 DEF HasCard
    <2>2. CASE v # w
      <3>1. disk'[v] = disk[v] /\ Waits(disk[v])
        BY <1>2, <1>8, <2>2
      <3>2. \A s \in Tasks : s[1] = v => task'[s] = task[s]
        BY <1>1, <1>2, <2>2 DEF Only
      <3>3. /\ disk[v].land.request \in CardIds
            /\ (\A s \in Tasks : s[1] = v => task[s].pc = "idle") => HasCard(cards, v, disk[v].land)
        BY <1>2, <3>1 DEF Carded, WaitsHas
      <3> QED BY <1>6, <3>1, <3>2, <3>3
    <2> QED BY <2>1, <2>2
  <1>9. AskedHas' /\ WaitsHas'
    BY <1>7, <1>8 DEF AskedHas, WaitsHas
  <1> QED BY <1>5, <1>9 DEF Carded

LEMMA StartsCarded == ASSUME Held, Carded, NEW t \in Tasks, Starts(t) PROVE Carded'
  <1>1. PICK w, y, d, e : w = t[1] /\ y = task'[t] /\ d = disk[w] /\ e = disk'[w]
    OBVIOUS
  <1>2. /\ w \in Workers /\ up /\ Only(t) /\ \A v \in Workers : v # w => disk'[v] = disk[v]
        /\ \A s \in Tasks : s[1] = w => task[s].pc = "idle"
        /\ e.land # None => d.land # None /\ e.land.request = d.land.request
        /\ Waits(e) => e = d /\ y.pc # "idle"
        /\ cards' \subseteq cards /\ \A k \in cards : k.worker # w => k \in cards'
        /\ y.pc # "asked"
        /\ y.pc # "idle" => y.land.request = None \/ (d.land # None /\ y.land.request = d.land.request)
    BY <1>1, TaskWorker DEF Starts
  <1>3. ASSUME NEW v \in Workers, NEW c \in CardIds, Mentions(v, c)' PROVE Mentions(v, c)
    <2>1. CASE disk'[v].land # None /\ disk'[v].land.request = c
      BY <1>1, <1>2, <2>1 DEF Mentions
    <2>2. ASSUME NEW s \in Tasks, s[1] = v, task'[s].pc # "idle", task'[s].land.request = c
          PROVE  Mentions(v, c)
      <3>1. CASE s # t
        <4>1. task'[s] = task[s]
          BY <1>2, <3>1 DEF Only
        <4> QED BY <2>2, <4>1 DEF Mentions
      <3>2. CASE s = t
        <4>1. c # None
          BY NoneAssumption
        <4> QED BY <1>1, <1>2, <2>2, <3>2, <4>1 DEF Mentions
      <3> QED BY <3>1, <3>2
    <2>3. CASE \E k \in cards' : k.worker = v /\ k.id = c
      BY <1>2, <2>3 DEF Mentions
    <2> QED BY <1>3, <2>1, <2>2, <2>3 DEF Mentions
  <1>4. Apart'
    BY <1>3 DEF Carded, Apart
  <1>5. \A v, l : v # w /\ HasCard(cards, v, l) => HasCard(cards', v, l)
    BY <1>2 DEF HasCard, Suits
  <1>6. ASSUME NEW s \in Tasks, task'[s].pc = "asked" PROVE HasCard(cards', s[1], task'[s].land)
    <2>1. task'[s] = task[s] /\ s[1] # w
      BY <1>1, <1>2, <1>6 DEF Only
    <2> QED BY <1>5, <1>6, <2>1 DEF Carded, AskedHas
  <1>7. ASSUME NEW v \in Workers, Waits(disk'[v])
        PROVE  /\ disk'[v].land.request \in CardIds
               /\ (\A s \in Tasks : s[1] = v => task'[s].pc = "idle") => HasCard(cards', v, disk'[v].land)
    <2>1. CASE v = w
      <3>1. e = d /\ y.pc # "idle" /\ Waits(d)
        BY <1>1, <1>2, <1>7, <2>1
      <3> QED BY <1>1, <2>1, <3>1 DEF Carded, WaitsHas
    <2>2. CASE v # w
      <3>1. disk'[v] = disk[v] /\ \A s \in Tasks : s[1] = v => task'[s] = task[s]
        BY <1>1, <1>2, <2>2 DEF Only
      <3>2. /\ disk[v].land.request \in CardIds
            /\ (\A s \in Tasks : s[1] = v => task[s].pc = "idle") => HasCard(cards, v, disk[v].land)
        BY <1>2, <1>7, <3>1 DEF Carded, WaitsHas
      <3> QED BY <1>5, <2>2, <3>1, <3>2
    <2> QED BY <2>1, <2>2
  <1>8. AskedHas' /\ WaitsHas'
    BY <1>6, <1>7 DEF AskedHas, WaitsHas
  <1> QED BY <1>4, <1>8 DEF Carded

\* The card a land waits on still fits its record.
LEMMA SuitsFits ==
  ASSUME Inv, NEW w \in Workers, NEW d \in cards, Waits(disk[w]), Suits(d, w, disk[w].land) PROVE Fits(d)
  <1>1. PICK l : l = disk[w].land
    OBVIOUS
  <1>2. l # None /\ disk[w].phase = "landing" /\ l.state = "awaiting_human"
    BY <1>1, RecordIs DEF Waits
  <1> QED BY <1>1, <1>2 DEF Fits, Suits, awaits_human

LEMMA RestsCarded == ASSUME "quick human" \notin Races, Held, Carded, Rests PROVE Carded'
  <1>1. /\ up' = up /\ disk' = disk /\ task' = task /\ cards' \subseteq cards
        /\ \A c \in cards : c \notin cards' =>
             ~Fits(c) /\ \A t \in Tasks : task[t].pc = "asked" => task[t].land.request # c.id
    BY DEF Rests
  <1>2. Apart'
    <2>1. \A v \in Workers : \A c : Mentions(v, c)' => Mentions(v, c)
      BY <1>1 DEF Mentions
    <2> QED BY <2>1 DEF Carded, Apart
  <1>3. AskedHas'
    <2>1. ASSUME NEW t \in Tasks, task[t].pc = "asked" PROVE HasCard(cards', t[1], task[t].land)
      BY <1>1, <2>1 DEF Carded, AskedHas, HasCard, Suits
    <2> QED BY <1>1, <2>1 DEF AskedHas
  <1>4. WaitsHas'
    <2>1. ASSUME NEW w \in Workers, Waits(disk[w]), HasCard(cards, w, disk[w].land)
          PROVE  HasCard(cards', w, disk[w].land)
      BY <1>1, <2>1, SuitsFits DEF HasCard, Held
    <2> QED BY <1>1, <2>1 DEF Carded, WaitsHas
  <1> QED BY <1>2, <1>3, <1>4 DEF Carded

LEMMA WithdrawCarded == ASSUME Held, Carded, NEW w \in Workers, Withdraws(w) PROVE Carded'
  <1>1. PICK d, e : d = disk[w] /\ e = disk'[w]
    OBVIOUS
  <1>2. /\ up /\ task' = task /\ \A v \in Workers : v # w => disk'[v] = disk[v]
        /\ e.phase \in {"reported", "retired"}
        /\ e.land # None => d.land # None /\ e.land.request = d.land.request
        /\ cards' \subseteq cards
        /\ \A c \in cards : c \notin cards' => d.land # None /\ c.id = d.land.request
    BY <1>1 DEF Withdraws
  <1>3. \A v \in Workers : \A c : Mentions(v, c)' => Mentions(v, c)
    BY <1>1, <1>2 DEF Mentions
  <1>4. Apart'
    BY <1>3 DEF Carded, Apart
  <1>5. ASSUME NEW v \in Workers, v # w, NEW l, HasCard(cards, v, l) PROVE HasCard(cards', v, l)
    <2>1. PICK k \in cards : Suits(k, v, l)
      BY <1>5 DEF HasCard
    <2>2. k.worker = v /\ k.id \in CardIds /\ Mentions(v, k.id)
      BY <1>5, <2>1 DEF HasCard, Suits, Mentions
    <2>3. k \in cards'
      <3> SUFFICES ASSUME k \notin cards' PROVE FALSE
        OBVIOUS
      <3>1. Mentions(w, k.id)
        BY <1>1, <1>2 DEF Mentions
      <3> QED BY <1>5, <2>2, <3>1 DEF Carded, Apart
    <2> QED BY <1>5, <2>1, <2>3 DEF HasCard
  <1>6. ASSUME NEW s \in Tasks, task[s].pc = "asked" PROVE HasCard(cards', s[1], task[s].land)
    <2>1. s[1] # w
      BY <1>6, WithdrawFinds DEF Held, InRun
    <2> QED BY <1>5, <1>6, <2>1, TaskWorker DEF Carded, AskedHas
  <1>7. ASSUME NEW v \in Workers, Waits(disk'[v])
        PROVE  /\ disk'[v].land.request \in CardIds
               /\ (\A s \in Tasks : s[1] = v => task'[s].pc = "idle") => HasCard(cards', v, disk'[v].land)
    <2>1. v # w
      BY <1>1, <1>2, <1>7 DEF Waits
    <2>2. disk'[v] = disk[v]
      BY <1>2, <2>1
    <2> QED BY <1>2, <1>5, <1>7, <2>1, <2>2 DEF Carded, WaitsHas
  <1>8. AskedHas' /\ WaitsHas'
    BY <1>2, <1>6, <1>7 DEF AskedHas, WaitsHas
  <1> QED BY <1>4, <1>8 DEF Carded

LEMMA CrashCarded == ASSUME Carded, Crash PROVE Carded'
  <1>1. ~up' /\ disk' = disk /\ cards' = {} /\ \A t \in Tasks : task'[t].pc = "idle"
    BY DEF Crash, Idle
  <1>2. \A v \in Workers : \A c : Mentions(v, c)' => Mentions(v, c)
    BY <1>1 DEF Mentions
  <1> QED BY <1>1, <1>2 DEF Carded, Apart, AskedHas, WaitsHas

\* A start files again the card of each land that waits.
LEMMA RestartCarded == ASSUME Held, Carded, Restart PROVE Carded'
  <1>1. /\ up' /\ task' = task /\ cards' = Refiled /\ \A t \in Tasks : task'[t].pc = "idle"
    BY DEF Restart, Held, Control
  <1>2. ASSUME NEW w \in Workers, NEW d, d = disk[w], NEW e, e = disk'[w]
        PROVE  /\ e.land # None => d.land # None /\ e.land.request = d.land.request
               /\ Waits(e) => e = d
    <2>1. Reconciled(w, d, e)
      BY <1>2, RestartIs DEF Held
    <2>2. CASE e = d
      BY <2>2
    <2>3. CASE e # d
      <3>1. PICK m : m = reconcile(d.land)
        OBVIOUS
      <3>2. d.land # None /\ d.land \in LandState(w) /\ e.land = m
        BY <2>1, <2>3, <3>1 DEF Reconciled
      <3>3. m.request = d.land.request /\ m.state = "held"
        BY <3>1, <3>2, ReconcileIs
      <3> QED BY <3>2, <3>3 DEF Waits
    <2> QED BY <2>2, <2>3
  <1>3. ASSUME NEW k \in Refiled
        PROVE  \E w \in Workers : k.worker = w /\ k.id = disk[w].land.request /\ disk[w].land # None
    <2>1. PICK w \in Workers : awaits_human(disk[w].land) /\ k = Card(disk[w].land.request, w, disk[w].land)
      BY DEF Refiled
    <2> QED BY <2>1 DEF Card, awaits_human
  <1>4. ASSUME NEW v \in Workers, NEW c, Mentions(v, c)' PROVE Mentions(v, c)
    <2>1. CASE disk'[v].land # None /\ disk'[v].land.request = c
      BY <1>2, <2>1 DEF Mentions
    <2>2. CASE \E k \in cards' : k.worker = v /\ k.id = c
      BY <1>1, <1>3, <2>2 DEF Mentions
    <2> QED BY <1>1, <1>4, <2>1, <2>2 DEF Mentions
  <1>5. Apart' /\ AskedHas'
    BY <1>1, <1>4 DEF Carded, Apart, AskedHas
  <1>6. ASSUME NEW w \in Workers, Waits(disk'[w])
        PROVE  disk'[w].land.request \in CardIds /\ HasCard(cards', w, disk'[w].land)
    <2>1. PICK d, l : d = disk[w] /\ l = d.land
      OBVIOUS
    <2>2. disk'[w] = d /\ Waits(d)
      BY <1>2, <1>6, <2>1
    <2>3. l.request \in CardIds
      BY <2>1, <2>2 DEF Carded, WaitsHas
    <2>4. l # None /\ awaits_human(l) /\ d.phase = "landing"
      BY <2>1, <2>2, RecordIs DEF Waits, awaits_human, Held
    <2>5. PICK k : k = Card(l.request, w, l)
      OBVIOUS
    <2>6. k \in Refiled
      BY <2>1, <2>4, <2>5 DEF Refiled
    <2>7. Suits(k, w, l)
      BY <2>5 DEF Suits, Card
    <2> QED BY <1>1, <2>1, <2>2, <2>3, <2>6, <2>7 DEF HasCard
  <1>7. WaitsHas'
    BY <1>6 DEF WaitsHas
  <1> QED BY <1>5, <1>7 DEF Carded

LEMMA CardedNext ==
  ASSUME OneRun, "quick human" \notin Races, Held, Carded, [Next]_vars PROVE Carded'
  <1>1. Classes
    BY StepIs
  <1>2. CASE \E t \in Tasks : TaskStep(t) /\ Runs(t)
    BY <1>2, RunsCarded
  <1>3. CASE \E t \in Tasks : Starts(t)
    BY <1>3, StartsCarded
  <1>4. CASE Rests
    BY <1>4, RestsCarded
  <1>5. CASE \E w \in Workers : Withdraws(w)
    BY <1>5, WithdrawCarded
  <1>6. CASE Crash
    BY <1>6, CrashCarded
  <1>7. CASE Restart
    BY <1>7, RestartCarded
  <1> QED BY <1>1, <1>2, <1>3, <1>4, <1>5, <1>6, <1>7 DEF Classes

LEMMA CardedInit == ASSUME Init PROVE Carded
  <1>1. /\ cards = {} /\ \A t \in Tasks : task[t].pc = "idle"
        /\ \A w \in Workers : disk[w].phase = "reported" /\ disk[w].land = None
    BY DEF Init, Idle
  <1> QED BY <1>1 DEF Carded, Apart, AskedHas, WaitsHas, Mentions, Waits

LEMMA CardedIs == ASSUME Held, Carded PROVE AwaitingHasCard
  <1>1. ASSUME NEW w \in Workers, Quiet(w), disk[w].phase = "landing", awaits_human(disk[w].land)
        PROVE  \E d \in cards : Fits(d) /\ d.worker = w
    <2>1. Waits(disk[w])
      BY <1>1 DEF Waits, awaits_human
    <2>2. up /\ \A s \in Tasks : s[1] = w => task[s].pc = "idle"
      BY <1>1, QuietIs DEF Quiet
    <2>3. PICK d \in cards : Suits(d, w, disk[w].land)
      BY <2>1, <2>2 DEF Carded, WaitsHas, HasCard
    <2>4. Fits(d) /\ d.worker = w
      BY <2>1, <2>3, SuitsFits DEF Held, Suits
    <2> QED BY <2>4
  <1> QED BY <1>1 DEF AwaitingHasCard

\* With one run at a time, and no card answered before its land is saved as waiting,
\* a land that waits on the human always has a card that fits it, through reports,
\* retirements and restarts of any worker: somebody can answer it.
THEOREM WaitingLandHasCard == ASSUME OneRun, "quick human" \notin Races PROVE Spec => []AwaitingHasCard
  <1>1. Init => Held /\ Carded
    BY HeldInit, CardedInit
  <1>2. Held /\ Carded /\ [Next]_vars => (Held /\ Carded)'
    BY HeldNext, CardedNext
  <1>3. Held /\ Carded => AwaitingHasCard
    BY CardedIs
  <1> QED BY <1>1, <1>2, <1>3, PTL DEF Spec

-------------------------------------------------------------------------------
(* Who holds the locks.                                                     *)

\* At most one repository of a worker has a check; or it has two, both with one,
\* and the end of a check is heard once the other's is done with.  With a third,
\* which has landed, a failing check may leave the other's running (README, 6).
FewChecks ==
    \A w \in Workers : \A r, q \in Of[w] \cap Checked :
        r = q \/ (Of[w] = {r, q} /\ "ends together" \notin Races)

\* Where a task may have locks.
Locking == {"lock", "prep", "check", "gate", "cas", "log", "saveLanded", "finish", "ask",
            "refuse", "clean", "hold", "holdClean"}

AllIdle(w) == \A t \in Tasks : t[1] = w => task[t].pc = "idle"

\* Check q is the one that land l waits for in its repository.
CheckOf(q, l) ==
    q.land = l.id /\ l.repos[q.repo].status = "checking" /\ l.repos[q.repo].job = q.id

\* How far a run of land l is with each repository still to land.
Steps(x) ==
    LET l == x.land IN
    /\ x.pc = "lock" => x.todo \subseteq unlanded(l) /\ ~x.again
    /\ x.pc = "prep" =>
         \A r \in unlanded(l) \ x.todo :
            l.repos[r].status = "tested" \/ (l.repos[r].status = "pending" /\ l.repos[r].tested # None)
    /\ x.pc = "check" =>
         \A r \in unlanded(l) \ x.todo : l.repos[r].status \in {"tested", "checking"}
    /\ x.pc \in {"prep", "check"} /\ x.again =>
         x.todo \subseteq {x.repo} /\ \A r \in unlanded(l) \ {x.repo} : l.repos[r].status = "tested"
    /\ x.pc \in {"gate", "saveLanded"} => \A r \in unlanded(l) : l.repos[r].status = "tested"
    /\ x.pc \in {"cas", "log"} => \A r \in unlanded(l) \ {x.repo} : l.repos[r].status = "tested"

\* Task x of worker w beside the locks K and the checks Q in the queue.
InHand(w, x, K, Q) ==
    /\ x.pc \in Running => \A r \in unlanded(x.land) : K[r] = x.land.id
    /\ x.pc = "lock" => \A r \in unlanded(x.land) \ x.todo : K[r] = x.land.id
    /\ \A q \in Q : q.worker = w =>
         x.pc \in {"check", "refuse", "clean"} /\ CheckOf(q, x.land) /\ K[q.repo] = q.land
    /\ Steps(x)

\* The record d of worker w, none of whose tasks runs, beside them.
AtRest(w, d, K, Q) ==
    /\ \A q \in Q : q.worker = w => d.land # None /\ d.land.state = "checking" /\ CheckOf(q, d.land)
    /\ d.land # None /\ d.land.state = "checking" =>
         \A r \in unlanded(d.land) :
            K[r] = d.land.id /\ d.land.repos[r].status \in {"tested", "checking"}

\* Task x has the lock of r, if it names the task's land.
Has(x, r) == x.pc \in Locking /\ (x.pc = "lock" => r \in unlanded(x.land) \ x.todo)

Owns(w, r) ==
    \/ \E t \in Tasks : t[1] = w /\ task[t].pc # "idle" /\ task[t].land.id = lock[r] /\ Has(task[t], r)
    \/ /\ disk[w].land # None /\ disk[w].land.state = "checking" /\ disk[w].land.id = lock[r]
       /\ AllIdle(w)

JobsApart ==
    /\ \A p, q \in jobs : p.worker = q.worker /\ p.id = q.id => p = q
    /\ \A p \in jobs : \A e \in ends : p.worker = e.job.worker => p.id # e.job.id

InHands == \A t \in Tasks : task[t].pc # "idle" => InHand(t[1], task[t], lock, jobs)
AtRests  == up => \A w \in Workers : AllIdle(w) => AtRest(w, disk[w], lock, jobs)
Owned  == \A r \in Repos : lock[r] # None => \E w \in Workers : r \in Of[w] /\ Owns(w, r)
NotYet == \A t \in Tasks : task[t].pc \in {"drive", "lock"} => disk[t[1]].land.state # "checking"
Down   == ~up => jobs = {} /\ \A r \in Repos : lock[r] = None

Locks == JobsApart /\ InHands /\ AtRests /\ Owned /\ NotYet /\ Down

-------------------------------------------------------------------------------
(* Locks and checks stay with their worker.                                 *)

LEMMA IdIs == \A w \in Workers : \A l \in LandState(w) : l.id # None /\ DOMAIN l.repos = Of[w]
  BY NoneAssumption DEF LandState

LEMMA UnlandedIs ==
  ASSUME NEW w \in Workers, NEW l \in LandState(w)
  PROVE  /\ unlanded(l) = {r \in Of[w] : l.repos[r].status # "landed"}
         /\ landed(l) = {r \in Of[w] : l.repos[r].status = "landed"}
         /\ unlanded(l) \subseteq Repos
  <1>1. DOMAIN l.repos = Of[w] /\ Of[w] \subseteq Repos
    BY IdIs, OfRepos
  <1> QED BY <1>1 DEF unlanded, landed

LEMMA UnlandedAlike ==
  ASSUME NEW w \in Workers, NEW l \in LandState(w), NEW m \in LandState(w), Alike(w, l, m)
  PROVE  unlanded(m) = unlanded(l)
  <1>1. \A r \in Of[w] : m.repos[r].status # "landed" <=> l.repos[r].status # "landed"
    BY DEF Alike
  <1>2. /\ unlanded(l) = {r \in Of[w] : l.repos[r].status # "landed"}
        /\ unlanded(m) = {r \in Of[w] : m.repos[r].status # "landed"}
    BY UnlandedIs
  <1> QED BY <1>1, <1>2

\* The lock of a busy task's land is the task's, and of a resting one's its check's.
LEMMA OwnLock ==
  ASSUME Held, Locks, NEW t \in Tasks, NEW x, x = task[t], x.pc # "idle",
         NEW r \in Repos, lock[r] = x.land.id
  PROVE  r \in Of[t[1]] /\ Has(x, r)
  <1>1. t[1] \in Workers /\ x.land.id # None
    BY TaskIs, IdIs DEF Held
  <1>2. PICK w \in Workers : r \in Of[w] /\ Owns(w, r)
    BY <1>1 DEF Locks, Owned
  <1>3. Uses(w, lock[r]) /\ Uses(t[1], lock[r])
    <2>1. Uses(w, lock[r])
      BY <1>2 DEF Owns, Uses
    <2>2. Uses(t[1], lock[r])
      BY DEF Uses
    <2> QED BY <2>1, <2>2
  <1>4. w = t[1]
    BY <1>1, <1>3 DEF Held, Ids
  <1>5. PICK s \in Tasks : s[1] = w /\ task[s].pc # "idle" /\ Has(task[s], r)
    BY <1>2, <1>4 DEF Owns, AllIdle
  <1>6. s = t
    BY <1>4, <1>5 DEF Held, Control, Alone
  <1> QED BY <1>2, <1>4, <1>5, <1>6

LEMMA RestLock ==
  ASSUME Held, Locks, NEW w \in Workers, AllIdle(w), NEW d, d = disk[w], d.land # None,
         NEW r \in Repos, lock[r] = d.land.id
  PROVE  r \in Of[w] /\ d.land.state = "checking"
  <1>1. d.land.id # None
    BY RecordIs, IdIs DEF Held
  <1>2. PICK v \in Workers : r \in Of[v] /\ Owns(v, r)
    BY <1>1 DEF Locks, Owned
  <1>3. Uses(v, lock[r]) /\ Uses(w, lock[r])
    <2>1. Uses(v, lock[r])
      BY <1>2 DEF Owns, Uses
    <2>2. Uses(w, lock[r])
      BY DEF Uses
    <2> QED BY <2>1, <2>2
  <1>4. v = w
    BY <1>3 DEF Held, Ids
  <1> QED BY <1>2, <1>4 DEF Owns, AllIdle

LEMMA InHandKept ==
  ASSUME NEW w \in Workers, NEW x, x.land \in LandState(w), NEW K, NEW Q, InHand(w, x, K, Q),
         NEW K2, \A r \in Repos : K[r] = x.land.id => K2[r] = K[r],
         NEW Q2, \A q \in Q2 : q.worker = w => q \in Q /\ q.repo \in Of[w]
  PROVE  InHand(w, x, K2, Q2)
  <1>1. unlanded(x.land) \subseteq Repos /\ Of[w] \subseteq Repos
    BY UnlandedIs, OfRepos
  <1>2. x.pc \in Running => \A r \in unlanded(x.land) : K2[r] = x.land.id
    BY <1>1 DEF InHand
  <1>3. x.pc = "lock" => \A r \in unlanded(x.land) \ x.todo : K2[r] = x.land.id
    BY <1>1 DEF InHand
  <1>4. ASSUME NEW q \in Q2, q.worker = w
        PROVE  x.pc \in {"check", "refuse", "clean"} /\ CheckOf(q, x.land) /\ K2[q.repo] = q.land
    <2>1. x.pc \in {"check", "refuse", "clean"} /\ CheckOf(q, x.land) /\ K[q.repo] = q.land
      BY <1>4 DEF InHand
    <2>2. q.repo \in Repos /\ q.land = x.land.id
      BY <1>1, <1>4, <2>1 DEF CheckOf
    <2> QED BY <2>1, <2>2
  <1> QED BY <1>2, <1>3, <1>4 DEF InHand

LEMMA AtRestKept ==
  ASSUME NEW w \in Workers, NEW d, d.land \in LandState(w) \cup {None}, NEW K, NEW Q, AtRest(w, d, K, Q),
         NEW K2, \A r \in Repos : d.land # None /\ K[r] = d.land.id => K2[r] = K[r],
         NEW Q2, \A q \in Q2 : q.worker = w => q \in Q
  PROVE  AtRest(w, d, K2, Q2)
  <1>1. d.land # None => unlanded(d.land) \subseteq Repos
    BY UnlandedIs
  <1> QED BY <1>1 DEF AtRest

\* A step of t, which may change the locks of land i only and the checks of its worker.
LEMMA OwnedNext ==
  ASSUME Held, Locks, NEW t \in Tasks, NEW w, w = t[1], Only(t), NEW i,
         \A v \in Workers : v # w => disk'[v] = disk[v],
         \A r \in Repos : lock'[r] # lock[r] => lock'[r] \in {None, i},
         \A r \in Repos : lock'[r] = i => \E v \in Workers : r \in Of[v] /\ Owns(v, r)',
         \A r \in Repos : lock[r] # i /\ lock[r] # None => ~Owns(w, r)
  PROVE  Owned'
  <1> SUFFICES ASSUME NEW r \in Repos, lock'[r] # None
               PROVE  \E v \in Workers : r \in Of[v] /\ Owns(v, r)'
    BY DEF Owned
  <1>1. CASE lock'[r] = i
    BY <1>1
  <1>2. CASE lock'[r] # i
    <2>1. lock'[r] = lock[r]
      BY <1>2
    <2>2. PICK v \in Workers : r \in Of[v] /\ Owns(v, r)
      BY <2>1 DEF Locks, Owned
    <2>3. v # w
      BY <1>2, <2>1, <2>2
    <2>4. \A s \in Tasks : s[1] = v => task'[s] = task[s]
      BY <2>3 DEF Only
    <2>5. Owns(v, r)'
      BY <2>1, <2>2, <2>3, <2>4 DEF Owns, AllIdle
    <2> QED BY <2>2, <2>5
  <1> QED BY <1>1, <1>2

LEMMA OthersNext ==
  ASSUME Held, Locks, Inv', up', NEW t \in Tasks, NEW w, w = t[1], Only(t), NEW i,
         \A v \in Workers : v # w => disk'[v] = disk[v] /\ ~Uses(v, i),
         \A r \in Repos : lock'[r] # lock[r] => lock[r] \in {None, i},
         \A q \in jobs' : q.worker # w => q \in jobs, up,
         task'[t].pc # "idle" => InHand(w, task'[t], lock', jobs'),
         AllIdle(w)' => AtRest(w, disk'[w], lock', jobs'),
         task'[t].pc \in {"drive", "lock"} => disk'[w].land.state # "checking",
         \A s \in Tasks : s[1] = w /\ s # t => task[s].pc = "idle"
  PROVE  InHands' /\ AtRests' /\ NotYet'
  <1>1. ASSUME NEW s \in Tasks, task'[s].pc # "idle" PROVE InHand(s[1], task'[s], lock', jobs')
    <2>1. CASE s = t
      BY <1>1, <2>1
    <2>2. CASE s # t
      <3>1. PICK v, x : v = s[1] /\ x = task[s]
        OBVIOUS
      <3>2. task'[s] = x /\ x.pc # "idle" /\ v # w /\ v \in Workers
        BY <1>1, <2>2, <3>1, TaskWorker DEF Only
      <3>3. x.land \in LandState(v) /\ x.land.id # None
        BY <3>1, <3>2, TaskIs, IdIs DEF Held
      <3>4. InHand(v, x, lock, jobs)
        BY <3>1, <3>2 DEF Locks, InHands
      <3>5. x.land.id # i
        BY <3>1, <3>2 DEF Uses
      <3>6. \A r \in Repos : lock[r] = x.land.id => lock'[r] = lock[r]
        BY <3>3, <3>5
      <3>7. \A q \in jobs' : q.worker = v => q \in jobs /\ q.repo \in Of[v]
        BY <3>2 DEF Inv, Queue
      <3>8. InHand(v, x, lock', jobs')
        BY <3>2, <3>3, <3>4, <3>6, <3>7, InHandKept
      <3> QED BY <3>1, <3>2, <3>8
    <2> QED BY <2>1, <2>2
  <1>2. ASSUME NEW v \in Workers, AllIdle(v)' PROVE AtRest(v, disk'[v], lock', jobs')
    <2>1. CASE v = w
      BY <1>2, <2>1
    <2>2. CASE v # w
      <3>1. PICK d : d = disk[v]
        OBVIOUS
      <3>2. AllIdle(v)
        BY <1>2, <2>2 DEF AllIdle, Only
      <3>3. AtRest(v, d, lock, jobs) /\ disk'[v] = d
        BY <2>2, <3>1, <3>2 DEF Locks, AtRests
      <3>4. d.land \in LandState(v) \cup {None} /\ (d.land # None => d.land.id # None)
        BY <3>1, RecordIs, IdIs DEF Held
      <3>5. d.land # None => d.land.id # i
        BY <2>2, <3>1 DEF Uses
      <3>6. \A r \in Repos : d.land # None /\ lock[r] = d.land.id => lock'[r] = lock[r]
        BY <3>4, <3>5
      <3>7. \A q \in jobs' : q.worker = v => q \in jobs
        BY <2>2
      <3>8. AtRest(v, d, lock', jobs')
        <4>1. d.land \in LandState(v) \cup {None}
          BY <3>4
        <4>2. AtRest(v, d, lock, jobs)
          BY <3>3
        <4> QED BY <3>6, <3>7, <4>1, <4>2, AtRestKept
      <3> QED BY <3>3, <3>8
    <2> QED BY <2>1, <2>2
  <1>3. ASSUME NEW s \in Tasks, task'[s].pc \in {"drive", "lock"} PROVE disk'[s[1]].land.state # "checking"
    <2>1. CASE s = t
      BY <1>3, <2>1
    <2>2. CASE s # t
      <3>1. task'[s] = task[s]
        BY <2>2 DEF Only
      <3>2. s[1] # w /\ s[1] \in Workers
        BY <1>3, <2>2, <3>1, TaskWorker
      <3> QED BY <1>3, <3>1, <3>2 DEF Locks, NotYet
    <2> QED BY <2>1, <2>2
  <1> QED BY <1>1, <1>2, <1>3 DEF InHands, AtRests, NotYet

LEMMA StepLocks ==
  ASSUME Held, Locks, Inv', NEW t \in Tasks, Runs(t), NEW w, w = t[1],
         NEW x, x = task[t], NEW y, y = task'[t], NEW e, e = disk'[w],
         \A r \in Repos : lock'[r] # lock[r] =>
            lock[r] \in {None, x.land.id} /\ lock'[r] \in {None, x.land.id},
         \A q \in jobs' : q.worker # w => q \in jobs,
         JobsApart',
         y.pc # "idle" => InHand(w, y, lock', jobs'),
         y.pc = "idle" => AtRest(w, e, lock', jobs'),
         \A r \in Repos : lock'[r] = x.land.id =>
            /\ r \in Of[w]
            /\ y.pc # "idle" => Has(y, r)
            /\ y.pc = "idle" => e.land # None /\ e.land.state = "checking" /\ e.land.id = x.land.id,
         y.pc \in {"drive", "lock"} => e.land.state # "checking"
  PROVE  Locks'
  <1> DEFINE i == x.land.id
  <1>1. /\ up /\ up' /\ Only(t) /\ x.pc # "idle" /\ w \in Workers
        /\ \A v \in Workers : v # w => disk'[v] = disk[v]
        /\ y.pc # "idle" => y.land.id = i
    BY TaskWorker DEF Runs, Turns
  <1>2. i # None
    BY <1>1, TaskIs, IdIs DEF Held
  <1>3. \A s \in Tasks : s[1] = w /\ s # t => task[s].pc = "idle"
    BY <1>1 DEF Held, Control, Alone
  <1>4. \A v \in Workers : v # w => ~Uses(v, i)
    <2>1. Uses(w, i)
      BY <1>1 DEF Uses
    <2> QED BY <1>1, <2>1 DEF Held, Ids
  <1>5. AllIdle(w)' <=> y.pc = "idle"
    BY <1>1, <1>3 DEF AllIdle, Only
  <1>6. InHands' /\ AtRests' /\ NotYet'
    <2>1. task'[t].pc # "idle" => InHand(w, task'[t], lock', jobs')
      OBVIOUS
    <2>2. AllIdle(w)' => AtRest(w, disk'[w], lock', jobs')
      BY <1>5
    <2>3. task'[t].pc \in {"drive", "lock"} => disk'[w].land.state # "checking"
      OBVIOUS
    <2>4. \A r \in Repos : lock'[r] # lock[r] => lock[r] \in {None, i}
      OBVIOUS
    <2> HIDE DEF i
    <2> QED BY <1>1, <1>2, <1>3, <1>4, <2>1, <2>2, <2>3, <2>4, OthersNext
  <1>7. \A r \in Repos : lock'[r] = i => \E v \in Workers : r \in Of[v] /\ Owns(v, r)'
    <2> SUFFICES ASSUME NEW r \in Repos, lock'[r] = i PROVE r \in Of[w] /\ Owns(w, r)'
      BY <1>1
    <2>1. CASE y.pc # "idle"
      BY <1>1, <2>1 DEF Owns
    <2>2. CASE y.pc = "idle"
      BY <1>5, <2>2 DEF Owns
    <2> QED BY <2>1, <2>2
  <1>8. \A r \in Repos : lock[r] # i /\ lock[r] # None => ~Owns(w, r)
    <2> SUFFICES ASSUME NEW r \in Repos, lock[r] # i, Owns(w, r) PROVE FALSE
      OBVIOUS
    <2>1. ~AllIdle(w)
      BY <1>1 DEF AllIdle
    <2>2. PICK s \in Tasks : s[1] = w /\ task[s].pc # "idle" /\ task[s].land.id = lock[r]
      BY <2>1 DEF Owns
    <2>3. s = t
      BY <1>3, <2>2
    <2> QED BY <2>2, <2>3
  <1>9. Owned'
    <2>1. \A r \in Repos : lock'[r] # lock[r] => lock'[r] \in {None, i}
      OBVIOUS
    <2> HIDE DEF i
    <2> QED BY <1>1, <1>7, <1>8, <2>1, OwnedNext
  <1>10. Down'
    BY <1>1 DEF Down
  <1> QED BY <1>6, <1>9, <1>10 DEF Locks

LEMMA SameApart == ASSUME JobsApart, jobs' = jobs, ends' = ends PROVE JobsApart'
  BY DEF JobsApart

\* What is known of a busy task beside the locks.
LEMMA HandIs ==
  ASSUME Held, Locks, NEW t \in Tasks, NEW w, w = t[1], NEW x, x = task[t], x.pc # "idle"
  PROVE  /\ w \in Workers /\ x.land \in LandState(w) /\ InHand(w, x, lock, jobs)
         /\ x.land.id # None /\ JobsApart
         /\ \A r \in Repos : lock[r] = x.land.id => r \in Of[w] /\ Has(x, r)
         /\ x.pc \notin {"check", "refuse", "clean"} => \A q \in jobs : q.worker # w
         /\ \A q \in jobs : q.repo \in Of[q.worker]
  <1>1. w \in Workers /\ x.land \in LandState(w) /\ x.land.id # None
    BY TaskIs, IdIs DEF Held
  <1>2. InHand(w, x, lock, jobs) /\ JobsApart
    BY DEF Locks, InHands
  <1>3. \A r \in Repos : lock[r] = x.land.id => r \in Of[w] /\ Has(x, r)
    BY OwnLock
  <1>4. x.pc \notin {"check", "refuse", "clean"} => \A q \in jobs : q.worker # w
    BY <1>2 DEF InHand
  <1>5. \A q \in jobs : q.repo \in Of[q.worker]
    BY DEF Held, Inv, Queue
  <1> QED BY <1>1, <1>2, <1>3, <1>4, <1>5

\* A step that keeps locks and checks, of a run that goes on.
LEMMA StayLocks ==
  ASSUME Held, Locks, Inv', NEW t \in Tasks, Runs(t), NEW w, w = t[1],
         NEW x, x = task[t], NEW y, y = task'[t],
         lock' = lock, jobs' = jobs, ends' = ends, y.pc \notin {"idle", "lock"},
         x.pc \in {"check", "refuse", "clean"} =>
            \A q \in jobs : q.worker = w /\ CheckOf(q, x.land) =>
                y.pc \in {"check", "refuse", "clean"} /\ CheckOf(q, y.land),
         y.pc \in Running => \A r \in unlanded(y.land) : lock[r] = x.land.id,
         x.pc \in Locking => y.pc \in Locking, Steps(y),
         y.pc = "drive" => disk'[w].land.state # "checking"
  PROVE  Locks'
  <1>1. x.pc # "idle" /\ y.land.id = x.land.id
    BY DEF Runs, Turns
  <1>2. /\ w \in Workers /\ InHand(w, x, lock, jobs) /\ JobsApart
        /\ \A r \in Repos : lock[r] = x.land.id => r \in Of[w] /\ Has(x, r)
        /\ x.pc \notin {"check", "refuse", "clean"} => \A q \in jobs : q.worker # w
    BY <1>1, HandIs
  <1>3. InHand(w, y, lock, jobs)
    <2>1. ASSUME NEW q \in jobs, q.worker = w
          PROVE  y.pc \in {"check", "refuse", "clean"} /\ CheckOf(q, y.land) /\ lock[q.repo] = q.land
      <3>1. CheckOf(q, x.land) /\ lock[q.repo] = q.land
        BY <1>2, <2>1 DEF InHand
      <3> QED BY <1>2, <2>1, <3>1
    <2>2. y.pc \in Running => \A r \in unlanded(y.land) : lock[r] = y.land.id
      BY <1>1
    <2> QED BY <2>1, <2>2 DEF InHand
  <1>4. \A r \in Repos : lock[r] = x.land.id => r \in Of[w] /\ Has(y, r)
    BY <1>2 DEF Has
  <1>5. JobsApart'
    BY <1>2, SameApart
  <1> QED BY <1>3, <1>4, <1>5, StepLocks

\* A step after which nothing of the worker runs, from where it has no lock.
LEMMA EndLocks ==
  ASSUME Held, Locks, Inv', NEW t \in Tasks, Runs(t), NEW w, w = t[1],
         NEW x, x = task[t], NEW y, y = task'[t], NEW e, e = disk'[w],
         lock' = lock, jobs' = jobs, ends' = ends, y.pc = "idle", x.pc \notin Locking,
         e.land = None \/ e.land.state # "checking"
  PROVE  Locks'
  <1>1. x.pc # "idle"
    BY DEF Runs
  <1>2. /\ w \in Workers /\ JobsApart
        /\ \A r \in Repos : lock[r] = x.land.id => r \in Of[w] /\ Has(x, r)
        /\ x.pc \notin {"check", "refuse", "clean"} => \A q \in jobs : q.worker # w
    BY <1>1, HandIs
  <1>3. \A r \in Repos : lock[r] # x.land.id
    BY <1>2 DEF Has
  <1>4. AtRest(w, e, lock, jobs)
    BY <1>2 DEF AtRest, Locking
  <1>5. JobsApart'
    BY <1>2, SameApart
  <1> QED BY <1>3, <1>4, <1>5, StepLocks

LEMMA MovedApart ==
  ASSUME JobsApart, NEW D, D \subseteq jobs, jobs' = jobs \ D,
         ends' = ends \cup {[job |-> q, passed |-> FALSE] : q \in D}
  PROVE  JobsApart'
  <1>1. ASSUME NEW p \in jobs', NEW e \in ends', p.worker = e.job.worker PROVE p.id # e.job.id
    <2>1. CASE e \in ends
      BY <1>1, <2>1 DEF JobsApart
    <2>2. CASE e.job \in D
      BY <1>1, <2>2 DEF JobsApart
    <2> QED BY <1>1, <2>1, <2>2
  <1> QED BY <1>1 DEF JobsApart

\* cleanup: no lock and no check of the land is left.
LEMMA CleanupLocks ==
  ASSUME Held, Locks, Inv', NEW t \in Tasks, Runs(t), NEW w, w = t[1],
         NEW x, x = task[t], NEW y, y = task'[t], NEW e, e = disk'[w], cleanup(w, x.land),
         y.pc \notin Running \cup {"drive", "lock"},
         y.pc = "idle" => e.land = None \/ e.land.state # "checking"
  PROVE  Locks'
  <1>1. x.pc # "idle" /\ (y.pc # "idle" => y.land.id = x.land.id)
    BY DEF Runs, Turns
  <1>2. /\ w \in Workers /\ x.land \in LandState(w) /\ InHand(w, x, lock, jobs) /\ JobsApart
        /\ \A r \in Repos : lock[r] = x.land.id => r \in Of[w] /\ Has(x, r)
        /\ \A q \in jobs : q.repo \in Of[q.worker]
        /\ x.land.id # None
    BY <1>1, HandIs
  <1>3. PICK D : D = Dropped(w, x.land)
    OBVIOUS
  <1>4. /\ jobs' = jobs \ D /\ ends' = ends \cup {[job |-> q, passed |-> FALSE] : q \in D}
        /\ lock' = [r \in Repos |-> IF r \in Of[w] /\ lock[r] = x.land.id THEN None ELSE lock[r]]
    BY <1>3 DEF cleanup
  <1>5. D \subseteq jobs /\ \A q \in jobs : q.worker = w => q \in D
    <2>1. ASSUME NEW q \in jobs, q.worker = w PROVE q \in D
      <3>1. CheckOf(q, x.land) /\ q.repo \in Of[w]
        BY <1>2, <2>1 DEF InHand
      <3> QED BY <1>3, <2>1, <3>1 DEF Dropped, CheckOf
    <2> QED BY <1>3, <2>1 DEF Dropped
  <1>6. JobsApart'
    BY <1>2, <1>4, <1>5, MovedApart
  <1>7. \A r \in Repos : lock'[r] # x.land.id
    BY <1>2, <1>4
  <1>8. \A q \in jobs' : q.worker # w /\ q \in jobs
    BY <1>4, <1>5
  <1>9. y.pc # "idle" => InHand(w, y, lock', jobs')
    BY <1>8 DEF InHand, Steps, Running
  <1>10. y.pc = "idle" => AtRest(w, e, lock', jobs')
    BY <1>8 DEF AtRest
  <1>11. \A r \in Repos : lock'[r] # lock[r] => lock[r] = x.land.id /\ lock'[r] = None
    BY <1>4
  <1> QED BY <1>6, <1>7, <1>8, <1>9, <1>10, <1>11, StepLocks

-------------------------------------------------------------------------------
(* The steps of a task.                                                     *)

LEMMA FailLocks ==
  ASSUME Held, Locks, Inv', NEW t \in Tasks, Runs(t), task[t].pc \notin {"check", "refuse", "clean"},
         task'[t].pc \in {"refuse", "hold"}, lock' = lock, jobs' = jobs, ends' = ends
  PROVE  Locks'
  <1>1. PICK w, x, y : w = t[1] /\ x = task[t] /\ y = task'[t]
    OBVIOUS
  <1>2. y.pc \notin Running \cup {"idle", "lock", "drive"} /\ y.pc \in Locking /\ Steps(y)
    BY <1>1 DEF Running, Locking, Steps
  <1> QED BY <1>1, <1>2, StayLocks

\* What the invariant says of a busy task, beside its record and the locks.
LEMMA TurnIs ==
  ASSUME Held, Locks, NEW t \in Tasks, task[t].pc # "idle", NEW w, w = t[1],
         NEW x, x = task[t], NEW d, d = disk[w]
  PROVE  /\ w \in Workers /\ x.land \in LandState(w) /\ TaskOf(World, w, x)
         /\ Phased(w, d) /\ Copies(t, d, x) /\ States_of(d, x) /\ Inv /\ disk \in [Workers -> Record]
         /\ x.pc \in InRun => d.land # None /\ d.land.id = x.land.id
         /\ InHand(w, x, lock, jobs) /\ Steps(x) /\ x.land.id # None /\ JobsApart
         /\ \A r \in Repos : lock[r] = x.land.id => r \in Of[w] /\ Has(x, r)
         /\ x.pc \notin {"check", "refuse", "clean"} => \A q \in jobs : q.worker # w
         /\ \A q \in jobs : q.repo \in Of[q.worker]
  <1>1. /\ w \in Workers /\ x.land \in LandState(w) /\ TaskOf(World, w, x)
        /\ Phased(w, d) /\ Copies(t, d, x) /\ States_of(d, x) /\ Inv
        /\ x.pc \in InRun => d.land # None /\ d.land.id = x.land.id
    BY BusyIs DEF Held
  <1>2. /\ InHand(w, x, lock, jobs) /\ x.land.id # None /\ JobsApart
        /\ \A r \in Repos : lock[r] = x.land.id => r \in Of[w] /\ Has(x, r)
        /\ x.pc \notin {"check", "refuse", "clean"} => \A q \in jobs : q.worker # w
        /\ \A q \in jobs : q.repo \in Of[q.worker]
    BY HandIs
  <1>3. Steps(x)
    BY <1>2 DEF InHand
  <1>4. disk \in [Workers -> Record]
    BY <1>1 DEF Inv, Records
  <1> QED BY <1>1, <1>2, <1>3, <1>4

LEMMA StartLandLocks ==
  ASSUME Held, Locks, Inv', NEW t \in Tasks, Runs(t), StartLand(t) PROVE Locks'
  <1>1. PICK w, x, y, d, e : w = t[1] /\ x = task[t] /\ y = task'[t] /\ d = disk[w] /\ e = disk'[w]
    OBVIOUS
  <1>2. x.pc = "called" /\ lock' = lock /\ jobs' = jobs /\ ends' = ends
    BY <1>1 DEF StartLand, At
  <1>3. /\ w \in Workers /\ Phased(w, d) /\ States_of(d, x) /\ Inv /\ disk \in [Workers -> Record]
    BY <1>1, <1>2, TurnIs
  <1>4. CASE Landable(w)
    <2>1. /\ disk' = [disk EXCEPT ![w] = [phase |-> "landing", land |-> x.land]]
          /\ \E p \in {"ask", "drive"} : Go(t, p, x.land)
      BY <1>1, <1>4 DEF StartLand, land
    <2>2. y.pc \in {"ask", "drive"} /\ y.land = x.land
      <3>1. \E p \in {"ask", "drive"} : y = Gone(x, p, x.land)
        BY <1>1, <1>3, <2>1, GoIs
      <3> QED BY <3>1 DEF Gone
    <2>3. e.land.state # "checking"
      <3>1. x.land.state = "locking" /\ e.land = x.land
        BY <1>1, <1>2, <1>3, <2>1 DEF States_of
      <3> QED BY <3>1
    <2>4. y.pc \notin Running \cup {"idle", "lock"} /\ x.pc \notin Locking /\ Steps(y)
      BY <1>2, <2>2 DEF Running, Locking, Steps
    <2> QED BY <1>1, <1>2, <2>3, <2>4, StayLocks
  <1>5. CASE ~Landable(w)
    <2>1. Stop(t) /\ e = d
      BY <1>1, <1>5 DEF StartLand
    <2>2. y.pc = "idle"
      BY <1>1, <1>3, <2>1, GoIs DEF Idle
    <2>3. e.land = None \/ e.land.state # "checking"
      BY <1>2, <1>3, <2>1 DEF Phased, States_of
    <2>4. x.pc \notin Locking
      BY <1>2 DEF Locking
    <2> QED BY <1>1, <1>2, <2>2, <2>3, <2>4, EndLocks
  <1> QED BY <1>4, <1>5

LEMMA DriveLocks ==
  ASSUME Held, Locks, Inv', NEW t \in Tasks, Runs(t), Drive(t) PROVE Locks'
  <1>1. PICK w, x, y, d, e : w = t[1] /\ x = task[t] /\ y = task'[t] /\ d = disk[w] /\ e = disk'[w]
    OBVIOUS
  <1>2. x.pc = "drive" /\ lock' = lock /\ jobs' = jobs /\ ends' = ends /\ e = d /\ ends' = ends
    BY <1>1 DEF Drive, At
  <1>3. /\ w \in Workers /\ Inv /\ JobsApart
        /\ \A r \in Repos : lock[r] = x.land.id => Has(x, r)
        /\ \A q \in jobs : q.worker # w
    BY <1>1, <1>2, TurnIs
  <1>4. /\ d.land.state # "checking" /\ x.pc \notin Locking /\ task \in [Tasks -> Task]
    BY <1>1, <1>2, <1>3 DEF Locks, NotYet, Locking, Inv, Hands
  <1>5. CASE d.land # None /\ d.land.state = "locking"
    <2>1. y = [Idle EXCEPT !.pc = "lock", !.land = d.land, !.todo = unlanded(d.land)]
      BY <1>1, <1>4, <1>5 DEF Drive
    <2>2. y.pc = "lock" /\ y.land = d.land /\ y.todo = unlanded(d.land) /\ y.again = FALSE
      BY <2>1 DEF Idle
    <2>3. InHand(w, y, lock', jobs')
      BY <1>2, <1>3, <2>2 DEF InHand, Steps, Running
    <2>4. \A r \in Repos : lock'[r] # x.land.id
      BY <1>2, <1>3, <1>4 DEF Has
    <2>5. JobsApart'
      BY <1>2, <1>3, SameApart
    <2>6. /\ e.land.state # "checking"
          /\ \A r \in Repos : lock'[r] # lock[r] => lock[r] \in {None, x.land.id} /\ lock'[r] \in {None, x.land.id}
          /\ \A q \in jobs' : q.worker # w => q \in jobs
      BY <1>2, <1>4
    <2> QED BY <1>1, <2>2, <2>3, <2>4, <2>5, <2>6, StepLocks
  <1>6. CASE ~(d.land # None /\ d.land.state = "locking")
    <2>1. y.pc = "idle"
      BY <1>1, <1>3, <1>6, GoIs DEF Drive, Idle
    <2> QED BY <1>1, <1>2, <1>4, <2>1, EndLocks
  <1> QED BY <1>5, <1>6

LEMMA TakeLockLocks ==
  ASSUME Held, Locks, Inv', NEW t \in Tasks, Runs(t), TakeLock(t) PROVE Locks'
  <1>1. PICK w, x, y, d, e : w = t[1] /\ x = task[t] /\ y = task'[t] /\ d = disk[w] /\ e = disk'[w]
    OBVIOUS
  <1>2. PICK i, l, r : i = x.land.id /\ l = x.land /\ r = First(Folders, x.todo)
    OBVIOUS
  <1>3. /\ x.pc = "lock" /\ jobs' = jobs /\ ends' = ends /\ e = d /\ x.todo # {}
        /\ lock[r] \in {None, i} /\ lock' = [lock EXCEPT ![r] = i]
        /\ GoTodo(t, "lock", l, x.todo \ {r})
    BY <1>1, <1>2 DEF TakeLock, At, Free, land
  <1>4. /\ w \in Workers /\ l \in LandState(w) /\ Inv /\ JobsApart
        /\ InHand(w, x, lock, jobs) /\ Steps(x)
        /\ \A q \in Repos : lock[q] = i => q \in Of[w] /\ Has(x, q)
        /\ \A q \in jobs : q.worker # w
    BY <1>1, <1>2, <1>3, TurnIs
  <1>5. /\ r \in x.todo /\ x.todo \subseteq unlanded(l) /\ r \in Of[w] /\ r \in Repos /\ ~x.again
        /\ unlanded(l) \subseteq Repos
    <2>1. r \in x.todo /\ r \in Of[w]
      BY <1>1, <1>2, <1>3, <1>4, TodoFirst
    <2>2. x.todo \subseteq unlanded(l) /\ ~x.again
      BY <1>2, <1>3, <1>4 DEF Steps
    <2> QED BY <1>4, <2>1, <2>2, UnlandedIs
  <1>6. y.pc = "lock" /\ y.land = l /\ y.todo = x.todo \ {r} /\ y.again = x.again
    <2>1. y = GoneTo(x, "lock", l, x.todo \ {r})
      BY <1>1, <1>3, <1>4, GoIs
    <2> QED BY <2>1 DEF GoneTo
  <1>7. /\ lock'[r] = i /\ \A q \in Repos : q # r => lock'[q] = lock[q]
    BY <1>3, <1>4, <1>5 DEF Inv, Counters
  <1>8. d.land.state # "checking"
    BY <1>1, <1>3 DEF Locks, NotYet
  <1>9. InHand(w, y, lock', jobs')
    <2>1. \A q \in unlanded(l) \ x.todo : lock[q] = i
      BY <1>2, <1>3, <1>4 DEF InHand
    <2>2. \A q \in unlanded(l) \ y.todo : lock'[q] = i
      BY <1>5, <1>6, <1>7, <2>1
    <2>3. Steps(y)
      BY <1>5, <1>6 DEF Steps
    <2> QED BY <1>2, <1>3, <1>4, <1>6, <2>2, <2>3 DEF InHand, Running
  <1>10. \A q \in Repos : lock'[q] = i => q \in Of[w] /\ Has(y, q)
    <2>1. Has(y, r)
      BY <1>5, <1>6 DEF Has, Locking
    <2>2. ASSUME NEW q \in Repos, q # r, lock'[q] = i PROVE q \in Of[w] /\ Has(y, q)
      BY <1>2, <1>3, <1>4, <1>6, <1>7, <2>2 DEF Has
    <2> QED BY <1>5, <2>1, <2>2
  <1>11. JobsApart'
    BY <1>3, <1>4, SameApart
  <1>12. \A q \in Repos : lock'[q] # lock[q] => lock[q] \in {None, i} /\ lock'[q] \in {None, i}
    BY <1>3, <1>7
  <1>13. /\ \A q \in Repos : lock'[q] # lock[q] => lock[q] \in {None, x.land.id} /\ lock'[q] \in {None, x.land.id}
         /\ \A q \in Repos : lock'[q] = x.land.id =>
              q \in Of[w] /\ (y.pc # "idle" => Has(y, q))
              /\ (y.pc = "idle" => e.land # None /\ e.land.state = "checking" /\ e.land.id = x.land.id)
    BY <1>2, <1>6, <1>10, <1>12
  <1>14. /\ y.pc # "idle" /\ e.land.state # "checking"
         /\ \A q \in jobs' : q.worker # w => q \in jobs
    BY <1>3, <1>6, <1>8
  <1> QED BY <1>1, <1>9, <1>11, <1>13, <1>14, StepLocks

LEMMA LockBusyLocks ==
  ASSUME Held, Locks, Inv', NEW t \in Tasks, Runs(t), LockBusy(t) PROVE Locks'
  <1>1. PICK w, x, y, d, e : w = t[1] /\ x = task[t] /\ y = task'[t] /\ d = disk[w] /\ e = disk'[w]
    OBVIOUS
  <1>2. PICK i, l, T : i = x.land.id /\ l = x.land /\ T = unlanded(x.land) \ x.todo
    OBVIOUS
  <1>3. /\ x.pc = "lock" /\ jobs' = jobs /\ ends' = ends /\ Save(w, l) /\ Go(t, "drive", l)
        /\ lock' = [q \in Repos |-> IF q \in T /\ lock[q] = i THEN None ELSE lock[q]]
    BY <1>1, <1>2 DEF LockBusy, At, land
  <1>4. /\ w \in Workers /\ l \in LandState(w) /\ Inv /\ JobsApart /\ States_of(d, x) /\ i # None
        /\ \A q \in Repos : lock[q] = i => q \in Of[w] /\ Has(x, q)
        /\ \A q \in jobs : q.worker # w
        /\ d.land # None /\ d.land.id = l.id
    BY <1>1, <1>2, <1>3, TurnIs DEF InRun
  <1>5. y.pc = "drive" /\ y.land = l
    <2>1. y = Gone(x, "drive", l)
      BY <1>1, <1>3, <1>4, GoIs
    <2> QED BY <2>1 DEF Gone
  <1>6. e.land = l /\ l.state # "checking"
    <2>1. e.land = l
      BY <1>1, <1>3, <1>4, SaveIs
    <2> QED BY <1>2, <1>3, <1>4, <2>1 DEF States_of
  <1>7. \A q \in Repos : lock'[q] # x.land.id
    BY <1>2, <1>3, <1>4 DEF Has
  <1>8. InHand(w, y, lock', jobs')
    BY <1>3, <1>4, <1>5 DEF InHand, Steps, Running
  <1>9. JobsApart'
    BY <1>3, <1>4, SameApart
  <1>10. \A q \in Repos : lock'[q] # lock[q] => lock[q] \in {None, x.land.id} /\ lock'[q] \in {None, x.land.id}
    BY <1>2, <1>3
  <1> QED BY <1>1, <1>3, <1>5, <1>6, <1>7, <1>8, <1>9, <1>10, StepLocks

LEMMA LockedLocks ==
  ASSUME Held, Locks, Inv', NEW t \in Tasks, Runs(t), Locked(t) PROVE Locks'
  <1>1. PICK w, x, y, l : w = t[1] /\ x = task[t] /\ y = task'[t] /\ l = x.land
    OBVIOUS
  <1>2. /\ x.pc = "lock" /\ x.todo = {} /\ lock' = lock /\ jobs' = jobs /\ ends' = ends
        /\ GoTodo(t, "prep", l, unlanded(l))
    BY <1>1 DEF Locked, At, land
  <1>3. Inv /\ InHand(w, x, lock, jobs) /\ Steps(x)
    BY <1>1, <1>2, TurnIs
  <1>4. y.pc = "prep" /\ y.land = l /\ y.todo = unlanded(l) /\ y.again = x.again
    <2>1. y = GoneTo(x, "prep", l, unlanded(l))
      BY <1>1, <1>2, <1>3, GoIs
    <2> QED BY <2>1 DEF GoneTo
  <1>5. \A r \in unlanded(y.land) : lock[r] = x.land.id
    BY <1>1, <1>2, <1>3, <1>4 DEF InHand
  <1>6. Steps(y) /\ y.pc \in Locking
    BY <1>2, <1>3, <1>4 DEF Steps, Locking
  <1> QED BY <1>1, <1>2, <1>4, <1>5, <1>6, StayLocks

\* A copy whose repository r takes a status in S, beside what is left to do.
LEMMA StepIn ==
  ASSUME NEW w \in Workers, NEW l \in LandState(w), NEW r \in Of[w], NEW f, NEW m, m = SetRepo(l, r, f),
         l.repos[r].status # "landed", f.status # "landed", f.pinned = l.repos[r].pinned,
         f.status = "checking" => r \in Checked
  PROVE  /\ m.id = l.id /\ m.repos[r] = f /\ \A q \in Of[w] : q # r => m.repos[q] = l.repos[q]
         /\ unlanded(m) = unlanded(l) /\ unlanded(l) \subseteq Of[w]
         /\ \A q \in unlanded(l) : q # r => m.repos[q] = l.repos[q]
  <1>1. m.id = l.id /\ m.repos[r] = f /\ \A q \in Of[w] : q # r => m.repos[q] = l.repos[q]
    BY RepoHas
  <1>2. DOMAIN m.repos = DOMAIN l.repos /\ DOMAIN l.repos = Of[w]
    BY DEF SetRepo, LandState
  <1> QED BY <1>1, <1>2 DEF unlanded, landed

LEMMA PrepareLocks ==
  ASSUME Held, Locks, Inv', NEW t \in Tasks, Runs(t), Prepare(t) PROVE Locks'
  <1>1. PICK w, x, y, l : w = t[1] /\ x = task[t] /\ y = task'[t] /\ l = x.land
    OBVIOUS
  <1>2. PICK r, f : r = First(Folders, x.todo) /\ f = l.repos[r]
    OBVIOUS
  <1>3. PICK stands : stands = (f.status = "tested" /\ f.base_before = base[r])
    OBVIOUS
  <1>4. /\ x.pc = "prep" /\ x.todo # {} /\ lock' = lock /\ jobs' = jobs /\ ends' = ends
        /\ \/ GoTodo(t, "prep", IF stands THEN l ELSE SetRepo(l, r, step1(w, r, f)), x.todo \ {r})
           \/ Fail(t, l)
    BY <1>1, <1>2, <1>3 DEF Prepare, At, land
  <1>5. /\ w \in Workers /\ l \in LandState(w) /\ TaskOf(World, w, x) /\ Inv
        /\ InHand(w, x, lock, jobs) /\ Steps(x)
    BY <1>1, <1>4, TurnIs
  <1>6. /\ r \in x.todo /\ r \in Of[w] /\ f.status # "landed" /\ x.todo \subseteq unlanded(l)
    <2>1. x.todo \subseteq unlanded(l) /\ r \in x.todo /\ r \in Of[w]
      BY <1>1, <1>2, <1>4, <1>5, TodoFirst DEF TaskOf
    <2> QED BY <1>2, <1>5, <2>1, UnlandedIs
  <1>7. CASE Fail(t, l)
    <2>1. y.pc \in {"refuse", "hold"}
      BY <1>1, <1>5, <1>7, FailIs
    <2> QED BY <1>1, <1>4, <2>1, FailLocks
  <1>8. CASE ~Fail(t, l)
    <2>1. PICK m : /\ m = IF stands THEN l ELSE SetRepo(l, r, step1(w, r, f))
                   /\ GoTodo(t, "prep", m, x.todo \ {r})
      BY <1>4, <1>8
    <2>2. /\ unlanded(m) = unlanded(l)
          /\ \A q \in unlanded(l) : q # r => m.repos[q] = l.repos[q]
          /\ m.repos[r].status = "tested" \/ (m.repos[r].status = "pending" /\ m.repos[r].tested # None)
      <3>1. CASE m = l /\ stands
        BY <1>2, <1>3, <3>1
      <3>2. CASE m = SetRepo(l, r, step1(w, r, f))
        <4>1. PICK g : g = step1(w, r, f)
          OBVIOUS
        <4>2. f \in LandRepo /\ base[r] \in Commits
          BY <1>2, <1>5, <1>6, OfRepos DEF LandState, Inv, Trees
        <4>3. g.pinned = f.pinned /\ g.status = "pending" /\ g.tested = base[r] \cup f.pinned
          BY <4>1, <4>2 DEF step1, merge, LandRepo
        <4>4. g.tested # None
          <5>1. base[r] \cup f.pinned \in Commits
            BY <4>2 DEF LandRepo, Commits
          <5> QED BY <4>3, <5>1, NoneAssumption
        <4>5. /\ m.repos[r] = g /\ unlanded(m) = unlanded(l)
              /\ \A q \in unlanded(l) : q # r => m.repos[q] = l.repos[q]
          <5>1. /\ m = SetRepo(l, r, g) /\ l.repos[r].status # "landed" /\ g.status # "landed"
                /\ g.pinned = l.repos[r].pinned /\ (g.status = "checking" => r \in Checked)
            BY <1>2, <1>6, <3>2, <4>1, <4>3
          <5> QED BY <1>5, <1>6, <5>1, StepIn
        <4> QED BY <4>3, <4>4, <4>5
      <3> QED BY <2>1, <3>1, <3>2
    <2>3. y.pc = "prep" /\ y.land = m /\ y.todo = x.todo \ {r} /\ y.repo = x.repo /\ y.again = x.again
      <3>1. y = GoneTo(x, "prep", m, x.todo \ {r})
        BY <1>1, <1>5, <2>1, GoIs
      <3> QED BY <3>1 DEF GoneTo
    <2>4. Steps(y)
      <3>1. ASSUME NEW q \in unlanded(m) \ y.todo
            PROVE  m.repos[q].status = "tested" \/ (m.repos[q].status = "pending" /\ m.repos[q].tested # None)
        <4>1. CASE q = r
          BY <2>2, <4>1
        <4>2. CASE q # r
          BY <1>1, <1>4, <1>5, <2>2, <2>3, <3>1, <4>2 DEF Steps
        <4> QED BY <4>1, <4>2
      <3>2. ASSUME x.again
            PROVE  y.todo \subseteq {x.repo} /\ \A q \in unlanded(m) \ {x.repo} : m.repos[q].status = "tested"
        <4>1. x.todo \subseteq {x.repo} /\ \A q \in unlanded(l) \ {x.repo} : l.repos[q].status = "tested"
          BY <1>1, <1>4, <1>5, <3>2 DEF Steps
        <4> QED BY <1>6, <2>2, <2>3, <4>1
      <3> QED BY <2>3, <3>1, <3>2 DEF Steps
    <2>5. \A q \in unlanded(y.land) : lock[q] = x.land.id
      BY <1>1, <1>4, <1>5, <2>2, <2>3 DEF InHand, Running
    <2>6. y.pc \in Locking
      BY <2>3 DEF Locking
    <2> QED BY <1>1, <1>4, <2>3, <2>4, <2>5, <2>6, StayLocks
  <1> QED BY <1>7, <1>8

LEMMA PreparedLocks ==
  ASSUME Held, Locks, Inv', NEW t \in Tasks, Runs(t), Prepared(t) PROVE Locks'
  <1>1. PICK w, x, y, l : w = t[1] /\ x = task[t] /\ y = task'[t] /\ l = x.land
    OBVIOUS
  <1>2. PICK T : T = {r \in DOMAIN l.repos : l.repos[r].status = "pending" /\ l.repos[r].tested # None}
    OBVIOUS
  <1>3. /\ x.pc = "prep" /\ x.todo = {} /\ lock' = lock /\ jobs' = jobs /\ ends' = ends
        /\ GoTodo(t, "check", l, T)
    BY <1>1, <1>2 DEF Prepared, At, land
  <1>4. /\ w \in Workers /\ l \in LandState(w) /\ Inv /\ InHand(w, x, lock, jobs) /\ Steps(x)
    BY <1>1, <1>3, TurnIs
  <1>5. y.pc = "check" /\ y.land = l /\ y.todo = T /\ y.repo = x.repo /\ y.again = x.again
    <2>1. y = GoneTo(x, "check", l, T)
      BY <1>1, <1>3, <1>4, GoIs
    <2> QED BY <2>1 DEF GoneTo
  <1>6. unlanded(l) = {r \in Of[w] : l.repos[r].status # "landed"} /\ DOMAIN l.repos = Of[w]
    BY <1>4, UnlandedIs, IdIs
  <1>7. Steps(y)
    <2>1. \A r \in unlanded(l) \ T : l.repos[r].status = "tested"
      BY <1>1, <1>2, <1>3, <1>4, <1>6 DEF Steps
    <2>2. ASSUME x.again
          PROVE  T \subseteq {x.repo} /\ \A r \in unlanded(l) \ {x.repo} : l.repos[r].status = "tested"
      <3>1. \A r \in unlanded(l) \ {x.repo} : l.repos[r].status = "tested"
        BY <1>1, <1>3, <1>4, <2>2 DEF Steps
      <3> QED BY <1>2, <1>6, <3>1
    <2> QED BY <1>5, <2>1, <2>2 DEF Steps
  <1>8. \A q \in unlanded(y.land) : lock[q] = x.land.id
    BY <1>1, <1>3, <1>4, <1>5 DEF InHand, Running
  <1>9. y.pc \in Locking
    BY <1>5 DEF Locking
  <1> QED BY <1>1, <1>3, <1>5, <1>7, <1>8, <1>9, StayLocks

LEMMA StartCheckLocks ==
  ASSUME FewChecks, Held, Locks, Inv', NEW t \in Tasks, Runs(t), StartCheck(t) PROVE Locks'
  <1>1. PICK w, x, y, l : w = t[1] /\ x = task[t] /\ y = task'[t] /\ l = x.land
    OBVIOUS
  <1>2. PICK r, j, one, two : /\ r = First(Folders, x.todo)
                              /\ j = CHOOSE i \in FreshJobs(w) : TRUE
                              /\ one = [l.repos[r] EXCEPT !.status = "tested"]
                              /\ two = [l.repos[r] EXCEPT !.status = "checking", !.job = j]
    OBVIOUS
  <1>3. /\ x.pc = "check" /\ x.todo # {} /\ lock' = lock /\ ends' = ends
        /\ \/ GoTodo(t, "check", SetRepo(l, r, one), x.todo \ {r}) /\ jobs' = jobs
           \/ /\ r \in Checked /\ j \in FreshJobs(w) /\ jobs' = jobs \cup {Job(j, w, l, r)}
              /\ GoTodo(t, "check", SetRepo(l, r, two), x.todo \ {r})
           \/ r \in Checked /\ Fail(t, l) /\ jobs' = jobs
    BY <1>1, <1>2 DEF StartCheck, At, land
  <1>4. /\ w \in Workers /\ l \in LandState(w) /\ TaskOf(World, w, x) /\ Inv /\ JobsApart
        /\ InHand(w, x, lock, jobs) /\ Steps(x) /\ Copies(t, disk[w], x)
        /\ \A q \in jobs : q.repo \in Of[q.worker]
        /\ \A q \in Repos : lock[q] = l.id => q \in Of[w]
    BY <1>1, <1>3, TurnIs
  <1>5. /\ r \in x.todo /\ r \in Of[w] /\ l.repos[r].status = "pending" /\ l.repos[r] \in LandRepo
        /\ r \in unlanded(l)
    <2>1. r \in x.todo /\ r \in Of[w]
      BY <1>1, <1>2, <1>3, <1>4, TodoFirst
    <2>2. l.repos[r].status = "pending" /\ l.repos[r] \in LandRepo
      BY <1>1, <1>3, <1>4, <2>1 DEF TaskOf, LandState
    <2> QED BY <1>4, <2>1, <2>2, UnlandedIs
  <1>6. ASSUME NEW q \in jobs, q.worker = w
        PROVE  /\ CheckOf(q, l) /\ lock[q.repo] = q.land /\ q.repo \in Of[w] /\ q.repo # r
               /\ l.repos[q.repo].status = "checking"
    BY <1>1, <1>4, <1>5, <1>6 DEF InHand, CheckOf
  <1>7. CASE r \in Checked /\ Fail(t, l) /\ jobs' = jobs
    <2>1. y.pc \in {"refuse", "hold"} /\ (landed(l) = {} => y.pc = "refuse" /\ y.land = l)
      <3>1. y.pc \in {"refuse", "hold"}
        BY <1>1, <1>4, <1>7, FailIs
      <3>2. ASSUME landed(l) = {} PROVE y.pc = "refuse" /\ y.land = l
        <4>1. Go(t, "refuse", l)
          BY <1>7, <3>2 DEF Fail
        <4>2. y = Gone(x, "refuse", l)
          BY <1>1, <1>4, <4>1, GoIs
        <4> QED BY <4>2 DEF Gone
      <3> QED BY <3>1, <3>2
    <2>2. landed(l) # {} => \A q \in jobs : q.worker # w
      <3> SUFFICES ASSUME NEW q \in jobs, q.worker = w, NEW p \in landed(l) PROVE FALSE
        OBVIOUS
      <3>1. p \in Of[w] /\ l.repos[p].status = "landed"
        BY <1>4, UnlandedIs
      <3>2. q.repo \in Of[w] /\ q.repo # r /\ l.repos[q.repo].status = "checking"
        BY <1>6
      <3>3. q.repo \in Checked
        BY <1>1, <1>4, <3>2 DEF Copies, OnlyChecked
      <3>4. Of[w] = {r, q.repo}
        BY <1>4, <1>5, <1>7, <3>2, <3>3 DEF FewChecks
      <3> QED BY <1>5, <3>1, <3>2, <3>4
    <2>3. y.pc \notin Running \cup {"idle", "lock", "drive"} /\ y.pc \in Locking /\ Steps(y)
      BY <2>1 DEF Running, Locking, Steps
    <2>4. \A q \in jobs : q.worker = w /\ CheckOf(q, x.land) =>
             y.pc \in {"check", "refuse", "clean"} /\ CheckOf(q, y.land)
      BY <1>1, <2>1, <2>2
    <2> QED BY <1>1, <1>3, <1>7, <2>3, <2>4, StayLocks
  <1>8. ASSUME NEW f, NEW m, m = SetRepo(l, r, f), GoTodo(t, "check", m, x.todo \ {r}),
               f.status \in {"tested", "checking"}, f.pinned = l.repos[r].pinned,
               f.status = "checking" => r \in Checked
        PROVE  /\ y.pc = "check" /\ y.land = m /\ Steps(y) /\ m.id = l.id /\ m.repos[r] = f
               /\ unlanded(m) = unlanded(l) /\ \A q \in unlanded(l) : lock[q] = l.id
               /\ \A q \in jobs : q.worker = w => CheckOf(q, m)
    <2>1. /\ m.id = l.id /\ m.repos[r] = f /\ \A q \in Of[w] : q # r => m.repos[q] = l.repos[q]
          /\ unlanded(m) = unlanded(l) /\ unlanded(l) \subseteq Of[w]
      <3>1. l.repos[r].status # "landed" /\ f.status # "landed"
        BY <1>5, <1>8
      <3> QED BY <1>4, <1>5, <1>8, <3>1, StepIn
    <2>2. y.pc = "check" /\ y.land = m /\ y.todo = x.todo \ {r} /\ y.repo = x.repo /\ y.again = x.again
      <3>1. y = GoneTo(x, "check", m, x.todo \ {r})
        BY <1>1, <1>4, <1>8, GoIs
      <3> QED BY <3>1 DEF GoneTo
    <2>3. Steps(y)
      <3>1. \A q \in unlanded(m) \ y.todo : m.repos[q].status \in {"tested", "checking"}
        <4>1. \A q \in unlanded(l) \ x.todo : l.repos[q].status \in {"tested", "checking"}
          BY <1>1, <1>3, <1>4 DEF Steps
        <4> QED BY <1>8, <2>1, <2>2, <4>1
      <3>2. ASSUME x.again
            PROVE  y.todo \subseteq {x.repo} /\ \A q \in unlanded(m) \ {x.repo} : m.repos[q].status = "tested"
        <4>1. x.todo \subseteq {x.repo} /\ \A q \in unlanded(l) \ {x.repo} : l.repos[q].status = "tested"
          BY <1>1, <1>3, <1>4, <3>2 DEF Steps
        <4> QED BY <1>5, <2>1, <2>2, <4>1
      <3> QED BY <2>2, <3>1, <3>2 DEF Steps
    <2>4. \A q \in unlanded(l) : lock[q] = l.id
      BY <1>1, <1>3, <1>4 DEF InHand, Running
    <2>5. \A q \in jobs : q.worker = w => CheckOf(q, m)
      BY <1>6, <2>1 DEF CheckOf
    <2> QED BY <2>1, <2>2, <2>3, <2>4, <2>5
  <1>9. CASE GoTodo(t, "check", SetRepo(l, r, one), x.todo \ {r}) /\ jobs' = jobs
    <2>1. one.status = "tested" /\ one.pinned = l.repos[r].pinned
      BY <1>2, <1>5 DEF LandRepo
    <2>2. PICK m : m = SetRepo(l, r, one)
      OBVIOUS
    <2>3. /\ y.pc = "check" /\ y.land = m /\ Steps(y) /\ m.id = l.id
          /\ unlanded(m) = unlanded(l) /\ \A q \in unlanded(l) : lock[q] = l.id
          /\ \A q \in jobs : q.worker = w => CheckOf(q, m)
      BY <1>8, <1>9, <2>1, <2>2
    <2>4. /\ y.pc \notin {"idle", "lock", "drive"} /\ y.pc \in Locking
          /\ \A q \in unlanded(y.land) : lock[q] = x.land.id
          /\ \A q \in jobs : q.worker = w /\ CheckOf(q, x.land) =>
               y.pc \in {"check", "refuse", "clean"} /\ CheckOf(q, y.land)
      BY <1>1, <2>3 DEF Locking
    <2> QED BY <1>1, <1>3, <1>9, <2>3, <2>4, StayLocks
  <1>10. CASE /\ r \in Checked /\ j \in FreshJobs(w) /\ jobs' = jobs \cup {Job(j, w, l, r)}
              /\ GoTodo(t, "check", SetRepo(l, r, two), x.todo \ {r})
    <2>1. two.status = "checking" /\ two.pinned = l.repos[r].pinned /\ two.job = j
      BY <1>2, <1>5 DEF LandRepo
    <2>2. PICK m : m = SetRepo(l, r, two)
      OBVIOUS
    <2>3. /\ y.pc = "check" /\ y.land = m /\ Steps(y) /\ m.id = l.id /\ m.repos[r] = two
          /\ unlanded(m) = unlanded(l) /\ \A q \in unlanded(l) : lock[q] = l.id
          /\ \A q \in jobs : q.worker = w => CheckOf(q, m)
      BY <1>8, <1>10, <2>1, <2>2
    <2>4. PICK n : n = Job(j, w, l, r)
      OBVIOUS
    <2>5. n.id = j /\ n.worker = w /\ n.land = l.id /\ n.repo = r
      BY <2>4 DEF Job
    <2>6. jobs' = jobs \cup {n}
      BY <1>10, <2>4
    <2>7. JobsApart'
      <3>1. \A q \in jobs \cup {e.job : e \in ends} : q.id # j
        BY <1>10 DEF FreshJobs
      <3>2. \A p \in jobs' : \A e \in ends' : p.worker = e.job.worker => p.id # e.job.id
        BY <1>3, <1>4, <2>5, <2>6, <3>1 DEF JobsApart
      <3> QED BY <1>4, <2>5, <2>6, <3>1, <3>2 DEF JobsApart
    <2>8. InHand(w, y, lock', jobs')
      <3>1. ASSUME NEW q \in jobs', q.worker = w PROVE CheckOf(q, m) /\ lock[q.repo] = q.land
        <4>1. CASE q = n
          BY <1>5, <2>1, <2>3, <2>5, <4>1 DEF CheckOf
        <4>2. CASE q \in jobs
          BY <1>6, <2>3, <3>1, <4>2
        <4> QED BY <2>6, <3>1, <4>1, <4>2
      <3> QED BY <1>3, <2>3, <3>1 DEF InHand
    <2>9. \A q \in Repos : lock'[q] = x.land.id => q \in Of[w] /\ Has(y, q)
      BY <1>1, <1>3, <1>4, <2>3 DEF Has, Locking
    <2>10. /\ y.pc \notin {"idle", "lock", "drive"} /\ lock' = lock
           /\ \A q \in jobs' : q.worker # w => q \in jobs
      BY <1>3, <2>3, <2>5, <2>6
    <2> QED BY <1>1, <2>7, <2>8, <2>9, <2>10, StepLocks
  <1> QED BY <1>3, <1>7, <1>9, <1>10

LEMMA ChecksStartedLocks ==
  ASSUME Held, Locks, Inv', NEW t \in Tasks, Runs(t), ChecksStarted(t) PROVE Locks'
  <1>1. PICK w, x, y, l, e : w = t[1] /\ x = task[t] /\ y = task'[t] /\ l = x.land /\ e = disk'[w]
    OBVIOUS
  <1>2. PICK await : await = IF x.again THEN l.repos[x.repo].status = "checking" ELSE Checking(l)
    OBVIOUS
  <1>3. /\ x.pc = "check" /\ x.todo = {} /\ lock' = lock /\ jobs' = jobs /\ ends' = ends
        /\ \/ Save(w, [l EXCEPT !.state = "checking"]) /\ Stop(t)
           \/ ~await /\ Go(t, "gate", [l EXCEPT !.state = "advancing"])
    BY <1>1, <1>2 DEF ChecksStarted, At, land
  <1>4. /\ w \in Workers /\ l \in LandState(w) /\ Inv /\ JobsApart
        /\ InHand(w, x, lock, jobs) /\ Steps(x)
        /\ disk[w].land # None /\ disk[w].land.id = l.id
        /\ \A q \in jobs : q.repo \in Of[q.worker]
        /\ \A q \in Repos : lock[q] = l.id => q \in Of[w]
    BY <1>1, <1>3, TurnIs DEF InRun
  <1>5. /\ \A r \in unlanded(l) : lock[r] = l.id /\ l.repos[r].status \in {"tested", "checking"}
        /\ \A q \in jobs : q.worker = w => CheckOf(q, l)
    BY <1>1, <1>3, <1>4 DEF InHand, Steps, Running
  <1>6. unlanded(l) = {r \in Of[w] : l.repos[r].status # "landed"} /\ DOMAIN l.repos = Of[w]
    BY <1>4, UnlandedIs, IdIs
  <1>7. CASE Save(w, [l EXCEPT !.state = "checking"]) /\ Stop(t)
    <2>1. PICK m : m = [l EXCEPT !.state = "checking"]
      OBVIOUS
    <2>2. m.id = l.id /\ m.state = "checking" /\ m.repos = l.repos /\ m \in LandState(w)
      BY <1>4, <2>1, StateIs DEF States
    <2>3. e.land = m /\ m # None
      <3>1. Save(w, m)
        BY <1>7, <2>1
      <3> QED BY <1>1, <1>4, <2>2, <3>1, SaveIs, NoneAssumption
    <2>4. y.pc = "idle"
      BY <1>1, <1>4, <1>7, GoIs DEF Idle
    <2>5. unlanded(m) = unlanded(l)
      BY <2>2 DEF unlanded, landed
    <2>6. AtRest(w, e, lock', jobs')
      BY <1>3, <1>5, <2>2, <2>3, <2>5 DEF AtRest, CheckOf
    <2>7. JobsApart'
      BY <1>3, <1>4, SameApart
    <2>8. \A q \in Repos : lock'[q] = x.land.id =>
             q \in Of[w] /\ e.land # None /\ e.land.state = "checking" /\ e.land.id = x.land.id
      BY <1>1, <1>3, <1>4, <2>2, <2>3
    <2> QED BY <1>1, <1>3, <2>4, <2>6, <2>7, <2>8, StepLocks
  <1>8. CASE ~await /\ Go(t, "gate", [l EXCEPT !.state = "advancing"])
    <2>1. PICK m : m = [l EXCEPT !.state = "advancing"]
      OBVIOUS
    <2>2. m.id = l.id /\ m.repos = l.repos
      BY <1>4, <2>1, StateIs
    <2>3. y.pc = "gate" /\ y.land = m
      <3>1. y = Gone(x, "gate", m)
        BY <1>1, <1>4, <1>8, <2>1, GoIs
      <3> QED BY <3>1 DEF Gone
    <2>4. \A r \in Of[w] : l.repos[r].status # "checking"
      <3> SUFFICES ASSUME NEW r \in Of[w], l.repos[r].status = "checking" PROVE FALSE
        OBVIOUS
      <3>1. r \in unlanded(l) /\ Checking(l)
        BY <1>6 DEF Checking
      <3>2. x.again /\ l.repos[x.repo].status # "checking"
        BY <1>2, <1>8, <3>1
      <3>3. r = x.repo \/ l.repos[r].status = "tested"
        BY <1>1, <1>3, <1>4, <3>1, <3>2 DEF Steps
      <3> QED BY <3>2, <3>3
    <2>5. unlanded(m) = unlanded(l) /\ unlanded(l) \subseteq Of[w]
      BY <1>6, <2>2 DEF unlanded, landed
    <2>6. Steps(y) /\ \A r \in unlanded(y.land) : lock[r] = x.land.id
      BY <1>1, <1>5, <2>2, <2>3, <2>4, <2>5 DEF Steps
    <2>7. \A q \in jobs : ~(q.worker = w /\ CheckOf(q, x.land))
      BY <1>1, <1>4, <2>4 DEF CheckOf
    <2>8. y.pc \in Locking
      BY <2>3 DEF Locking
    <2> QED BY <1>1, <1>3, <2>3, <2>6, <2>7, <2>8, StayLocks
  <1> QED BY <1>3, <1>7, <1>8

LEMMA GateLocks ==
  ASSUME Held, Locks, Inv', NEW t \in Tasks, Runs(t), Gate(t) PROVE Locks'
  <1>1. PICK w, x, y, l : w = t[1] /\ x = task[t] /\ y = task'[t] /\ l = x.land
    OBVIOUS
  <1>2. PICK r, f : r = next_in_order(l) /\ f = [l.repos[r] EXCEPT !.status = "advancing"]
    OBVIOUS
  <1>3. /\ x.pc = "gate" /\ lock' = lock /\ jobs' = jobs /\ ends' = ends
        /\ \/ Go(t, "finish", l) \/ Go(t, "ask", l)
           \/ Fail(t, l)
           \/ /\ unlanded(l) # {}
              /\ IF Ours(w, l) THEN GoRepo(t, "cas", SetRepo(l, r, f), r) ELSE Fail(t, SetRepo(l, r, f))
    BY <1>1, <1>2 DEF Gate, At, land
  <1>4. /\ w \in Workers /\ l \in LandState(w) /\ Inv /\ InHand(w, x, lock, jobs) /\ Steps(x)
        /\ disk[w].land # None /\ disk[w].land.id = l.id
    BY <1>1, <1>3, TurnIs DEF InRun
  <1>5. \A q \in unlanded(l) : lock[q] = l.id /\ l.repos[q].status = "tested"
    BY <1>1, <1>3, <1>4 DEF InHand, Steps, Running
  <1>6. CASE Go(t, "finish", l) \/ Go(t, "ask", l)
    <2>1. y.pc \in {"finish", "ask"}
      <3>1. \E p \in {"finish", "ask"} : y = Gone(x, p, l)
        BY <1>1, <1>4, <1>6, GoIs
      <3> QED BY <3>1 DEF Gone
    <2>2. y.pc \notin Running \cup {"idle", "lock", "drive"} /\ y.pc \in Locking /\ Steps(y)
      BY <2>1 DEF Running, Locking, Steps
    <2> QED BY <1>1, <1>3, <2>2, StayLocks
  <1>7. CASE Fail(t, l)
    <2>1. y.pc \in {"refuse", "hold"}
      BY <1>1, <1>4, <1>7, FailIs
    <2> QED BY <1>1, <1>3, <2>1, FailLocks
  <1>8. CASE unlanded(l) # {} /\ GoRepo(t, "cas", SetRepo(l, r, f), r)
    <2>1. PICK m : m = SetRepo(l, r, f)
      OBVIOUS
    <2>2. r \in unlanded(l) /\ r \in Of[w] /\ l.repos[r].status # "landed" /\ l.repos[r] \in LandRepo
      <3>1. r \in unlanded(l) /\ r \in Of[w]
        BY <1>2, <1>4, <1>8, NextIn
      <3> QED BY <1>4, <3>1 DEF unlanded, landed, LandState
    <2>3. f.status = "advancing" /\ f.pinned = l.repos[r].pinned
      BY <1>2, <2>2 DEF LandRepo
    <2>4. /\ unlanded(m) = unlanded(l) /\ m.id = l.id
          /\ \A q \in unlanded(l) : q # r => m.repos[q] = l.repos[q]
      <3>1. f.status # "landed" /\ (f.status = "checking" => r \in Checked)
        BY <2>3
      <3> QED BY <1>4, <2>1, <2>2, <2>3, <3>1, StepIn
    <2>5. y.pc = "cas" /\ y.land = m /\ y.repo = r
      <3>1. y = GoneAt(x, "cas", m, r)
        BY <1>1, <1>4, <1>8, <2>1, GoIs
      <3> QED BY <3>1 DEF GoneAt
    <2>6. Steps(y) /\ y.pc \in Locking /\ \A q \in unlanded(y.land) : lock[q] = x.land.id
      BY <1>1, <1>5, <2>4, <2>5 DEF Steps, Locking
    <2> QED BY <1>1, <1>3, <2>5, <2>6, StayLocks
  <1> QED BY <1>3, <1>4, <1>6, <1>7, <1>8 DEF Ours

LEMMA CasLocks ==
  ASSUME Held, Locks, Inv', NEW t \in Tasks, Runs(t), Cas(t) PROVE Locks'
  <1>1. PICK w, x, y, l, r : w = t[1] /\ x = task[t] /\ y = task'[t] /\ l = x.land /\ r = x.repo
    OBVIOUS
  <1>2. PICK tried, again :
          /\ tried = [l.repos[r] EXCEPT !.attempts = @ + 1] /\ again = [tried EXCEPT !.status = "pending"]
    OBVIOUS
  <1>3. PICK z : z = [x EXCEPT !.pc = "prep", !.todo = {r}, !.again = TRUE, !.land = SetRepo(l, r, again)]
    OBVIOUS
  <1>4. /\ x.pc = "cas" /\ lock' = lock /\ jobs' = jobs /\ ends' = ends
        /\ \/ Go(t, "log", l)
           \/ Go(t, "hold", SetRepo(l, r, tried)) \/ Go(t, "hold", l)
           \/ task' = [task EXCEPT ![t] = z]
           \/ Fail(t, l)
    BY <1>1, <1>2, <1>3 DEF Cas, At, land
  <1>5. /\ w \in Workers /\ l \in LandState(w) /\ TaskOf(World, w, x) /\ Inv
        /\ InHand(w, x, lock, jobs) /\ Steps(x) /\ task \in [Tasks -> Task] /\ x \in Task
    BY <1>1, <1>4, TurnIs DEF Inv, Hands
  <1>6. r \in Of[w] /\ l.repos[r].status = "advancing" /\ l.repos[r] \in LandRepo
    BY <1>1, <1>4, <1>5 DEF TaskOf, LandState
  <1>7. /\ \A q \in unlanded(l) : lock[q] = l.id
        /\ \A q \in unlanded(l) \ {r} : l.repos[q].status = "tested"
    BY <1>1, <1>4, <1>5 DEF InHand, Steps, Running
  <1>8. CASE Go(t, "log", l)
    <2>1. y.pc = "log" /\ y.land = l /\ y.repo = r
      <3>1. y = Gone(x, "log", l)
        BY <1>1, <1>5, <1>8, GoIs
      <3> QED BY <1>1, <3>1 DEF Gone
    <2>2. Steps(y) /\ y.pc \in Locking /\ \A q \in unlanded(y.land) : lock[q] = x.land.id
      BY <1>1, <1>7, <2>1 DEF Steps, Locking
    <2> QED BY <1>1, <1>4, <2>1, <2>2, StayLocks
  <1>9. CASE Go(t, "hold", SetRepo(l, r, tried)) \/ Go(t, "hold", l) \/ Fail(t, l)
    <2>1. y.pc \in {"refuse", "hold"}
      <3>1. CASE \E m : Go(t, "hold", m)
        <4>1. \E m : y = Gone(x, "hold", m)
          BY <1>1, <1>5, <3>1, GoIs
        <4> QED BY <4>1 DEF Gone
      <3>2. CASE Fail(t, l)
        BY <1>1, <1>5, <3>2, FailIs
      <3> QED BY <1>9, <3>1, <3>2
    <2> QED BY <1>1, <1>4, <2>1, FailLocks
  <1>10. CASE task' = [task EXCEPT ![t] = z]
    <2>1. PICK m : m = SetRepo(l, r, again)
      OBVIOUS
    <2>2. again.status = "pending" /\ again.pinned = l.repos[r].pinned
      BY <1>2, <1>6 DEF LandRepo
    <2>3. /\ unlanded(m) = unlanded(l) /\ m.id = l.id
          /\ \A q \in unlanded(l) : q # r => m.repos[q] = l.repos[q]
      <3>1. /\ l.repos[r].status # "landed" /\ again.status # "landed"
            /\ again.status = "checking" => r \in Checked
        BY <1>6, <2>2
      <3> QED BY <1>5, <1>6, <2>1, <2>2, <3>1, StepIn
    <2>4. z.pc = "prep" /\ z.todo = {r} /\ z.land = m /\ z.repo = r
      BY <1>1, <1>3, <1>5, <2>1 DEF Task
    <2>5. y = z
      BY <1>1, <1>5, <1>10
    <2>6. Steps(y) /\ y.pc \in Locking /\ \A q \in unlanded(y.land) : lock[q] = x.land.id
      BY <1>1, <1>7, <2>3, <2>4, <2>5 DEF Steps, Locking
    <2>7. y.pc = "prep"
      BY <2>4, <2>5
    <2> QED BY <1>1, <1>4, <2>6, <2>7, StayLocks
  <1> QED BY <1>4, <1>8, <1>9, <1>10

LEMMA LogLocks ==
  ASSUME Held, Locks, Inv', NEW t \in Tasks, Runs(t), Log(t) PROVE Locks'
  <1>1. PICK w, x, y, l, r : w = t[1] /\ x = task[t] /\ y = task'[t] /\ l = x.land /\ r = x.repo
    OBVIOUS
  <1>2. PICK f, m : f = [l.repos[r] EXCEPT !.status = "landed"] /\ m = SetRepo(l, r, f)
    OBVIOUS
  <1>3. /\ x.pc = "log" /\ lock' = lock /\ jobs' = jobs /\ ends' = ends /\ Go(t, "saveLanded", m)
    BY <1>1, <1>2 DEF Log, At, land
  <1>4. /\ w \in Workers /\ l \in LandState(w) /\ TaskOf(World, w, x) /\ Inv
        /\ InHand(w, x, lock, jobs) /\ Steps(x)
    BY <1>1, <1>3, TurnIs
  <1>5. r \in Of[w] /\ l.repos[r] \in LandRepo
    BY <1>1, <1>3, <1>4 DEF TaskOf, LandState
  <1>6. f.status = "landed"
    BY <1>2, <1>5 DEF LandRepo
  <1>7. /\ m.id = l.id /\ m.repos[r] = f /\ \A q \in Of[w] : q # r => m.repos[q] = l.repos[q]
    BY <1>2, <1>4, <1>5, RepoHas
  <1>8. unlanded(m) = unlanded(l) \ {r} /\ unlanded(l) \subseteq Of[w]
    <2>1. DOMAIN m.repos = Of[w] /\ DOMAIN l.repos = Of[w]
      BY <1>2, <1>4 DEF SetRepo, LandState
    <2> QED BY <1>6, <1>7, <2>1 DEF unlanded, landed
  <1>9. y.pc = "saveLanded" /\ y.land = m
    <2>1. y = Gone(x, "saveLanded", m)
      BY <1>1, <1>3, <1>4, GoIs
    <2> QED BY <2>1 DEF Gone
  <1>10. /\ \A q \in unlanded(l) : lock[q] = l.id
         /\ \A q \in unlanded(l) \ {r} : l.repos[q].status = "tested"
    BY <1>1, <1>3, <1>4 DEF InHand, Steps, Running
  <1>11. Steps(y) /\ y.pc \in Locking /\ \A q \in unlanded(y.land) : lock[q] = x.land.id
    BY <1>1, <1>7, <1>8, <1>9, <1>10 DEF Steps, Locking
  <1> QED BY <1>1, <1>3, <1>9, <1>11, StayLocks

LEMMA SaveLandedLocks ==
  ASSUME Held, Locks, Inv', NEW t \in Tasks, Runs(t), SaveLanded(t) PROVE Locks'
  <1>1. PICK w, x, y : w = t[1] /\ x = task[t] /\ y = task'[t]
    OBVIOUS
  <1>2. /\ x.pc = "saveLanded" /\ lock' = lock /\ jobs' = jobs /\ ends' = ends
        /\ task' = [task EXCEPT ![t] = [@ EXCEPT !.pc = "gate", !.again = FALSE]]
    BY <1>1 DEF SaveLanded, At
  <1>3. /\ InHand(w, x, lock, jobs) /\ Steps(x) /\ task \in [Tasks -> Task] /\ x \in Task
    BY <1>1, <1>2, TurnIs DEF Inv, Hands
  <1>4. y.pc = "gate" /\ y.land = x.land
    <2>1. y = [x EXCEPT !.pc = "gate", !.again = FALSE]
      BY <1>1, <1>2, <1>3
    <2> QED BY <1>3, <2>1 DEF Task
  <1>5. Steps(y) /\ y.pc \in Locking /\ \A q \in unlanded(y.land) : lock[q] = x.land.id
    BY <1>1, <1>2, <1>3, <1>4 DEF Steps, Locking, InHand, Running
  <1> QED BY <1>1, <1>2, <1>4, <1>5, StayLocks

LEMMA GoneThere == ASSUME Inv, NEW t \in Tasks, NEW p, NEW m, Go(t, p, m) PROVE task'[t].pc = p
  <1>1. PICK y : y = task'[t]
    OBVIOUS
  <1>2. y = Gone(task[t], p, m)
    BY <1>1, GoIs
  <1> QED BY <1>1, <1>2 DEF Gone

\* The runs that let go of the locks.
LEMMA CleanLocks ==
  ASSUME Held, Locks, Inv', NEW t \in Tasks, Runs(t),
         RefuseClean(t) \/ HoldClean(t) \/ Finish(t) \/ Ask(t)
  PROVE  Locks'
  <1>1. PICK w, x, y, d, e : w = t[1] /\ x = task[t] /\ y = task'[t] /\ d = disk[w] /\ e = disk'[w]
    OBVIOUS
  <1>2. x.pc \in {"clean", "holdClean", "finish", "ask"} /\ cleanup(w, x.land) /\ e = d
    BY <1>1 DEF RefuseClean, HoldClean, Finish, Ask, At, land
  <1>3. /\ w \in Workers /\ x.land \in LandState(w) /\ Inv /\ Phased(w, d) /\ States_of(d, x)
    BY <1>1, <1>2, TurnIs
  <1>4. CASE RefuseClean(t)
    <2>1. x.pc = "clean" /\ y.pc = "idle"
      <3>1. x.pc = "clean" /\ Stop(t)
        BY <1>1, <1>4 DEF RefuseClean, At
      <3> QED BY <1>1, <1>3, <3>1, GoIs DEF Idle
    <2>2. e.land = None \/ e.land.state # "checking"
      BY <1>2, <1>3, <2>1 DEF Phased, States_of
    <2>3. y.pc \notin Running \cup {"drive", "lock"}
      BY <2>1 DEF Running
    <2> QED BY <1>1, <1>2, <2>2, <2>3, CleanupLocks
  <1>5. CASE HoldClean(t) \/ Finish(t) \/ Ask(t)
    <2>1. y.pc \in {"holdSave", "finishSave", "asked", "refuse", "hold"}
      <3>1. CASE HoldClean(t) \/ Finish(t)
        <4>1. \E p \in {"holdSave", "finishSave"} : \E m : Go(t, p, m)
          BY <3>1 DEF HoldClean, Finish
        <4>2. \E p \in {"holdSave", "finishSave"} : \E m : y = Gone(x, p, m)
          BY <1>1, <1>3, <4>1, GoIs
        <4> QED BY <4>2 DEF Gone
      <3>2. CASE Ask(t)
        <4>1. PICK m : m = AskedLand(x.land)
          OBVIOUS
        <4>2. (\E n : Go(t, "asked", n)) \/ Fail(t, m)
          BY <1>1, <3>2, <4>1 DEF Ask, land, AskedLand
        <4>3. CASE \E n : Go(t, "asked", n)
          <5>1. \E n : y = Gone(x, "asked", n)
            BY <1>1, <1>3, <4>3, GoIs
          <5> QED BY <5>1 DEF Gone
        <4>4. CASE Fail(t, m)
          <5>1. m \in LandState(w)
            BY <1>3, <4>1, AskedIs
          <5> QED BY <1>1, <1>3, <4>4, <5>1, FailIs
        <4> QED BY <4>2, <4>3, <4>4
      <3> QED BY <1>5, <3>1, <3>2
    <2>2. y.pc \notin Running \cup {"idle", "drive", "lock"}
      BY <2>1 DEF Running
    <2> QED BY <1>1, <1>2, <2>2, CleanupLocks
  <1> QED BY <1>4, <1>5

\* The runs that go on to their end.
LEMMA LaterLocks ==
  ASSUME Held, Locks, Inv', NEW t \in Tasks, Runs(t),
         Refuse(t) \/ Hold(t) \/ FinishSave(t) \/ SaveEnd(t) \/ (RetireLanded(t) /\ task'[t].pc # "idle")
  PROVE  Locks'
  <1>1. PICK w, x, y : w = t[1] /\ x = task[t] /\ y = task'[t]
    OBVIOUS
  <1>2. /\ x.pc \in {"refuse", "hold", "finishSave", "saveEnd", "retire"}
        /\ lock' = lock /\ jobs' = jobs /\ ends' = ends
    BY <1>1 DEF Refuse, Hold, FinishSave, SaveEnd, RetireLanded, At
  <1>3. Inv
    BY DEF Held
  <1>4. CASE Refuse(t)
    <2>1. x.pc = "refuse" /\ Go(t, "clean", x.land)
      BY <1>1, <1>4 DEF Refuse, At, land
    <2>2. y.pc = "clean" /\ y.land = x.land
      <3>1. y = Gone(x, "clean", x.land)
        BY <1>1, <1>3, <2>1, GoIs
      <3> QED BY <3>1 DEF Gone
    <2>3. y.pc \notin Running \cup {"idle", "lock", "drive"} /\ y.pc \in Locking /\ Steps(y)
      BY <2>2 DEF Running, Locking, Steps
    <2> QED BY <1>1, <1>2, <2>2, <2>3, StayLocks
  <1>5. CASE ~Refuse(t)
    <2>1. /\ x.pc \in {"hold", "finishSave", "saveEnd", "retire"}
          /\ x.pc = "hold" => \E m : Go(t, "holdClean", m)
          /\ x.pc # "hold" => (\E p \in {"unretire", "retire", "saveEnd", "after"} : \E m : Go(t, p, m)) \/ Stop(t)
      BY <1>1, <1>5 DEF Hold, FinishSave, SaveEnd, RetireLanded, At
    <2>2. /\ y.pc \in {"holdClean", "unretire", "retire", "saveEnd", "after"}
          /\ x.pc = "hold" => y.pc = "holdClean"
      <3>1. CASE x.pc = "hold"
        <4>1. \E m : y = Gone(x, "holdClean", m)
          BY <1>1, <1>3, <2>1, <3>1, GoIs
        <4> QED BY <4>1 DEF Gone
      <3>2. CASE x.pc # "hold" /\ ~Stop(t)
        <4>1. \E p \in {"unretire", "retire", "saveEnd", "after"} : \E m : y = Gone(x, p, m)
          BY <1>1, <1>3, <2>1, <3>2, GoIs
        <4> QED BY <3>2, <4>1 DEF Gone
      <3>3. CASE x.pc # "hold" /\ Stop(t)
        <4>1. y.pc = "idle"
          BY <1>1, <1>3, <3>3, GoIs DEF Idle
        <4>2. x.pc = "finishSave" => \E p \in {"unretire", "retire"} : \E m : Go(t, p, m)
          BY <1>1, <1>5 DEF FinishSave, RetireLanded, Hold, SaveEnd, At
        <4>3. x.pc = "saveEnd" => \E m : Go(t, "after", m)
          BY <1>1, <1>5 DEF FinishSave, RetireLanded, Hold, SaveEnd, At
        <4>4. \A p \in {"unretire", "retire", "after"} : \A m : ~Go(t, p, m)
          <5>1. \A p, m : Go(t, p, m) => y.pc = p
            BY <1>1, <1>3, GoneThere
          <5> QED BY <4>1, <5>1
        <4>5. x.pc = "retire"
          BY <2>1, <3>3, <4>2, <4>3, <4>4
        <4> QED BY <1>1, <1>5, <4>1, <4>5 DEF Hold, FinishSave, SaveEnd, At
      <3> QED BY <3>1, <3>2, <3>3
    <2>3. /\ y.pc \notin Running \cup {"idle", "lock", "drive"} /\ Steps(y)
          /\ x.pc \in Locking => y.pc \in Locking
      BY <2>1, <2>2 DEF Running, Locking, Steps
    <2>4. x.pc \notin {"check", "refuse", "clean"}
      BY <2>1
    <2> QED BY <1>1, <1>2, <2>3, <2>4, StayLocks
  <1> QED BY <1>4, <1>5

\* The runs that end.
LEMMA StopLocks ==
  ASSUME Held, Locks, Inv', NEW t \in Tasks, Runs(t),
         HoldSave(t) \/ landed_unretired(t) \/ (RetireLanded(t) /\ Stop(t)) \/ after_land(t) \/ SaveAsk(t)
  PROVE  Locks'
  <1>1. PICK w, x, y, d, e : w = t[1] /\ x = task[t] /\ y = task'[t] /\ d = disk[w] /\ e = disk'[w]
    OBVIOUS
  <1>2. /\ x.pc \in {"holdSave", "unretire", "retire", "after", "asked"}
        /\ lock' = lock /\ jobs' = jobs /\ ends' = ends
    BY <1>1 DEF HoldSave, landed_unretired, RetireLanded, after_land, SaveAsk, At
  <1>3. /\ w \in Workers /\ x.land \in LandState(w) /\ TaskOf(World, w, x) /\ Inv /\ Phased(w, d)
        /\ Copies(t, d, x) /\ States_of(d, x) /\ disk \in [Workers -> Record]
    BY <1>1, <1>2, TurnIs
  <1>4. d.land # None /\ d.land.id = x.land.id
    BY <1>1, <1>2, <1>3 DEF Copies
  <1>5. Stop(t)
    BY <1>1, <1>4 DEF HoldSave, landed_unretired, after_land, SaveAsk, Ours, land
  <1>6. y.pc = "idle"
    BY <1>1, <1>3, <1>5, GoIs DEF Idle
  <1>7. ASSUME NEW m, Save(w, m), m.id = x.land.id, m.state # "checking" PROVE e.land.state # "checking"
    BY <1>1, <1>3, <1>4, <1>7, SaveIs
  <1>8. \A s : LET m == [x.land EXCEPT !.state = s] IN m.id = x.land.id /\ m.state = s
    BY <1>3 DEF LandState
  <1>9. e.land = None \/ e.land.state # "checking"
    <2>1. CASE HoldSave(t) \/ SaveAsk(t)
      <3>1. Save(w, x.land) /\ x.pc \in {"holdSave", "asked"}
        BY <1>1, <2>1 DEF HoldSave, SaveAsk, land, At
      <3>2. x.land.state # "checking"
        BY <1>3, <3>1 DEF TaskOf
      <3> QED BY <1>7, <3>1, <3>2
    <2>2. CASE landed_unretired(t)
      <3>1. PICK m : m = [x.land EXCEPT !.state = "landed"]
        OBVIOUS
      <3>2. /\ x.pc = "unretire"
            /\ disk' = disk \/ disk' = [disk EXCEPT ![w] = [phase |-> "reported", land |-> m]]
        BY <1>1, <2>2, <3>1 DEF landed_unretired, land, At
      <3>3. CASE disk' = disk
        BY <1>1, <1>3, <3>2, <3>3 DEF States_of
      <3>4. CASE disk' = [disk EXCEPT ![w] = [phase |-> "reported", land |-> m]]
        <4>1. e.land = m
          BY <1>1, <1>3, <3>4
        <4> QED BY <1>8, <3>1, <4>1
      <3> QED BY <3>2, <3>3, <3>4
    <2>3. CASE RetireLanded(t)
      <3>1. PICK m : m = [x.land EXCEPT !.state = "held"]
        OBVIOUS
      <3>2. \/ \E n : Go(t, "saveEnd", n)
            \/ Save(w, m)
        BY <1>1, <2>3, <3>1 DEF RetireLanded, land
      <3>3. \A n : ~Go(t, "saveEnd", n)
        <4>1. \A n : Go(t, "saveEnd", n) => y.pc = "saveEnd"
          BY <1>1, <1>3, GoneThere
        <4> QED BY <1>6, <4>1
      <3> QED BY <1>7, <1>8, <3>1, <3>2, <3>3
    <2>4. CASE after_land(t)
      <3>1. x.pc = "after" /\ e = d
        BY <1>1, <2>4 DEF after_land, At
      <3> QED BY <1>3, <3>1 DEF States_of, Phased
    <2> QED BY <1>1, <2>1, <2>2, <2>3, <2>4
  <1>10. x.pc \notin Locking
    BY <1>2 DEF Locking
  <1> QED BY <1>1, <1>2, <1>6, <1>9, <1>10, EndLocks

LEMMA TaskStepLocks ==
  ASSUME FewChecks, Held, Locks, Inv', NEW t \in Tasks, Runs(t), TaskStep(t) PROVE Locks'
  <1>1. CASE RetireLanded(t)
    <2>1. CASE task'[t].pc # "idle"
      BY <1>1, <2>1, LaterLocks
    <2>2. CASE task'[t].pc = "idle"
      <3>1. \A m : ~Go(t, "saveEnd", m)
        <4>1. \A m : Go(t, "saveEnd", m) => task'[t].pc = "saveEnd"
          BY GoneThere DEF Held
        <4> QED BY <2>2, <4>1
      <3>2. Stop(t)
        BY <1>1, <3>1 DEF RetireLanded
      <3> QED BY <1>1, <3>2, StopLocks
    <2> QED BY <2>1, <2>2
  <1>2. CASE ~RetireLanded(t)
    BY <1>2, StartLandLocks, DriveLocks, TakeLockLocks, LockBusyLocks, LockedLocks, PrepareLocks,
       PreparedLocks, StartCheckLocks, ChecksStartedLocks, GateLocks, CasLocks, LogLocks,
       SaveLandedLocks, CleanLocks, LaterLocks, StopLocks DEF TaskStep
  <1> QED BY <1>1, <1>2

-------------------------------------------------------------------------------
(* The other steps.                                                         *)

\* Nothing of a land moves; a check may be done.
LEMMA StillLocks ==
  ASSUME Held, Locks, Inv', UNCHANGED <<up, disk, task, lock>>, jobs' \subseteq jobs, JobsApart'
  PROVE  Locks'
  <1>1. ASSUME NEW t \in Tasks, task'[t].pc # "idle" PROVE InHand(t[1], task'[t], lock', jobs')
    <2>1. PICK w, x : w = t[1] /\ x = task[t]
      OBVIOUS
    <2>2. w \in Workers /\ x.land \in LandState(w) /\ x.pc # "idle" /\ InHand(w, x, lock, jobs)
      BY <1>1, <2>1, TaskIs DEF Held, Locks, InHands
    <2>3. \A q \in jobs' : q.worker = w => q \in jobs /\ q.repo \in Of[w]
      BY DEF Held, Inv, Queue
    <2>4. \A r \in Repos : lock[r] = x.land.id => lock'[r] = lock[r]
      OBVIOUS
    <2>5. InHand(w, x, lock', jobs')
      BY <2>2, <2>3, <2>4, InHandKept
    <2> QED BY <2>1, <2>5
  <1>2. ASSUME up, NEW w \in Workers, AllIdle(w)' PROVE AtRest(w, disk'[w], lock', jobs')
    <2>1. PICK d : d = disk[w]
      OBVIOUS
    <2>2. AtRest(w, d, lock, jobs) /\ d.land \in LandState(w) \cup {None}
      <3>1. AllIdle(w)
        BY <1>2 DEF AllIdle
      <3> QED BY <1>2, <2>1, <3>1, RecordIs DEF Held, Locks, AtRests
    <2>3. AtRest(w, d, lock', jobs')
      <3>1. \A r \in Repos : d.land # None /\ lock[r] = d.land.id => lock'[r] = lock[r]
        OBVIOUS
      <3>2. \A q \in jobs' : q.worker = w => q \in jobs
        OBVIOUS
      <3> QED BY <2>2, <3>1, <3>2, AtRestKept
    <2> QED BY <2>1, <2>3
  <1>3. Owned'
    BY DEF Locks, Owned, Owns, AllIdle
  <1>4. NotYet' /\ Down'
    BY DEF Locks, NotYet, Down
  <1> QED BY <1>1, <1>2, <1>3, <1>4 DEF Locks, InHands, AtRests

\* The record of a worker whose last run ended: the locks are its check's.
LEMMA RestIs ==
  ASSUME Held, Locks, up, NEW w \in Workers, AllIdle(w), NEW d, d = disk[w]
  PROVE  /\ AtRest(w, d, lock, jobs) /\ Phased(w, d) /\ Inv
         /\ d.land = None \/ (d.land # None /\ d.land \in LandState(w) /\ d.land.id # None)
         /\ d.land = None \/ d.land.state # "checking" => \A q \in jobs : q.worker # w
         /\ \A q \in jobs : q.repo \in Of[q.worker]
  <1>1. AtRest(w, d, lock, jobs) /\ Phased(w, d) /\ Inv
    BY DEF Locks, AtRests, Held, Control
  <1>2. d.land = None \/ (d.land # None /\ d.land \in LandState(w) /\ d.land.id # None)
    BY <1>1, RecordIs, IdIs
  <1> QED BY <1>1, <1>2 DEF AtRest, Inv, Queue

\* A task of an idle worker starts, or only its record changes.
LEMMA BeginLocks ==
  ASSUME Held, Locks, Inv', up, up', NEW t \in Tasks, Only(t), NEW w, w = t[1], AllIdle(w),
         NEW y, y = task'[t], NEW d, d = disk[w], NEW e, e = disk'[w],
         \A v \in Workers : v # w => disk'[v] = disk[v],
         lock' = lock, jobs' = jobs, JobsApart',
         y.pc # "idle" => InHand(w, y, lock, jobs),
         y.pc = "idle" => AtRest(w, e, lock, jobs),
         d.land # None /\ d.land.state = "checking" =>
            /\ y.pc # "idle" => y.land.id = d.land.id /\ y.pc \in Locking \ {"lock"}
            /\ y.pc = "idle" => e.land # None /\ e.land.state = "checking" /\ e.land.id = d.land.id,
         y.pc # "lock", y.pc = "drive" => e.land.state # "checking"
  PROVE  Locks'
  <1>1. w \in Workers /\ \A s \in Tasks : s[1] = w => task[s].pc = "idle"
    BY TaskWorker DEF AllIdle
  <1>2. AllIdle(w)' <=> y.pc = "idle"
    BY <1>1 DEF AllIdle, Only
  <1>3. \A v \in Workers : ~Uses(v, None)
    <2>1. \A v \in Workers : Uses(v, None) => None \in 1..seq
      BY DEF Held, Ids
    <2>2. None \notin 1..seq
      BY Bounds, NoneAssumption DEF Held, Inv, Counters
    <2> QED BY <2>1, <2>2
  <1>4. InHands' /\ AtRests' /\ NotYet'
    <2>1. task'[t].pc # "idle" => InHand(w, task'[t], lock', jobs')
      OBVIOUS
    <2>2. AllIdle(w)' => AtRest(w, disk'[w], lock', jobs')
      BY <1>2
    <2>3. task'[t].pc \in {"drive", "lock"} => disk'[w].land.state # "checking"
      OBVIOUS
    <2>4. \A r \in Repos : lock'[r] # lock[r] => lock[r] \in {None, None}
      OBVIOUS
    <2>5. \A q \in jobs' : q.worker # w => q \in jobs
      OBVIOUS
    <2>6. \A v \in Workers : v # w => disk'[v] = disk[v] /\ ~Uses(v, None)
      BY <1>3
    <2> QED BY <1>1, <2>1, <2>2, <2>3, <2>4, <2>5, <2>6, OthersNext
  <1>5. Owned'
    <2> SUFFICES ASSUME NEW r \in Repos, lock[r] # None PROVE \E v \in Workers : r \in Of[v] /\ Owns(v, r)'
      BY DEF Owned
    <2>1. PICK v \in Workers : r \in Of[v] /\ Owns(v, r)
      BY DEF Locks, Owned
    <2>2. CASE v # w
      <3>1. \A s \in Tasks : s[1] = v => task'[s] = task[s]
        BY <2>2 DEF Only
      <3>2. Owns(v, r)'
        BY <2>1, <2>2, <3>1 DEF Owns, AllIdle
      <3> QED BY <2>1, <3>2
    <2>3. CASE v = w
      <3>1. d.land # None /\ d.land.state = "checking" /\ d.land.id = lock[r]
        BY <1>1, <2>1, <2>3 DEF Owns
      <3>2. Owns(w, r)'
        <4>1. CASE y.pc # "idle"
          <5>1. y.land.id = lock'[r] /\ Has(y, r)
            BY <3>1, <4>1 DEF Has
          <5> QED BY <4>1, <5>1 DEF Owns
        <4>2. CASE y.pc = "idle"
          BY <1>2, <3>1, <4>2 DEF Owns
        <4> QED BY <4>1, <4>2
      <3> QED BY <2>1, <2>3, <3>2
    <2> QED BY <2>2, <2>3
  <1>6. Down'
    BY DEF Down
  <1> QED BY <1>4, <1>5, <1>6 DEF Locks

\* hiveLand, or the human's answer: no check of the worker is left.
LEMMA StartLocks ==
  ASSUME Held, Locks, Inv', NEW t \in Tasks, Starts(t), lock' = lock, jobs' = jobs, ends' = ends,
         NEW w, w = t[1], NEW d, d = disk[w], NEW y, y = task'[t],
         d.land = None \/ d.land.state # "checking",
         y.pc \in {"called", "drive", "refuse", "hold"},
         y.pc = "drive" => disk'[w].land.state # "checking"
  PROVE  Locks'
  <1>1. /\ w \in Workers /\ up /\ up' /\ Only(t) /\ AllIdle(w)
        /\ \A v \in Workers : v # w => disk'[v] = disk[v]
    BY TaskWorker DEF Starts, AllIdle
  <1>2. \A q \in jobs : q.worker # w
    BY <1>1, RestIs
  <1>3. y.pc # "idle" /\ y.pc # "lock" /\ InHand(w, y, lock, jobs)
    BY <1>2 DEF InHand, Steps, Running
  <1>4. JobsApart'
    BY SameApart DEF Locks
  <1> QED BY <1>1, <1>3, <1>4, BeginLocks

LEMMA CallLocks ==
  ASSUME OneRun, Held, Locks, Inv', NEW w \in Workers, NEW c \in Callers, Call(w, c) PROVE Locks'
  <1>1. PICK t : t = <<w, c>>
    OBVIOUS
  <1>2. t \in Tasks /\ Starts(t) /\ t[1] = w
    BY <1>1, CallStarts DEF Held
  <1>3. lock' = lock /\ jobs' = jobs /\ ends' = ends /\ Landable(w) /\ \E m : Go(t, "called", m)
    BY <1>1 DEF Call
  <1>4. task'[t].pc = "called"
    BY <1>2, <1>3, GoneThere DEF Held
  <1>5. PICK d : d = disk[w]
    OBVIOUS
  <1>6. d.land = None \/ d.land.state # "checking"
    <2>1. Phased(w, d)
      BY <1>5 DEF Held, Control
    <2> QED BY <1>3, <1>5, <2>1 DEF Phased, Landable, is_held
  <1> QED BY <1>2, <1>3, <1>4, <1>5, <1>6, StartLocks

LEMMA AnswerLocks ==
  ASSUME Held, Locks, Inv', NEW c \in cards, Approve(c) \/ Deny(c) PROVE Locks'
  <1>1. PICK t, w, d : t = <<c.worker, "card">> /\ w = c.worker /\ d = disk[w]
    OBVIOUS
  <1>2. up' = up /\ lock' = lock /\ jobs' = jobs /\ ends' = ends /\ Answerable(c)
    BY DEF Approve, Deny
  <1>3. CASE ~Fits(c)
    <2>1. disk' = disk /\ task' = task
      BY <1>3 DEF Approve, Deny
    <2>2. JobsApart'
      BY <1>2, SameApart DEF Locks
    <2> QED BY <1>2, <2>1, <2>2, StillLocks
  <1>4. CASE Fits(c)
    <2>1. /\ t \in Tasks /\ t[1] = w /\ w \in Workers /\ t[2] = "card" /\ d.land \in LandState(w)
          /\ d.land # None /\ d.land.state = "awaiting_human"
      <3>1. task[<<c.worker, "card">>].pc = "idle"
        BY <1>1, <1>2 DEF Answerable
      <3>2. Inv /\ Control /\ Fits(c)
        BY <1>4 DEF Held
      <3> QED BY <1>1, <3>1, <3>2, FitsIs
    <2>2. (\E m : Go(t, "drive", m)) \/ Fail(t, d.land)
      BY <1>1, <1>4 DEF Approve, Deny
    <2>3. task'[t].pc \in {"drive", "refuse", "hold"}
      <3>1. CASE \E m : Go(t, "drive", m)
        BY <2>1, <3>1, GoneThere DEF Held
      <3>2. CASE Fail(t, d.land)
        BY <2>1, <3>2, FailIs DEF Held
      <3> QED BY <2>2, <3>1, <3>2
    <2>4. Rests \/ Starts(t)
      BY <1>1, ApproveStarts, DenyStarts DEF Held
    <2>5. Starts(t)
      <3> SUFFICES ASSUME Rests PROVE FALSE
        BY <2>4
      <3> QED BY <1>2, <1>4 DEF Rests, Approve, Deny
    <2>6. task'[t].pc = "drive" => disk'[w].land.state # "checking"
      <3>1. Turn(t, disk'[w]) \/ task'[t].pc # "drive"
        BY <2>1, <2>5 DEF Starts, Beside
      <3>2. t[2] \notin JobIds
        BY <2>1, LandAssumption
      <3>3. task'[t].pc = "drive" => disk'[w].land # None
        BY <2>1, <2>5 DEF Starts, Beside, Copies
      <3> QED BY <3>1, <3>2, <3>3 DEF Turn
    <2> QED BY <1>1, <1>2, <2>1, <2>3, <2>5, <2>6, StartLocks
  <1> QED BY <1>3, <1>4

LEMMA CheckEndsLocks == ASSUME Held, Locks, Inv', NEW q \in jobs, CheckEnds(q) PROVE Locks'
  <1>1. PICK ok \in BOOLEAN : /\ UNCHANGED <<up, disk, task, lock>> /\ jobs' = jobs \ {q}
                              /\ ends' = ends \cup {[job |-> q, passed |-> ok]}
    BY DEF CheckEnds
  <1>2. ASSUME NEW p \in jobs', NEW e \in ends', p.worker = e.job.worker PROVE p.id # e.job.id
    <2>1. CASE e \in ends
      BY <1>1, <1>2, <2>1 DEF Locks, JobsApart
    <2>2. CASE e.job = q
      BY <1>1, <1>2, <2>2 DEF Locks, JobsApart
    <2> QED BY <1>1, <1>2, <2>1, <2>2
  <1>3. JobsApart'
    BY <1>1, <1>2 DEF Locks, JobsApart
  <1> QED BY <1>1, <1>3, StillLocks

\* With no third repository, where one check failed and another runs nothing landed.
LEMMA NoneLanded ==
  ASSUME FewChecks, NEW w \in Workers, NEW l \in LandState(w), NEW r \in Of[w] \cap Checked,
         NEW p \in Of[w] \cap Checked, p # r, l.repos[r].status # "landed", l.repos[p].status # "landed"
  PROVE  landed(l) = {}
  <1>1. Of[w] = {r, p}
    BY DEF FewChecks
  <1>2. landed(l) = {s \in Of[w] : l.repos[s].status = "landed"}
    BY UnlandedIs
  <1> QED BY <1>1, <1>2

LEMMA MarkEndedLocks ==
  ASSUME OneRun, FewChecks, Held, Locks, Inv', NEW e \in ends, MarkEnded(e) PROVE Locks'
  <1>1. PICK q, w, t, r : q = e.job /\ w = q.worker /\ t = <<w, q.id>> /\ r = q.repo
    OBVIOUS
  <1>2. /\ w \in Workers /\ t \in Tasks /\ t[1] = w /\ up /\ up'
        /\ lock' = lock /\ jobs' = jobs /\ ends' \subseteq ends
    <2>1. w \in Workers /\ t \in Tasks /\ t[1] = w /\ up /\ up'
      BY <1>1, MarkedIs DEF Held
    <2> QED BY <2>1 DEF MarkEnded
  <1>3. JobsApart'
    BY <1>2 DEF Locks, JobsApart
  <1>4. CASE disk' = disk /\ task' = task
    BY <1>2, <1>3, <1>4, StillLocks
  <1>5. CASE ~(disk' = disk /\ task' = task)
    <2>1. PICK d, k, y : d = disk[w].land /\ k = disk'[w] /\ y = task'[t]
      OBVIOUS
    <2>2. PICK m : /\ d # None /\ d.state = "checking" /\ r \in Of[w]
                   /\ d.repos[r].status = "checking" /\ d.repos[r].job = q.id
                   /\ disk' = [disk EXCEPT ![w].land = m]
                   /\ m.state = "checking" /\ m.id = d.id
                   /\ m.repos[r].status \in {"tested", "pending"}
                   /\ m \in LandState(w) /\ \A p \in Of[w] : p # r => m.repos[p] = d.repos[p]
                   /\ \/ Fail(t, m)
                      \/ /\ m.repos[r].status = "tested"
                         /\ \/ AllIn(m) /\ Go(t, "gate", [m EXCEPT !.state = "advancing"])
                            \/ task' = task
      BY <1>1, <1>5, <2>1, MarkedIs DEF Held
    <2>3. Starts(t)
      BY <1>1, <1>5, MarkEndedStarts DEF Held
    <2>4. Only(t) /\ AllIdle(w) /\ \A v \in Workers : v # w => disk'[v] = disk[v]
      BY <1>2, <2>3 DEF Starts, AllIdle
    <2>5. /\ AtRest(w, disk[w], lock, jobs) /\ Phased(w, disk[w]) /\ Inv /\ d \in LandState(w)
          /\ \A p \in jobs : p.repo \in Of[p.worker]
      BY <1>2, <2>1, <2>2, <2>4, RestIs
    <2>6. k.land = m /\ m # None
      <3>1. disk \in [Workers -> Record] /\ disk[w] \in Record
        BY <1>2, <2>5 DEF Inv, Records
      <3> QED BY <1>2, <2>1, <2>2, <3>1, NoneAssumption DEF Record
    <2>7. /\ unlanded(m) = unlanded(d) /\ unlanded(m) = {s \in Of[w] : m.repos[s].status # "landed"}
          /\ DOMAIN m.repos = Of[w]
      <3>1. \A s \in Of[w] : m.repos[s].status # "landed" <=> d.repos[s].status # "landed"
        BY <2>2
      <3>2. /\ unlanded(m) = {s \in Of[w] : m.repos[s].status # "landed"}
            /\ unlanded(d) = {s \in Of[w] : d.repos[s].status # "landed"}
        BY <1>2, <2>2, <2>5, UnlandedIs
      <3> QED BY <1>2, <2>2, <3>1, <3>2, IdIs
    <2>8. \A s \in unlanded(m) : /\ lock[s] = m.id
                                 /\ s # r => m.repos[s].status \in {"tested", "checking"}
      <3>1. \A s \in unlanded(d) : lock[s] = d.id /\ d.repos[s].status \in {"tested", "checking"}
        BY <2>1, <2>2, <2>5 DEF AtRest
      <3> QED BY <2>2, <2>7, <3>1
    <2>9. ASSUME NEW p \in jobs, p.worker = w
          PROVE  /\ p.repo \in Of[w] /\ p.repo # r /\ CheckOf(p, m) /\ lock[p.repo] = p.land
                 /\ m.repos[p.repo].status = "checking"
      <3>1. CheckOf(p, d) /\ p.repo \in Of[w]
        BY <2>1, <2>5, <2>9 DEF AtRest
      <3>2. p.id # q.id
        BY <1>1, <2>9 DEF Locks, JobsApart
      <3>3. p.repo # r
        BY <2>2, <3>1, <3>2 DEF CheckOf
      <3>4. CheckOf(p, m) /\ m.repos[p.repo].status = "checking"
        BY <2>2, <3>1, <3>3 DEF CheckOf
      <3>5. lock[p.repo] = m.id
        BY <2>7, <2>8, <3>1, <3>4
      <3> QED BY <3>1, <3>3, <3>4, <3>5 DEF CheckOf
    <2>10. CASE Fail(t, m)
      <3>1. y.pc \in {"refuse", "hold"} /\ Alike(w, m, y.land) /\ (landed(m) = {} => y.pc = "refuse" /\ y.land = m)
        <4>1. y.pc \in {"refuse", "hold"} /\ Alike(w, m, y.land)
          BY <1>2, <2>1, <2>2, <2>5, <2>10, FailIs
        <4>2. ASSUME landed(m) = {} PROVE y.pc = "refuse" /\ y.land = m
          <5>1. Go(t, "refuse", m)
            BY <2>10, <4>2 DEF Fail
          <5>2. y = Gone(task[t], "refuse", m)
            BY <1>2, <2>1, <2>5, <5>1, GoIs
          <5> QED BY <5>2 DEF Gone
        <4> QED BY <4>1, <4>2
      <3>2. ASSUME NEW p \in jobs, p.worker = w PROVE y.pc = "refuse" /\ y.land = m
        <4>1. /\ p.repo \in Of[w] /\ p.repo # r /\ m.repos[p.repo].status = "checking"
              /\ d.repos[p.repo].status = "checking"
          BY <2>2, <2>9, <3>2
        <4>2. r \in Of[w] \cap Checked /\ p.repo \in Of[w] \cap Checked
          BY <2>1, <2>2, <2>5, <4>1 DEF Phased, OnlyChecked
        <4>3. m.repos[r].status # "landed" /\ m.repos[p.repo].status # "landed"
          BY <2>2, <4>1
        <4>4. landed(m) = {}
          BY <1>2, <2>2, <4>1, <4>2, <4>3, NoneLanded
        <4> QED BY <3>1, <4>4
      <3>3. InHand(w, y, lock, jobs)
        <4>1. \A p \in jobs : p.worker = w =>
                 y.pc \in {"check", "refuse", "clean"} /\ CheckOf(p, y.land) /\ lock[p.repo] = p.land
          BY <2>9, <3>2
        <4> QED BY <3>1, <4>1 DEF InHand, Steps, Running
      <3>4. y.land.id = d.id /\ y.pc \in Locking \ {"lock"} /\ y.pc # "idle" /\ y.pc # "drive"
        BY <2>2, <3>1 DEF Alike, Locking
      <3>5. PICK f : f = disk[w]
        OBVIOUS
      <3>6. f.land = d
        BY <2>1, <3>5
      <3> QED BY <1>2, <1>3, <2>1, <2>4, <3>3, <3>4, <3>5, <3>6, BeginLocks
    <2>11. CASE ~Fail(t, m) /\ AllIn(m) /\ Go(t, "gate", [m EXCEPT !.state = "advancing"])
      <3>1. PICK n : n = [m EXCEPT !.state = "advancing"]
        OBVIOUS
      <3>2. n.id = m.id /\ n.repos = m.repos
        BY <1>2, <2>2, <3>1, StateIs
      <3>3. y.pc = "gate" /\ y.land = n
        <4>1. y = Gone(task[t], "gate", n)
          BY <1>2, <2>1, <2>5, <2>11, <3>1, GoIs
        <4> QED BY <4>1 DEF Gone
      <3>4. unlanded(n) = unlanded(m)
        BY <3>2 DEF unlanded, landed
      <3>5. \A s \in unlanded(n) : lock[s] = n.id /\ n.repos[s].status = "tested"
        BY <2>2, <2>7, <2>8, <2>11, <3>2, <3>4 DEF AllIn
      <3>6. \A p \in jobs : p.worker # w
        BY <2>7, <2>9, <2>11 DEF AllIn
      <3>7. InHand(w, y, lock, jobs)
        BY <3>3, <3>5, <3>6 DEF InHand, Steps
      <3>8. y.land.id = d.id /\ y.pc \in Locking \ {"lock"} /\ y.pc # "idle" /\ y.pc # "drive"
        BY <2>2, <3>2, <3>3 DEF Locking
      <3>9. PICK f : f = disk[w]
        OBVIOUS
      <3>10. f.land = d
        BY <2>1, <3>9
      <3> QED BY <1>2, <1>3, <2>1, <2>4, <3>7, <3>8, <3>9, <3>10, BeginLocks
    <2>12. CASE ~Fail(t, m) /\ task' = task
      <3>1. y.pc = "idle"
        BY <1>2, <2>1, <2>4, <2>12 DEF AllIdle
      <3>2. m.repos[r].status = "tested"
        BY <2>2, <2>12
      <3>3. AtRest(w, k, lock, jobs)
        BY <2>2, <2>6, <2>8, <2>9, <3>2 DEF AtRest
      <3>4. k.land # None /\ k.land.state = "checking" /\ k.land.id = d.id
        BY <2>2, <2>6
      <3>5. PICK f : f = disk[w]
        OBVIOUS
      <3>6. f.land = d
        BY <2>1, <3>5
      <3> QED BY <1>2, <1>3, <2>1, <2>4, <3>1, <3>3, <3>4, <3>5, <3>6, BeginLocks
    <2> QED BY <2>2, <2>10, <2>11, <2>12
  <1> QED BY <1>4, <1>5

-------------------------------------------------------------------------------
(* A withdrawal, a crash, a restart, and the theorem.                       *)

LEMMA WithdrawLocks ==
  ASSUME Held, Locks, Inv', NEW w \in Workers, Report(w) \/ Retire(w) PROVE Locks'
  <1>1. Withdraws(w)
    BY WithdrawIs DEF Held
  <1>2. lock' = lock /\ jobs' = jobs /\ ends' = ends
    BY DEF Report, Retire, Withdraw
  <1>3. PICK d, e : d = disk[w] /\ e = disk'[w]
    OBVIOUS
  <1>4. /\ up /\ up' /\ task' = task /\ \A v \in Workers : v # w => disk'[v] = disk[v]
        /\ d.phase = "reported" \/ (d.phase = "landing" /\ d.land.state \in {"held", "awaiting_human"})
        /\ d.land # None => e.land.state = d.land.state \/ e.land.state = "held"
        /\ e.land # None => d.land # None
    BY <1>1, <1>3 DEF Withdraws
  <1>5. d.land # None => d.land.state # "checking" /\ e.land.state # "checking"
    <2>1. Phased(w, d)
      BY <1>3 DEF Held, Control
    <2> QED BY <1>4, <2>1 DEF Phased
  <1>6. InHands'
    BY <1>2, <1>4 DEF Locks, InHands
  <1>7. ASSUME NEW v \in Workers, AllIdle(v)' PROVE AtRest(v, disk'[v], lock', jobs')
    <2>1. AllIdle(v)
      BY <1>4, <1>7 DEF AllIdle
    <2>2. AtRest(v, disk[v], lock, jobs)
      BY <1>4, <2>1 DEF Locks, AtRests
    <2>3. CASE v # w
      BY <1>2, <1>4, <2>2, <2>3
    <2>4. CASE v = w
      <3>1. \A q \in jobs : q.worker # w
        BY <1>3, <1>5, <2>2, <2>4 DEF AtRest
      <3>2. AtRest(w, e, lock, jobs)
        BY <1>4, <1>5, <3>1 DEF AtRest
      <3> QED BY <1>2, <1>3, <2>4, <3>2
    <2> QED BY <2>3, <2>4
  <1>8. ASSUME NEW r \in Repos, lock[r] # None PROVE \E v \in Workers : r \in Of[v] /\ Owns(v, r)'
    <2>1. PICK v \in Workers : r \in Of[v] /\ Owns(v, r)
      BY <1>8 DEF Locks, Owned
    <2>2. CASE \E t \in Tasks : t[1] = v /\ task[t].pc # "idle" /\ task[t].land.id = lock[r] /\ Has(task[t], r)
      BY <1>2, <1>4, <2>1, <2>2 DEF Owns
    <2>3. CASE /\ disk[v].land # None /\ disk[v].land.state = "checking"
               /\ disk[v].land.id = lock[r] /\ AllIdle(v)
      <3>1. v # w
        BY <1>3, <1>5, <2>3
      <3> QED BY <1>2, <1>4, <2>1, <2>3, <3>1 DEF Owns, AllIdle
    <2> QED BY <2>1, <2>2, <2>3 DEF Owns
  <1>9. ASSUME NEW t \in Tasks, task[t].pc \in {"drive", "lock"} PROVE disk'[t[1]].land.state # "checking"
    <2>1. t[1] \in Workers
      BY TaskWorker
    <2>2. t[1] # w
      <3> SUFFICES ASSUME t[1] = w PROVE FALSE
        OBVIOUS
      <3>1. task[t].pc # "idle" /\ task[t].pc \in InRun
        BY <1>9 DEF InRun
      <3>2. Control
        BY DEF Held
      <3> QED BY <1>1, <3>1, <3>2, WithdrawFinds
    <2> QED BY <1>4, <1>9, <2>1, <2>2 DEF Locks, NotYet
  <1>10. JobsApart'
    BY <1>2, SameApart DEF Locks
  <1>11. AtRests' /\ Owned' /\ NotYet' /\ Down'
    BY <1>2, <1>4, <1>7, <1>8, <1>9 DEF AtRests, Owned, NotYet, Down
  <1> QED BY <1>6, <1>10, <1>11 DEF Locks

\* What is down has no lock and no check, and what a restart finds runs none.
LEMMA CrashLocks == ASSUME Crash PROVE Locks'
  <1>1. /\ ~up' /\ jobs' = {} /\ ends' = {} /\ \A r \in Repos : lock'[r] = None
        /\ \A t \in Tasks : task'[t].pc = "idle"
    BY DEF Crash, Idle
  <1> QED BY <1>1 DEF Locks, JobsApart, InHands, AtRests, Owned, NotYet, Down

LEMMA RestartLocks == ASSUME Held, Locks, Restart PROVE Locks'
  <1>1. ~up /\ up' /\ lock' = lock /\ jobs' = jobs /\ ends' = ends /\ task' = task
    BY DEF Restart
  <1>2. /\ jobs = {} /\ \A r \in Repos : lock[r] = None
        /\ \A t \in Tasks : task[t].pc = "idle"
    BY <1>1 DEF Locks, Down, Held, Control
  <1>3. ASSUME NEW w \in Workers PROVE AtRest(w, disk'[w], lock', jobs')
    <2>1. PICK d, e : d = disk[w] /\ e = disk'[w]
      OBVIOUS
    <2>2. Reconciled(w, d, e) /\ Phased(w, d)
      BY <2>1, RestartIs DEF Held, Control
    <2>3. e.land = None \/ e.land.state # "checking"
      <3>1. CASE Interrupted(w) /\ d.land \in LandState(w) /\ e.land = reconcile(d.land)
        BY <3>1, ReconcileIs
      <3>2. CASE e = d /\ ~Interrupted(w)
        BY <2>1, <2>2, <3>2 DEF Phased, Interrupted, in_progress
      <3> QED BY <2>2, <3>1, <3>2 DEF Reconciled
    <2>4. AtRest(w, e, lock', jobs')
      BY <1>1, <1>2, <2>3 DEF AtRest
    <2> QED BY <2>1, <2>4
  <1>4. JobsApart'
    BY <1>1, SameApart DEF Locks
  <1>5. InHands' /\ AtRests' /\ Owned' /\ NotYet' /\ Down'
    BY <1>1, <1>2, <1>3 DEF InHands, AtRests, Owned, NotYet, Down
  <1> QED BY <1>4, <1>5 DEF Locks

LEMMA LocksNext == ASSUME OneRun, FewChecks, Held, Locks, [Next]_vars PROVE Locks'
  <1>1. Inv'
    BY NextInv DEF Held
  <1>2. CASE \E t \in Tasks : TaskStep(t)
    BY <1>1, <1>2, HeldTask, TaskStepLocks
  <1>3. CASE \E q \in jobs : CheckEnds(q)
    BY <1>1, <1>3, CheckEndsLocks
  <1>4. CASE \E e \in ends : MarkEnded(e)
    BY <1>1, <1>4, MarkEndedLocks
  <1>5. CASE \E w \in Workers, c \in Callers : Call(w, c)
    BY <1>1, <1>5, CallLocks
  <1>6. CASE \E c \in cards : Approve(c) \/ Deny(c)
    BY <1>1, <1>6, AnswerLocks
  <1>7. CASE \/ \E r \in Repos : HumanCommit(r)
             \/ \E w \in Workers, r \in Repos : WorkerCommit(w, r)
             \/ UNCHANGED vars
    <2>1. UNCHANGED <<up, disk, task, lock>> /\ jobs' = jobs /\ ends' = ends
      BY <1>7 DEF HumanCommit, WorkerCommit, vars, env
    <2>2. JobsApart'
      BY <2>1, SameApart DEF Locks
    <2> QED BY <1>1, <2>1, <2>2, StillLocks
  <1>8. CASE \E w \in Workers : Report(w) \/ Retire(w)
    BY <1>1, <1>8, WithdrawLocks
  <1>9. CASE Crash
    BY <1>9, CrashLocks
  <1>10. CASE Restart
    BY <1>10, RestartLocks
  <1> QED BY <1>2, <1>3, <1>4, <1>5, <1>6, <1>7, <1>8, <1>9, <1>10 DEF Next, Others

LEMMA LocksInit == ASSUME Init PROVE Locks
  <1>1. /\ up /\ jobs = {} /\ ends = {} /\ \A r \in Repos : lock[r] = None
        /\ \A t \in Tasks : task[t].pc = "idle"
        /\ \A w \in Workers : disk[w].land = None
    BY DEF Init, Idle
  <1> QED BY <1>1 DEF Locks, JobsApart, InHands, AtRests, AtRest, Owned, NotYet, Down

LEMMA LocksIs == ASSUME Held, Locks PROVE LockHeld
  <1>1. ASSUME NEW r \in Repos, up, lock[r] # None
        PROVE  \/ \E t \in Tasks : task[t].land # None /\ land(t).id = lock[r]
               \/ \E w \in Workers : /\ disk[w].phase = "landing" /\ disk[w].land.id = lock[r]
                                     /\ disk[w].land.state = "checking"
    <2>1. PICK w \in Workers : Owns(w, r)
      BY <1>1 DEF Locks, Owned
    <2>2. CASE \E t \in Tasks : task[t].pc # "idle" /\ task[t].land.id = lock[r]
      BY <2>2, TaskIs DEF Held, land
    <2>3. CASE disk[w].land # None /\ disk[w].land.state = "checking" /\ disk[w].land.id = lock[r]
      BY <2>3 DEF Held, Control, Phased
    <2> QED BY <2>1, <2>2, <2>3 DEF Owns
  <1>2. ASSUME NEW t \in Tasks, task[t].pc \in Running, NEW r \in unlanded(land(t))
        PROVE  lock[r] = land(t).id
    <2>1. PICK x : x = task[t]
      OBVIOUS
    <2>2. x.pc # "idle" /\ x.pc \in Running /\ r \in unlanded(x.land)
      BY <1>2, <2>1 DEF Running, land
    <2>3. InHand(t[1], x, lock, jobs)
      BY <2>1, <2>2 DEF Locks, InHands
    <2> QED BY <2>1, <2>2, <2>3 DEF InHand, land
  <1>3. ASSUME NEW q \in jobs PROVE lock[q.repo] = q.land
    <2>1. PICK w : w = q.worker
      OBVIOUS
    <2>2. w \in Workers /\ q.repo \in Of[w] /\ up
      <3>1. up
        BY <1>3 DEF Locks, Down
      <3>2. w \in Workers /\ q.repo \in Of[w]
        BY <1>3, <2>1 DEF Held, Inv, Queue, JobSet
      <3> QED BY <3>1, <3>2
    <2>3. CASE AllIdle(w)
      <3>1. PICK d : d = disk[w]
        OBVIOUS
      <3>2. AtRest(w, d, lock, jobs)
        BY <2>2, <2>3, <3>1 DEF Locks, AtRests
      <3>3. d.land # None /\ d.land.state = "checking" /\ CheckOf(q, d.land)
        BY <1>3, <2>1, <3>2 DEF AtRest
      <3>4. d.land \in LandState(w)
        BY <2>2, <3>1, <3>3, RecordIs DEF Held
      <3>5. q.repo \in unlanded(d.land)
        BY <2>2, <3>3, <3>4, UnlandedIs DEF CheckOf
      <3> QED BY <3>2, <3>3, <3>5 DEF AtRest, CheckOf
    <2>4. CASE ~AllIdle(w)
      <3>1. PICK t \in Tasks : t[1] = w /\ task[t].pc # "idle"
        BY <2>4 DEF AllIdle
      <3>2. InHand(w, task[t], lock, jobs)
        BY <3>1 DEF Locks, InHands
      <3> QED BY <1>3, <2>1, <3>2 DEF InHand
    <2> QED BY <2>3, <2>4
  <1> QED BY <1>1, <1>2, <1>3 DEF LockHeld, NoLockLeak

\* With one run at a time, and no check left behind by a land that failed beside it:
\* from its locks to its last step 2 a run holds every repository it still has to
\* land, so does every check in the queue, and no lock is left to nobody, whatever
\* crashes, restarts, retirements and answers come between.
THEOREM LandsSerialized == ASSUME OneRun, FewChecks PROVE Spec => []LockHeld
  <1>1. Init => Held /\ Locks
    BY HeldInit, LocksInit
  <1>2. Held /\ Locks /\ [Next]_vars => (Held /\ Locks)'
    BY HeldNext, LocksNext
  <1>3. Held /\ Locks => LockHeld
    BY LocksIs
  <1> QED BY <1>1, <1>2, <1>3, PTL DEF Spec
================================================================================
