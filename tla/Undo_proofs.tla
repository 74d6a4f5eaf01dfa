----------------------------- MODULE Undo_proofs -----------------------------
(***************************************************************************)
(* Theorems about Undo: its types, that a land is taken back once, what a  *)
(* revert is when it lands, and what an undo is at rest.  All follow from  *)
(* Inv, which ties each undo's file, its call's copy of it, its check, its *)
(* card and the lock to the commit and the line the undo made.             *)
(***************************************************************************)
EXTENDS Undo, FiniteSetTheorems, SequenceTheorems, WellFoundedInduction, TLAPS

-------------------------------------------------------------------------------
(* The invariant.                                                           *)

\* The target and the log, as the invariant reads them: who made a commit, an
\* undo's own commits, whose lines the log has, and what a land brought and took.
makers == {target[n].by : n \in 1..tip}
revs   == [u \in Undos |-> Reverts(u)]
ids    == {log[i].id : i \in DOMAIN log}
came   == [l \in Lands |-> tree(entry_of(l).at) \ tree(entry_of(l).at - 1)]
gone   == [l \in Lands |-> tree(entry_of(l).at - 1) \ tree(entry_of(l).at)]

Commit1 == [tree : SUBSET Changes, by : {Human} \cup Lands \cup Undos]
Line1   == [id : Lands \cup Undos \cup {None}, kind : {"land", "undo", "base_check"},
            undoes : Lands \cup {None}, at : Nat, check : {"passed", "failed", ""}, same : BOOLEAN]

Target == target \in Seq(Commit1) /\ tip >= 1

\* Each line is of a commit there is; a land's and an undo's are one each, of
\* what they made.
LineOf(e) ==
  /\ e.at \in 1..tip
  /\ e.kind = "land" => e.id \in Lands
  /\ e.kind = "undo" => e.id \in Undos
  /\ e.kind = "base_check" => e.id = None
  /\ e.id \in Lands => e.at >= 2 /\ e.id \in makers
  /\ e.id \in Undos => e.kind = "undo" /\ undo[e.id] # None /\ e.undoes = undo[e.id].undoes /\ revs[e.id] # {}

Logged ==
  /\ log \in Seq(Line1)
  /\ \A i \in DOMAIN log : LineOf(log[i])
  /\ \A i, j \in DOMAIN log : log[i].id = log[j].id => log[i].id = None \/ i = j

World ==
  /\ undone \subseteq Lands /\ seen \subseteq Undos \X Fps
  /\ shown \in [Lands -> SUBSET Fps]
  /\ up \in {"up", "down", "settling"}
  /\ lock \in Lands \cup Undos \cup {None} /\ RUNNING \in 0..tip
  /\ up # "up" => lock = None

Landing ==
  landing # None =>
    /\ landing \in [who : Lands, at : Nat, check : {"passed", ""}] /\ landing.at \in 2..tip
    /\ landing.who \notin ids /\ landing.who \in makers
    /\ up = "up" => lock = landing.who

\* What a file or a call's copy x of undo u says of the target, and of what the
\* human agreed to (sn).
Sound(sn, u, x) ==
  /\ x \in UndoState /\ x.tip <= tip
  /\ x.revert # None => /\ x.tip >= 1 /\ x.undoes \in ids
                        /\ x.revert = (target[x.tip].tree \ came[x.undoes]) \cup gone[x.undoes]
  /\ x.checked => x.revert # None /\ x.revert \cap Bad = {}
  /\ x.approved # None => <<u, x.approved>> \in sn
  /\ x.by = "human" /\ x.shown # None => <<u, x.shown>> \in sn

\* What its revert changes of the config.
change(x) == caught(target[x.tip].tree, x.revert)

\* If anything, somebody agreed to it; and it is something.
Agreed(x) == x.revert # None /\ change(x) \in {None, x.approved}
Asks(x)   == x.revert # None /\ change(x) # None

\* The file x of undo u.
FileOf(sn, u, x) == x # None =>
  /\ Sound(sn, u, x) /\ x.undoes \in ids
  /\ x.state \in {"locking", "checking", "advancing", "awaiting_human"} => x.attempts < MaxAttempts
  /\ x.state = "locking" /\ x.revert # None => Agreed(x)
  /\ x.state \in {"checking", "advancing"} => Agreed(x)
  /\ x.state = "awaiting_human" => Asks(x)
  /\ x.state \in {"checking", "awaiting_human", "held", "done", "refused"} => ~x.checked
  /\ x.state \in {"held", "done", "refused"} => x.revert = None

\* Where a call has a copy of its undo, and where it has the lock for it.
Copied  == {"tip", "queue", "queued", "advance", "cas", "log", "mark", "done", "ask", "asked",
            "refused", "held"}
Locking == {"tip", "queue", "queued", "advance", "cas", "log", "mark", "ask"}

\* The copy k that a call at pc works on, the file saying x meanwhile; c: whether
\* the run has a land check.
CopyOf(sn, u, x, pc, k, c) == pc \in Copied =>
  /\ Sound(sn, u, k) /\ k.undoes = x.undoes
  /\ pc \in {"tip", "queue", "queued", "advance", "ask", "asked"} =>
       k.state = "locking" /\ k.attempts < MaxAttempts /\ x.state \in {"locking", "advancing"}
  /\ pc = "tip" /\ k.revert # None => Agreed(k)
  /\ pc \in {"queue", "queued"} => ~k.checked
  /\ pc \in {"queue", "queued", "advance"} => Agreed(k)
  /\ pc \in {"ask", "asked"} => Asks(k)
  /\ pc \in {"advance", "cas"} /\ c => k.checked
  /\ pc \in {"cas", "log"} => k = x
  /\ pc \in {"cas", "log", "mark", "done"} => x.state = "advancing"
  /\ pc \in {"mark", "done"} => k.tip = x.tip
  /\ pc = "refused" => x.state \in {"locking", "checking", "advancing", "awaiting_human"}
  /\ pc = "held" => x.state \in {"locking", "advancing"}

\* Where there is a call.
CallOf(x, pc) ==
  /\ pc # "idle" => up = "up" /\ x # None
  /\ pc = "drive" => x.state = "locking"
  /\ pc = "post" => x.state \in {"held", "done", "refused"}
  /\ pc = "idle" /\ up = "up" /\ x # None => x.state \notin {"locking", "advancing"}

\* The undo's commit in the target, and what it has come to with it; d: the lands
\* whose worker is marked.
LandedOf(d, u, x, pc) ==
  /\ \A n, m \in revs[u] : n = m
  /\ \A n \in revs[u] :
       /\ x # None /\ pc \in {"idle", "post", "log", "mark", "done"}
       /\ \/ x.state = "done"
          \/ x.state = "advancing" /\ n = x.tip + 1 /\ target[n].tree = x.revert
  /\ x # None /\ x.state = "done" => revs[u] # {} /\ u \in ids /\ x.undoes \in d
  /\ pc \in {"log", "mark", "done"} => revs[u] # {}
  /\ pc \in {"mark", "done"} => u \in ids
  /\ pc = "done" => x.undoes \in d

\* Whether undo u has the lock; h: who has it.
LockOf(h, u, x, pc) ==
  /\ pc \in Locking => h = u
  /\ h = u => \/ pc \in Locking \cup {"drive", "refused", "held"}
              \/ pc = "idle" /\ x # None /\ x.state = "checking"
  /\ pc = "idle" /\ up = "up" /\ x # None /\ x.state = "checking" => h = u

\* Its check j, and its card f.
JobOf(x, pc, k, j) ==
  /\ j \in {"none", "queued", "passed", "failed", "unfinished"}
  /\ j # "none" => /\ up = "up" /\ x # None
                   /\ \/ pc = "queued"
                      \/ pc = "refused" /\ k.state = "checking" /\ x.state # "checking"
                      \/ pc = "idle" /\ x.state = "checking"
  /\ j = "passed" /\ pc = "queued" => k.revert \cap Bad = {}
  /\ j = "passed" /\ pc = "idle" => x.revert \cap Bad = {}

CardOf(x, pc, k, f) ==
  /\ f \in Fps
  /\ f # None => /\ up = "up" /\ x # None
                 /\ \/ pc = "asked" /\ f = change(k)
                    \/ pc = "idle" /\ x.state = "awaiting_human" /\ f = change(x)

Calls == [pc : Copied \cup {"idle", "drive", "post"}, u : UndoState \cup {None},
          check : BOOLEAN, failed : BOOLEAN]

One(u) ==
  LET x == undo[u]  pc == task[u].pc  k == task[u].u IN
  /\ task[u] \in Calls
  /\ FileOf(seen, u, x)
  /\ CopyOf(seen, u, x, pc, k, task[u].check)
  /\ CallOf(x, pc)
  /\ LandedOf(undone, u, x, pc)
  /\ LockOf(lock, u, x, pc)
  /\ JobOf(x, pc, k, job[u])
  /\ CardOf(x, pc, k, card[u])

\* Two undos of a land are never both open, or one open and one landed.
Live(u) == undo[u] # None /\ (open(undo[u]) \/ revs[u] # {})
Alone   == \A u, v \in Undos : Live(u) /\ Live(v) /\ undo[u].undoes = undo[v].undoes => u = v

Flags == CHECK \in BOOLEAN /\ undo \in [Undos -> UndoState \cup {None}] /\ DOMAIN task = Undos
         /\ DOMAIN job = Undos /\ DOMAIN card = Undos

Inv ==
  /\ Target /\ Logged /\ World /\ Landing /\ Flags
  /\ \A u \in Undos : One(u)
  /\ Alone

\* With the usual orders of steps, a check ends and a card is answered only
\* once its undo is saved as waiting for it.
Usual == \A u \in Undos :
  LET pc == task[u].pc  x == undo[u] IN
  up = "up" /\ x # None =>
  /\ pc = "queued" => job[u] = "queued"
  /\ pc = "asked" => card[u] # None
  /\ pc = "idle" /\ x.state = "checking" => job[u] # "none"
  /\ pc = "idle" /\ x.state = "awaiting_human" => card[u] # None

-------------------------------------------------------------------------------
(* Records: what an edit makes of an undo, and a step of its call.          *)

LEMMA Limits == MaxAttempts \in Nat /\ MaxAttempts # 0
  BY UndoAssumption

LEMMA Moved ==
  ASSUME NEW x \in UndoState, NEW s \in States, NEW b \in BOOLEAN
  PROVE  LET y == [x EXCEPT !.state = s, !.checked = b] IN
         /\ y \in UndoState /\ y.state = s /\ y.checked = b
         /\ y.undoes = x.undoes /\ y.by = x.by /\ y.tip = x.tip /\ y.revert = x.revert
         /\ y.attempts = x.attempts /\ y.approved = x.approved /\ y.shown = x.shown
  BY DEF UndoState

LEMMA Stated ==
  ASSUME NEW x \in UndoState, NEW s \in States
  PROVE  LET y == [x EXCEPT !.state = s] IN
         /\ y \in UndoState /\ y.state = s /\ y.checked = x.checked
         /\ y.undoes = x.undoes /\ y.by = x.by /\ y.tip = x.tip /\ y.revert = x.revert
         /\ y.attempts = x.attempts /\ y.approved = x.approved /\ y.shown = x.shown
  BY DEF UndoState

LEMMA Samed ==
  ASSUME NEW x \in UndoState, NEW b \in BOOLEAN
  PROVE  LET y == [x EXCEPT !.same = b] IN
         /\ y \in UndoState /\ y.state = x.state /\ y.checked = x.checked
         /\ y.undoes = x.undoes /\ y.by = x.by /\ y.tip = x.tip /\ y.revert = x.revert
         /\ y.attempts = x.attempts /\ y.approved = x.approved /\ y.shown = x.shown
  BY DEF UndoState

LEMMA Approved ==
  ASSUME NEW x \in UndoState, NEW f \in Fps
  PROVE  LET y == [x EXCEPT !.approved = f] IN
         /\ y \in UndoState /\ y.state = x.state /\ y.checked = x.checked
         /\ y.undoes = x.undoes /\ y.by = x.by /\ y.tip = x.tip /\ y.revert = x.revert
         /\ y.attempts = x.attempts /\ y.approved = f /\ y.shown = x.shown
  BY DEF UndoState

LEMMA Answers ==
  ASSUME NEW x \in UndoState, NEW f \in Fps
  PROVE  LET y == [x EXCEPT !.state = "locking", !.approved = f] IN
         /\ y \in UndoState /\ y.state = "locking" /\ y.checked = x.checked
         /\ y.undoes = x.undoes /\ y.by = x.by /\ y.tip = x.tip /\ y.revert = x.revert
         /\ y.attempts = x.attempts /\ y.approved = f /\ y.shown = x.shown
  <1>1. "locking" \in States
    BY DEF States
  <1> QED
    BY Stated, <1>1 DEF UndoState

LEMMA Counted ==
  ASSUME NEW x \in UndoState, NEW n \in 0..MaxAttempts
  PROVE  LET y == [x EXCEPT !.attempts = n] IN
         /\ y \in UndoState /\ y.state = x.state /\ y.checked = x.checked
         /\ y.undoes = x.undoes /\ y.by = x.by /\ y.tip = x.tip /\ y.revert = x.revert
         /\ y.attempts = n /\ y.approved = x.approved /\ y.shown = x.shown
  BY DEF UndoState

LEMMA Retried ==
  ASSUME NEW x \in UndoState, NEW n \in 0..MaxAttempts
  PROVE  LET y == [x EXCEPT !.attempts = n, !.state = "locking", !.revert = None,
                            !.checked = FALSE] IN
         /\ y \in UndoState /\ y.state = "locking" /\ ~y.checked
         /\ y.undoes = x.undoes /\ y.by = x.by /\ y.tip = x.tip /\ y.revert = None
         /\ y.attempts = n /\ y.approved = x.approved /\ y.shown = x.shown
  <1>1. "locking" \in States /\ FALSE \in BOOLEAN
    BY DEF States
  <1>2. \A s \in States, b \in BOOLEAN :
          [x EXCEPT !.attempts = n, !.state = s, !.revert = None, !.checked = b] \in UndoState
    BY DEF UndoState
  <1>3. [x EXCEPT !.attempts = n, !.state = "locking", !.revert = None, !.checked = FALSE] \in UndoState
    BY <1>1, <1>2
  <1> QED
    BY <1>3 DEF UndoState

AnyTree == SUBSET Changes
LEMMA Rebuilt ==
  ASSUME NEW x \in UndoState, NEW n \in Nat, NEW t \in AnyTree
  PROVE  LET y == [x EXCEPT !.tip = n, !.revert = t, !.checked = FALSE] IN
         /\ y \in UndoState /\ y.state = x.state /\ ~y.checked
         /\ y.undoes = x.undoes /\ y.by = x.by /\ y.tip = n /\ y.revert = t
         /\ y.attempts = x.attempts /\ y.approved = x.approved /\ y.shown = x.shown
  <1>1. \A b \in BOOLEAN : [x EXCEPT !.tip = n, !.revert = t, !.checked = b] \in UndoState
    BY DEF UndoState, AnyTree
  <1>2. [x EXCEPT !.tip = n, !.revert = t, !.checked = FALSE] \in UndoState
    BY <1>1
  <1> QED
    BY <1>2 DEF UndoState

LEMMA Over ==
  ASSUME NEW x \in UndoState, NEW s \in {"held", "done", "refused"}
  PROVE  /\ over(x, s) \in UndoState /\ over(x, s).state = s /\ ~over(x, s).checked
         /\ over(x, s).undoes = x.undoes /\ over(x, s).by = "coordinator"
         /\ over(x, s).tip = 0 /\ over(x, s).revert = None
         /\ over(x, s).shown = None
         /\ over(x, s).approved = IF s = "held" THEN x.approved ELSE None
  <1>1. \A n \in 0..MaxAttempts, z \in States, t \in {"coordinator", "human"}, r \in (SUBSET Changes) \cup {None} :
          [x EXCEPT !.state = z, !.tip = 0, !.revert = r, !.attempts = n, !.by = t] \in UndoState
    BY DEF UndoState
  <1>2. \A y \in UndoState, a \in Fps, f \in Fps, b \in BOOLEAN, c \in BOOLEAN :
          [y EXCEPT !.checked = b, !.shown = f, !.same = c, !.approved = a] \in UndoState
    BY DEF UndoState
  <1>3. None \in Fps
    BY DEF Fps
  <1>4. 0 \in 0..MaxAttempts
    BY Limits
  <1>5. s \in States
    BY DEF States
  <1>6. (IF s = "held" THEN x.approved ELSE None) \in Fps
    BY <1>3 DEF UndoState
  <1> DEFINE y == [x EXCEPT !.state = s, !.tip = 0, !.revert = None, !.attempts = 0, !.by = "coordinator"]
             z == [y EXCEPT !.checked = FALSE, !.shown = None, !.same = TRUE,
                            !.approved = IF s = "held" THEN x.approved ELSE None]
  <1>7. y \in UndoState
    BY <1>1, <1>4, <1>5
  <1> HIDE DEF y
  <1>8. z \in UndoState
    BY <1>2, <1>3, <1>6, <1>7
  <1> USE DEF y
  <1>9. over(x, s) = z
    BY DEF over, UndoState
  <1> QED
    BY <1>8, <1>9 DEF UndoState

LEMMA Goes ==
  ASSUME DOMAIN task = Undos, NEW u \in Undos, task[u] \in Calls,
         NEW p \in Copied \cup {"post"}, NEW x \in UndoState \cup {None}, Go(u, p, x)
  PROVE  /\ task'[u] \in Calls /\ task'[u].pc = p /\ task'[u].u = x
         /\ task'[u].check = task[u].check /\ task'[u].failed = task[u].failed
         /\ DOMAIN task' = Undos /\ \A v \in Undos \ {u} : task'[v] = task[v]
  BY DEF Go, Calls, Copied

LEMMA Ends ==
  ASSUME DOMAIN task = Undos, NEW u \in Undos, End(u)
  PROVE  /\ task'[u] = Idle /\ Idle \in Calls /\ Idle.pc = "idle"
         /\ DOMAIN task' = Undos /\ \A v \in Undos \ {u} : task'[v] = task[v]
  BY DEF End, Calls, Idle

LEMMA Saves ==
  ASSUME undo \in [Undos -> UndoState \cup {None}], NEW u \in Undos, NEW x \in UndoState, save(u, x)
  PROVE  /\ undo' \in [Undos -> UndoState \cup {None}] /\ undo'[u] = x
         /\ \A v \in Undos \ {u} : undo'[v] = undo[v]
  BY DEF save

-------------------------------------------------------------------------------
(* The target and the log only ever grow, and keep what they said.          *)

LEMMA Still ==
  ASSUME UNCHANGED <<target, log>>
  PROVE  /\ tip' = tip /\ makers' = makers /\ revs' = revs
         /\ ids' = ids /\ came' = came /\ gone' = gone
  BY DEF tip, makers, revs, Reverts, ids, came, gone, entry_of, tree

LEMMA Entry ==
  ASSUME Logged, NEW i \in DOMAIN log, log[i].id # None
  PROVE  entry_of(log[i].id) = log[i]
  <1> DEFINE l == log[i].id
  <1>1. \A j \in DOMAIN log : log[j].id = l => j = i
    BY DEF Logged
  <1>2. (CHOOSE k \in DOMAIN log : log[k].id = l) = i
    BY <1>1
  <1> QED
    BY <1>2 DEF entry_of

LEMMA Entries ==
  ASSUME Logged, NEW l \in Lands \cap ids
  PROVE  /\ entry_of(l).at \in 2..tip /\ entry_of(l).at - 1 \in 1..tip
         /\ l \in makers /\ \E i \in DOMAIN log : entry_of(l) = log[i] /\ log[i].id = l
  <1>1. PICK i \in DOMAIN log : log[i].id = l
    BY DEF ids
  <1>2. l # None
    BY UndoAssumption
  <1>3. entry_of(l) = log[i]
    BY <1>1, <1>2, Entry
  <1>4. LineOf(log[i])
    BY DEF Logged
  <1>5. log[i].at \in 1..tip /\ log[i].at >= 2 /\ l \in makers
    BY <1>1, <1>4 DEF LineOf
  <1> QED
    BY <1>1, <1>3, <1>5 DEF tip

\* What a step leaves as it was.
Grows ==
  /\ tip' \in Nat /\ tip <= tip' /\ \A n \in 1..tip : target'[n] = target[n]
  /\ ids \subseteq ids' /\ makers \subseteq makers'
  /\ \A l \in Lands \cap ids : came'[l] = came[l] /\ gone'[l] = gone[l]
  /\ undone \subseteq undone'

LEMMA StillGrows ==
  ASSUME Target, UNCHANGED <<target, log>>, undone \subseteq undone'
  PROVE  Grows
  <1>1. tip \in Nat
    BY DEF Target, tip
  <1> QED
    BY <1>1, Still DEF Grows

LEMMA Extends ==
  ASSUME Target, Logged, NEW c \in Commit1, target' = Append(target, c), UNCHANGED log
  PROVE  /\ Target' /\ tip' = tip + 1 /\ target'[tip + 1] = c
         /\ \A n \in 1..tip : target'[n] = target[n]
         /\ makers' = makers \cup {c.by} /\ ids' = ids
         /\ \A u \in Undos : revs'[u] = IF c.by = u THEN revs[u] \cup {tip + 1} ELSE revs[u]
         /\ \A l \in Lands \cap ids : came'[l] = came[l] /\ gone'[l] = gone[l]
  <1>1. target \in Seq(Commit1) /\ tip \in Nat /\ tip >= 1
    BY DEF Target, tip
  <1>2. /\ target' \in Seq(Commit1) /\ tip' = tip + 1 /\ target'[tip + 1] = c
        /\ \A n \in 1..tip : target'[n] = target[n]
    BY <1>1 DEF tip
  <1>3. Target'
    BY <1>1, <1>2 DEF Target
  <1>4. makers' = makers \cup {c.by}
    <2> HIDE DEF tip
    <2>1. \A n \in 1..tip' : n \in 1..tip \/ n = tip + 1
      BY <1>1, <1>2
    <2>2. 1..tip \subseteq 1..tip' /\ tip + 1 \in 1..tip'
      BY <1>1, <1>2
    <2> QED
      BY <1>2, <2>1, <2>2 DEF makers
  <1>5. ids' = ids
    BY DEF ids
  <1>6. ASSUME NEW u \in Undos
        PROVE  revs'[u] = IF c.by = u THEN revs[u] \cup {tip + 1} ELSE revs[u]
    <2>1. revs'[u] = {n \in 1..tip' : target'[n].by = u} /\ revs[u] = {n \in 1..tip : target[n].by = u}
      BY DEF revs, Reverts
    <2>2. \A n : n \in 1..tip' <=> n \in 1..tip \/ n = tip + 1
      BY <1>1, <1>2
    <2>3. \A n : n \in revs'[u] <=> n \in revs[u] \/ (n = tip + 1 /\ c.by = u)
      <3> HIDE DEF tip
      <3> QED
        BY <1>2, <2>1, <2>2
    <2> QED
      BY <2>3
  <1>7. ASSUME NEW l \in Lands \cap ids
        PROVE  came'[l] = came[l] /\ gone'[l] = gone[l]
    <2>1. entry_of(l).at \in 1..tip /\ entry_of(l).at - 1 \in 1..tip
      BY Entries DEF tip
    <2>2. entry_of(l)' = entry_of(l)
      BY DEF entry_of
    <2>3. tree(entry_of(l).at)' = tree(entry_of(l).at) /\ tree(entry_of(l).at - 1)' = tree(entry_of(l).at - 1)
      BY <1>2, <2>1, <2>2 DEF tree
    <2> QED
      BY <2>2, <2>3 DEF came, gone
  <1> QED
    BY <1>2, <1>3, <1>4, <1>5, <1>6, <1>7

LEMMA ExtendsGrows ==
  ASSUME Target, Logged, NEW c \in Commit1, target' = Append(target, c), UNCHANGED log,
         undone \subseteq undone'
  PROVE  Grows
  <1>1. tip \in Nat
    BY DEF Target, tip
  <1>2. /\ tip' = tip + 1 /\ \A n \in 1..tip : target'[n] = target[n]
        /\ makers' = makers \cup {c.by} /\ ids' = ids
        /\ \A l \in Lands \cap ids : came'[l] = came[l] /\ gone'[l] = gone[l]
    BY Extends
  <1>3. tip' \in Nat /\ tip <= tip'
    BY <1>1, <1>2
  <1> QED
    BY <1>2, <1>3, Zenon DEF Grows

LEMMA Writes ==
  ASSUME Target, Logged, NEW e \in Line1, log' = Append(log, e), UNCHANGED target,
         e.id = None \/ e.id \notin ids
  PROVE  /\ tip' = tip /\ makers' = makers /\ revs' = revs
         /\ ids' = ids \cup {e.id} /\ log' \in Seq(Line1)
         /\ DOMAIN log' = DOMAIN log \cup {Len(log) + 1} /\ log'[Len(log) + 1] = e
         /\ Len(log) + 1 \notin DOMAIN log
         /\ \A i \in DOMAIN log : log'[i] = log[i]
         /\ \A i, j \in DOMAIN log' : log'[i].id = log'[j].id => log'[i].id = None \/ i = j
         /\ \A l \in Lands \cap ids : came'[l] = came[l] /\ gone'[l] = gone[l]
  <1>1. log \in Seq(Line1) /\ DOMAIN log = 1..Len(log) /\ Len(log) \in Nat
    BY DEF Logged
  <1>2. /\ log' \in Seq(Line1) /\ Len(log') = Len(log) + 1 /\ log'[Len(log) + 1] = e
        /\ \A i \in DOMAIN log : log'[i] = log[i]
    BY <1>1
  <1>3. DOMAIN log' = DOMAIN log \cup {Len(log) + 1} /\ Len(log) + 1 \notin DOMAIN log
    BY <1>1, <1>2
  <1>4. tip' = tip /\ makers' = makers /\ revs' = revs
    BY DEF tip, makers, revs, Reverts
  <1>5. ids' = ids \cup {e.id}
    BY <1>2, <1>3 DEF ids
  <1>6. \A i \in DOMAIN log : log[i].id \in ids
    BY DEF ids
  <1>7. \A i, j \in DOMAIN log : log[i].id = log[j].id => log[i].id = None \/ i = j
    BY DEF Logged
  <1>8. \A i, j \in DOMAIN log' : log'[i].id = log'[j].id => log'[i].id = None \/ i = j
    BY <1>2, <1>3, <1>6, <1>7
  <1>9. ASSUME NEW l \in Lands \cap ids
        PROVE  came'[l] = came[l] /\ gone'[l] = gone[l]
    <2>1. PICK i \in DOMAIN log : log[i].id = l
      BY DEF ids
    <2>2. l # None
      BY UndoAssumption
    <2>3. entry_of(l) = log[i]
      BY <2>1, <2>2, Entry
    <2>4. i \in DOMAIN log' /\ log'[i].id = l /\ log'[i] = log[i]
      BY <1>2, <1>3, <2>1
    <2>5. \A j \in DOMAIN log' : log'[j].id = l => j = i
      BY <1>8, <2>2, <2>4
    <2>6. (CHOOSE k \in DOMAIN log' : log'[k].id = l) = i
      BY <2>4, <2>5
    <2>7. entry_of(l)' = log[i]
      BY <2>4, <2>6 DEF entry_of
    <2>8. \A n : tree(n)' = tree(n)
      BY DEF tree
    <2> QED
      BY <2>3, <2>7, <2>8 DEF came, gone, tree
  <1> QED
    BY <1>2, <1>3, <1>4, <1>5, <1>8, <1>9

LEMMA WritesGrows ==
  ASSUME Target, Logged, NEW e \in Line1, log' = Append(log, e), UNCHANGED target,
         e.id = None \/ e.id \notin ids, undone \subseteq undone'
  PROVE  Grows
  <1>1. tip \in Nat
    BY DEF Target, tip
  <1> QED
    BY <1>1, Writes DEF Grows

LEMMA Inverses ==
  ASSUME NEW l \in Lands, NEW t
  PROVE  inverse(l, t) = (t \ came[l]) \cup gone[l]
  BY DEF inverse, came, gone

-------------------------------------------------------------------------------
(* Frames.  What is said of file x, call t, job j and card f of undo u in   *)
(* the world as it was, holds of them in a world that only grew.            *)

\* What s has the human's word on for undo u is still on record.
Recalls(s, u) == \A f : <<u, f>> \in s => <<u, f>> \in seen'

LEMMA SoundKept ==
  ASSUME Target, Grows, NEW s, NEW u, NEW x, Sound(s, u, x), Recalls(s, u)
  PROVE  /\ x.tip <= tip'
         /\ x.revert # None => /\ x.tip >= 1 /\ x.undoes \in ids'
              /\ x.revert = (target'[x.tip].tree \ came'[x.undoes]) \cup gone'[x.undoes]
              /\ target'[x.tip].tree = target[x.tip].tree
         /\ x.approved # None => <<u, x.approved>> \in seen'
         /\ x.by = "human" /\ x.shown # None => <<u, x.shown>> \in seen'
  <1>1. x.tip \in Nat /\ x.undoes \in Lands /\ x.tip <= tip
    BY DEF Sound, UndoState
  <1>2. tip \in Nat /\ tip' \in Nat /\ tip <= tip'
    BY DEF Grows, Target, tip
  <1>3. x.tip <= tip'
    BY <1>1, <1>2
  <1>4. ASSUME x.revert # None
        PROVE  /\ x.tip >= 1 /\ x.undoes \in ids'
               /\ x.revert = (target'[x.tip].tree \ came'[x.undoes]) \cup gone'[x.undoes]
               /\ target'[x.tip].tree = target[x.tip].tree
    <2>1. x.tip \in 1..tip /\ x.undoes \in ids
      BY <1>1, <1>2, <1>4 DEF Sound
    <2>2. target'[x.tip] = target[x.tip] /\ x.undoes \in ids'
          /\ came'[x.undoes] = came[x.undoes] /\ gone'[x.undoes] = gone[x.undoes]
      BY <1>1, <2>1 DEF Grows
    <2> QED
      BY <1>1, <2>1, <2>2, <1>4 DEF Sound
  <1> QED
    BY <1>3, <1>4 DEF Sound, Recalls

LEMMA FileKept ==
  ASSUME Target, Grows, NEW s, NEW u \in Undos, NEW x, FileOf(s, u, x), Recalls(s, u), undo'[u] = x
  PROVE  FileOf(seen, u, undo[u])'
  <1>2. SUFFICES ASSUME x # None
                 PROVE  FileOf(seen, u, undo[u])'
    BY DEF FileOf
  <1>3. Sound(s, u, x) /\ x.undoes \in ids'
    BY <1>2 DEF FileOf, Grows
  <1>4. Sound(seen, u, undo[u])'
    <2>1. /\ x.tip <= tip'
          /\ x.revert # None => /\ x.tip >= 1 /\ x.undoes \in ids'
               /\ x.revert = (target'[x.tip].tree \ came'[x.undoes]) \cup gone'[x.undoes]
          /\ x.approved # None => <<u, x.approved>> \in seen'
          /\ x.by = "human" /\ x.shown # None => <<u, x.shown>> \in seen'
      BY <1>3, SoundKept
    <2> QED
      BY <1>3, <2>1 DEF Sound
  <1>5. x.revert # None => target'[x.tip].tree = target[x.tip].tree
    BY <1>3, SoundKept
  <1> QED
    BY <1>2, <1>3, <1>4, <1>5 DEF FileOf, Agreed, Asks, change

LEMMA CopyKept ==
  ASSUME Target, Grows, NEW s, NEW u \in Undos, NEW x, NEW p, NEW k, NEW c, CopyOf(s, u, x, p, k, c),
         Recalls(s, u), undo'[u] = x, task'[u].pc = p, task'[u].u = k, task'[u].check = c
  PROVE  CopyOf(seen, u, undo[u], task[u].pc, task[u].u, task[u].check)'
  <1>2. SUFFICES ASSUME p \in Copied
                 PROVE  CopyOf(seen, u, undo[u], task[u].pc, task[u].u, task[u].check)'
    BY DEF CopyOf
  <1>3. Sound(s, u, k)
    BY <1>2 DEF CopyOf
  <1>4. Sound(seen, u, task[u].u)'
    <2>1. /\ k.tip <= tip'
          /\ k.revert # None => /\ k.tip >= 1 /\ k.undoes \in ids'
               /\ k.revert = (target'[k.tip].tree \ came'[k.undoes]) \cup gone'[k.undoes]
          /\ k.approved # None => <<u, k.approved>> \in seen'
          /\ k.by = "human" /\ k.shown # None => <<u, k.shown>> \in seen'
      BY <1>3, SoundKept
    <2> QED
      BY <1>3, <2>1 DEF Sound
  <1>5. k.revert # None => target'[k.tip].tree = target[k.tip].tree
    BY <1>3, SoundKept
  <1> QED
    BY <1>2, <1>3, <1>4, <1>5 DEF CopyOf, Agreed, Asks, change

LEMMA CallKept ==
  ASSUME NEW u \in Undos, NEW x, NEW p, CallOf(x, p), up' = up, undo'[u] = x, task'[u].pc = p
  PROVE  CallOf(undo[u], task[u].pc)'
  BY DEF CallOf

LEMMA LandedKept ==
  ASSUME Grows, NEW d, NEW u \in Undos, NEW x, NEW p, LandedOf(d, u, x, p),
         undo'[u] = x, task'[u].pc = p, d \subseteq undone', revs'[u] = revs[u]
  PROVE  LandedOf(undone, u, undo[u], task[u].pc)'
  <1>2. \A n \in revs[u] : target'[n] = target[n]
    BY DEF revs, Reverts, Grows
  <1> QED
    BY <1>2 DEF LandedOf, Grows

LEMMA LockKept ==
  ASSUME NEW h, NEW u \in Undos, NEW x, NEW p, LockOf(h, u, x, p),
         undo'[u] = x, task'[u].pc = p, lock' = u <=> h = u, up' = up
  PROVE  LockOf(lock, u, undo[u], task[u].pc)'
  BY DEF LockOf

LEMMA JobKept ==
  ASSUME NEW u \in Undos, NEW x, NEW p, NEW k, NEW j, JobOf(x, p, k, j),
         undo'[u] = x, task'[u].pc = p, task'[u].u = k, job'[u] = j, up' = up
  PROVE  JobOf(undo[u], task[u].pc, task[u].u, job[u])'
  BY DEF JobOf

LEMMA CardKept ==
  ASSUME Target, Grows, NEW s, NEW u \in Undos, NEW x, NEW p, NEW k, NEW c, NEW f,
         FileOf(s, u, x), CopyOf(s, u, x, p, k, c), Recalls(s, u), CardOf(x, p, k, f),
         undo'[u] = x, task'[u].pc = p, task'[u].u = k, card'[u] = f, up' = up
  PROVE  CardOf(undo[u], task[u].pc, task[u].u, card[u])'
  <1>1. ASSUME p = "asked" PROVE target'[k.tip].tree = target[k.tip].tree
    <2>1. Sound(s, u, k) /\ k.revert # None
      BY <1>1 DEF CopyOf, Copied, Asks
    <2> QED
      BY <2>1, SoundKept
  <1>2. ASSUME x # None, x.state = "awaiting_human"
        PROVE  target'[x.tip].tree = target[x.tip].tree
    <2>1. Sound(s, u, x) /\ x.revert # None
      BY <1>2 DEF FileOf, Asks
    <2> QED
      BY <2>1, SoundKept
  <1> QED
    BY <1>1, <1>2 DEF CardOf, change

\* One undo with its new file, call, check and card.
LEMMA Becomes ==
  ASSUME Target, Grows, up' = up,
         NEW u \in Undos, NEW s, NEW d, NEW h, NEW x, NEW p, NEW k, NEW c, NEW j, NEW f,
         FileOf(s, u, x), CopyOf(s, u, x, p, k, c), CallOf(x, p), LandedOf(d, u, x, p),
         LockOf(h, u, x, p), JobOf(x, p, k, j), CardOf(x, p, k, f),
         Recalls(s, u), d \subseteq undone', lock' = u <=> h = u, revs'[u] = revs[u],
         undo'[u] = x, task'[u] \in Calls, task'[u].pc = p, task'[u].u = k, task'[u].check = c,
         job'[u] = j, card'[u] = f
  PROVE  One(u)'
  <1>1. FileOf(seen, u, undo[u])'
    BY FileKept
  <1>2. CopyOf(seen, u, undo[u], task[u].pc, task[u].u, task[u].check)'
    BY CopyKept
  <1>3. CallOf(undo[u], task[u].pc)' /\ LandedOf(undone, u, undo[u], task[u].pc)'
    BY CallKept, LandedKept
  <1>4. LockOf(lock, u, undo[u], task[u].pc)' /\ JobOf(undo[u], task[u].pc, task[u].u, job[u])'
    BY LockKept, JobKept
  <1>5. CardOf(undo[u], task[u].pc, task[u].u, card[u])'
    BY CardKept
  <1> QED
    BY <1>1, <1>2, <1>3, <1>4, <1>5 DEF One

\* One that the step leaves as it was.
Leaves(u) ==
  /\ undo'[u] = undo[u] /\ task'[u] = task[u] /\ job'[u] = job[u] /\ card'[u] = card[u]
  /\ (lock' = u <=> lock = u) /\ Recalls(seen, u) /\ revs'[u] = revs[u]

LEMMA Left ==
  ASSUME Inv, Grows, NEW u \in Undos, Leaves(u), up' = up
  PROVE  One(u)'
  <1>1. Target /\ One(u)
    BY DEF Inv
  <1>2. undone \subseteq undone'
    BY DEF Grows
  <1> QED
    BY <1>1, <1>2, Becomes DEF One, Leaves

-------------------------------------------------------------------------------
(* The whole invariant, after a step of one undo's.                         *)

\* The step makes these of undo u, and leaves the other undos.
Turn(u, x, p, k, c, j, f) ==
  /\ undo' \in [Undos -> UndoState \cup {None}]
  /\ DOMAIN task' = Undos /\ DOMAIN job' = Undos /\ DOMAIN card' = Undos
  /\ undo'[u] = x /\ task'[u] \in Calls /\ task'[u].pc = p /\ task'[u].u = k /\ task'[u].check = c
  /\ job'[u] = j /\ card'[u] = f
  /\ \A v \in Undos \ {u} : /\ undo'[v] = undo[v] /\ task'[v] = task[v]
                            /\ job'[v] = job[v] /\ card'[v] = card[v] /\ Recalls(seen, v)

\* And these belong together.
Fits(s, d, h, u, x, p, k, c, j, f) ==
  /\ FileOf(s, u, x) /\ CopyOf(s, u, x, p, k, c) /\ CallOf(x, p) /\ LandedOf(d, u, x, p)
  /\ LockOf(h, u, x, p) /\ JobOf(x, p, k, j) /\ CardOf(x, p, k, f)

\* Nothing but undo u, what is said of it and who has the lock has changed.
Around(u) ==
  /\ up = "up" \/ lock' = lock
  /\ up' = up /\ UNCHANGED <<target, log, landing, CHECK>>
  /\ undone \subseteq undone' /\ undone' \subseteq Lands /\ seen' \subseteq Undos \X Fps
  /\ shown' \in [Lands -> SUBSET Fps] /\ RUNNING' \in 0..tip
  /\ lock' = lock \/ {lock, lock'} \subseteq {u, None}

LEMMA Logs ==
  ASSUME Target, Logged, UNCHANGED log, Grows,
         \A u \in Undos : undo[u] # None => undo'[u] # None /\ undo'[u].undoes = undo[u].undoes,
         \A u \in Undos : revs[u] # {} => revs'[u] # {}
  PROVE  Logged'
  <1>1. tip \in Nat /\ tip' \in Nat /\ tip <= tip'
    BY DEF Grows, Target, tip
  <1>2. ASSUME NEW i \in DOMAIN log PROVE LineOf(log[i])'
    <2>1. LineOf(log[i]) /\ log'[i] = log[i]
      BY DEF Logged
    <2>2. log[i].at \in 1..tip'
      BY <1>1, <2>1 DEF LineOf
    <2> QED
      BY <2>1, <2>2 DEF LineOf, Grows
  <1> QED
    BY <1>2 DEF Logged

LEMMA LandingKept ==
  ASSUME Target, Landing, Grows, UNCHANGED <<landing, up, log>>,
         up = "up" => lock' = lock \/ lock \notin Lands
  PROVE  Landing'
  <1>1. ids' = ids
    BY DEF ids
  <1>2. tip \in Nat /\ tip' \in Nat /\ tip <= tip' /\ makers \subseteq makers'
    BY DEF Grows, Target, tip
  <1>3. SUFFICES ASSUME landing # None PROVE Landing'
    BY DEF Landing
  <1>4. landing.at \in 2..tip'
    <2>1. landing.at \in 2..tip
      BY <1>3 DEF Landing
    <2> QED
      BY <1>2, <2>1
  <1>5. landing.who \in Lands
    BY <1>3 DEF Landing
  <1> QED
    BY <1>1, <1>2, <1>3, <1>4, <1>5 DEF Landing

LEMMA AloneKept ==
  ASSUME Alone, \A u \in Undos : Live(u)' => Live(u) /\ undo'[u].undoes = undo[u].undoes
  PROVE  Alone'
  BY DEF Alone

LEMMA ActsAlone ==
  ASSUME Inv, NEW u \in Undos, Around(u), NEW s, NEW d, NEW h, NEW x, NEW p, NEW k, NEW c, NEW j, NEW f,
         Turn(u, x, p, k, c, j, f), Fits(s, d, h, u, x, p, k, c, j, f),
         Recalls(s, u), d \subseteq undone', lock' = u <=> h = u,
         x # None, undo[u] # None => x.undoes = undo[u].undoes, Alone'
  PROVE  Inv'
  <1>1. Target /\ Logged /\ World /\ Landing /\ Flags /\ Alone
    BY DEF Inv
  <1>2. Grows
    BY <1>1, StillGrows DEF Around
  <1>3. revs' = revs /\ tip' = tip
    BY Still DEF Around
  <1>4. One(u)'
    BY <1>1, <1>2, <1>3, Becomes DEF Turn, Fits, Around
  <1>5. ASSUME NEW v \in Undos \ {u} PROVE One(v)'
    <2>1. v # None
      BY UndoAssumption
    <2>2. lock' = v <=> lock = v
      BY <2>1 DEF Around
    <2>3. Leaves(v)
      BY <1>3, <2>2 DEF Leaves, Turn
    <2> QED
      BY <1>2, <2>3, Left DEF Around
  <1>6. Logged'
    BY <1>1, <1>2, <1>3, Logs DEF Around, Turn
  <1>7. Landing'
    <2>1. u \notin Lands /\ None \notin Lands
      BY UndoAssumption
    <2> QED
      BY <1>1, <1>2, <2>1, LandingKept DEF Around
  <1>9. World'
    BY <1>1, <1>3 DEF World, Around
  <1>10. Target' /\ Flags'
    BY <1>1, <1>3 DEF Target, tip, Flags, Around, Turn
  <1> QED
    BY <1>4, <1>5, <1>6, <1>7, <1>9, <1>10 DEF Inv

LEMMA Acts ==
  ASSUME Inv, NEW u \in Undos, Around(u), NEW s, NEW d, NEW h, NEW x, NEW p, NEW k, NEW c, NEW j, NEW f,
         Turn(u, x, p, k, c, j, f), Fits(s, d, h, u, x, p, k, c, j, f),
         Recalls(s, u), d \subseteq undone', lock' = u <=> h = u,
         undo[u] # None, x # None, x.undoes = undo[u].undoes,
         open(x) => open(undo[u]) \/ revs[u] # {}
  PROVE  Inv'
  <1>1. Alone
    BY DEF Inv
  <1>2. revs' = revs
    BY Still DEF Around
  <1>3. Live(u)' => Live(u)
    BY <1>2 DEF Live, Turn, open, in_progress
  <1>4. \A v \in Undos \ {u} : (Live(v)' => Live(v)) /\ undo'[v].undoes = undo[v].undoes
    BY <1>2 DEF Live, Turn, open, in_progress
  <1>5. Alone'
    BY <1>1, <1>3, <1>4, AloneKept DEF Turn
  <1> QED
    BY <1>5, ActsAlone

\* A copy with other fields than those Sound is about.
LEMMA SoundEdit ==
  ASSUME NEW s, NEW u, NEW x, NEW y, Sound(s, u, x), y \in UndoState,
         y.tip = x.tip, y.revert = x.revert, y.undoes = x.undoes, y.checked => x.checked,
         y.by = x.by, y.shown = x.shown, y.approved = x.approved \/ <<u, y.approved>> \in s
  PROVE  Sound(s, u, y)
  BY DEF Sound

\* One that is over.
LEMMA SoundOver ==
  ASSUME Target, NEW s, NEW u, NEW x, Sound(s, u, x), NEW z \in {"held", "done", "refused"}
  PROVE  /\ Sound(s, u, over(x, z))
         /\ z # "held" => \A q : Sound(q, u, over(x, z))
  <1>1. x \in UndoState
    BY DEF Sound
  <1>2. 0 <= tip
    BY DEF Target, tip
  <1> QED
    BY <1>1, <1>2, Over DEF Sound

LEMMA CaughtFps == \A a, b : caught(a, b) \in Fps
  BY DEF caught, Fps

-------------------------------------------------------------------------------
(* The steps of a call.                                                     *)

LEMMA DriveInv == ASSUME Inv, NEW u \in Undos, Drive(u) PROVE Inv'
  <1> DEFINE x == undo[u]
             c == task[u].check
  <1>1. /\ Flags /\ World /\ One(u) /\ Target
    BY DEF Inv
  <1>2. /\ task[u] \in Calls /\ FileOf(seen, u, x) /\ CallOf(x, "drive") /\ LandedOf(undone, u, x, "drive")
        /\ LockOf(lock, u, x, "drive") /\ JobOf(x, "drive", task[u].u, job[u])
        /\ CardOf(x, "drive", task[u].u, card[u]) /\ up = "up" /\ task[u].pc = "drive"
    BY <1>1 DEF One, Drive, At
  <1>3. x # None /\ x \in UndoState /\ x.state = "locking" /\ Sound(seen, u, x)
    BY <1>2 DEF FileOf, CallOf, Sound
  <1>4. revs[u] = {} /\ job[u] = "none" /\ card[u] = None
    BY <1>2 DEF LandedOf, JobOf, CardOf
  <1>5. ASSUME NEW p \in {"tip", "refused", "held"}, Go(u, p, x), NEW h, lock' = h,
               h = u \/ (h = lock /\ p # "tip")
        PROVE  Inv'
    <2>1. Turn(u, x, p, x, c, job[u], card[u])
      BY <1>1, <1>2, <1>3, <1>5, Goes DEF Turn, Drive, Flags, Copied, Recalls
    <2>2. Around(u)
      BY <1>1, <1>2, <1>5 DEF Around, Drive, World, rest
    <2>3. FileOf(seen, u, x) /\ CallOf(x, p)
      BY <1>2, <1>3, <1>5 DEF CallOf
    <2>4. CopyOf(seen, u, x, p, x, c)
      BY <1>2, <1>3, <1>5 DEF CopyOf, FileOf
    <2>5. LandedOf(undone, u, x, p) /\ LockOf(h, u, x, p)
      BY <1>2, <1>3, <1>4, <1>5 DEF LandedOf, LockOf, Locking
    <2>6. JobOf(x, p, x, job[u]) /\ CardOf(x, p, x, card[u])
      BY <1>2, <1>3, <1>4, <1>5 DEF JobOf, CardOf
    <2>7. Fits(seen, undone, h, u, x, p, x, c, job[u], card[u])
      BY <2>3, <2>4, <2>5, <2>6 DEF Fits
    <2>8. /\ Recalls(seen, u) /\ undone \subseteq undone' /\ (lock' = u <=> h = u)
          /\ undo[u] # None /\ x # None /\ x.undoes = undo[u].undoes
          /\ (open(x) => open(undo[u]) \/ revs[u] # {})
      BY <1>3, <1>5 DEF Recalls, Drive
    <2> HIDE DEF x, c
    <2> QED
      BY <2>1, <2>2, <2>7, <2>8, Acts
  <1> QED
    BY <1>5 DEF Drive, Refuse, Hold

LEMMA QueueInv == ASSUME Inv, NEW u \in Undos, Queue(u) PROVE Inv'
  <1> DEFINE x == undo[u]
             k == task[u].u
             c == task[u].check
  <1>1. /\ Flags /\ World /\ One(u) /\ Target
    BY DEF Inv
  <1>2. /\ task[u] \in Calls /\ FileOf(seen, u, x) /\ CopyOf(seen, u, x, "queue", k, c)
        /\ CallOf(x, "queue") /\ LandedOf(undone, u, x, "queue")
        /\ LockOf(lock, u, x, "queue") /\ JobOf(x, "queue", k, job[u])
        /\ CardOf(x, "queue", k, card[u]) /\ up = "up" /\ task[u].pc = "queue"
    BY <1>1 DEF One, Queue, At
  <1>3. /\ x # None /\ k \in UndoState /\ Sound(seen, u, k) /\ k.undoes = x.undoes
        /\ x.state \in {"locking", "advancing"} /\ lock = u
    BY <1>2 DEF CopyOf, Copied, CallOf, Sound, LockOf, Locking
  <1>4. revs[u] = {} /\ job[u] = "none" /\ card[u] = None
    BY <1>2 DEF LandedOf, JobOf, CardOf
  <1>5. ASSUME NEW p \in {"queued", "refused"}, Go(u, p, k), NEW j, DOMAIN job' = Undos, job'[u] = j,
               \A v \in Undos \ {u} : job'[v] = job[v], j = "none" \/ (j = "queued" /\ p = "queued")
        PROVE  Inv'
    <2>1. Turn(u, x, p, k, c, j, card[u])
      BY <1>1, <1>2, <1>3, <1>5, Goes DEF Turn, Queue, Flags, Copied, Recalls
    <2>2. Around(u)
      BY <1>1, <1>2, <1>5 DEF Around, Queue, World, rest
    <2>3. FileOf(seen, u, x) /\ CallOf(x, p)
      BY <1>2, <1>3, <1>5 DEF CallOf
    <2>4. CopyOf(seen, u, x, p, k, c)
      BY <1>2, <1>3, <1>5 DEF CopyOf, Copied
    <2>5. LandedOf(undone, u, x, p) /\ LockOf(lock, u, x, p)
      BY <1>2, <1>3, <1>4, <1>5 DEF LandedOf, LockOf, Locking
    <2>6. JobOf(x, p, k, j) /\ CardOf(x, p, k, card[u])
      BY <1>2, <1>3, <1>4, <1>5 DEF JobOf, CardOf
    <2>7. Fits(seen, undone, lock, u, x, p, k, c, j, card[u])
      BY <2>3, <2>4, <2>5, <2>6 DEF Fits
    <2>8. /\ Recalls(seen, u) /\ undone \subseteq undone' /\ (lock' = u <=> lock = u)
          /\ undo[u] # None /\ x # None /\ x.undoes = undo[u].undoes
          /\ (open(x) => open(undo[u]) \/ revs[u] # {})
      BY <1>3, <1>5 DEF Recalls, Queue
    <2> HIDE DEF x, k, c
    <2> QED
      BY <2>1, <2>2, <2>7, <2>8, Acts
  <1> QED
    BY <1>1, <1>4, <1>5 DEF Queue, Refuse, Flags

LEMMA QueuedInv == ASSUME Inv, NEW u \in Undos, Queued(u) PROVE Inv'
  <1> DEFINE x == undo[u]
             k == task[u].u
             c == task[u].check
             y == [k EXCEPT !.state = "checking"]
  <1>1. /\ Flags /\ World /\ One(u) /\ Target
    BY DEF Inv
  <1>2. /\ task[u] \in Calls /\ FileOf(seen, u, x) /\ CopyOf(seen, u, x, "queued", k, c)
        /\ CallOf(x, "queued") /\ LandedOf(undone, u, x, "queued")
        /\ LockOf(lock, u, x, "queued") /\ JobOf(x, "queued", k, job[u])
        /\ CardOf(x, "queued", k, card[u]) /\ up = "up" /\ task[u].pc = "queued"
    BY <1>1 DEF One, Queued, At
  <1>3. /\ x # None /\ k \in UndoState /\ Sound(seen, u, k) /\ k.undoes = x.undoes
        /\ x.state \in {"locking", "advancing"} /\ lock = u
        /\ k.attempts < MaxAttempts /\ ~k.checked /\ Agreed(k)
    BY <1>2 DEF CopyOf, Copied, CallOf, Sound, LockOf, Locking
  <1>4. revs[u] = {} /\ card[u] = None
    BY <1>2 DEF LandedOf, CardOf
  <1>5. "checking" \in States
    BY DEF States
  <1>6. /\ y \in UndoState /\ y.state = "checking" /\ y.checked = k.checked
        /\ y.undoes = k.undoes /\ y.by = k.by /\ y.tip = k.tip /\ y.revert = k.revert
        /\ y.attempts = k.attempts /\ y.approved = k.approved /\ y.shown = k.shown
    BY <1>3, <1>5, Stated
  <1>7. (save(u, y) /\ End(u)) \/ (Refuse(u, y) /\ undo' = undo)
    BY DEF Queued
  <1> HIDE DEF y
  <1>8. Sound(seen, u, y) /\ Agreed(y)
    <2>1. y.checked => k.checked
      BY <1>6
    <2>2. Sound(seen, u, y)
      BY <1>3, <1>6, <2>1, SoundEdit
    <2>3. change(y) = change(k)
      BY <1>6 DEF change
    <2> QED
      BY <1>3, <1>6, <2>2, <2>3 DEF Agreed
  <1>9. Around(u)
    BY <1>1, <1>2 DEF Around, Queued, World, rest
  <1>10. CASE save(u, y) /\ End(u)
    <2>1. Turn(u, y, "idle", None, FALSE, job[u], card[u])
      BY <1>1, <1>6, <1>10, Ends, Saves DEF Turn, Queued, Flags, Recalls, Idle
    <2>2. FileOf(seen, u, y)
      BY <1>2, <1>3, <1>6, <1>8 DEF FileOf
    <2>3. CopyOf(seen, u, y, "idle", None, FALSE) /\ CallOf(y, "idle")
      BY <1>6 DEF CopyOf, CallOf, Copied
    <2>4. LandedOf(undone, u, y, "idle") /\ LockOf(lock, u, y, "idle")
      BY <1>3, <1>4, <1>6, UndoAssumption DEF LandedOf, LockOf, Locking
    <2>5. JobOf(y, "idle", None, job[u]) /\ CardOf(y, "idle", None, card[u])
      BY <1>2, <1>4, <1>6, UndoAssumption DEF JobOf, CardOf
    <2>6. Fits(seen, undone, lock, u, y, "idle", None, FALSE, job[u], card[u])
      BY <2>2, <2>3, <2>4, <2>5 DEF Fits
    <2>7. /\ Recalls(seen, u) /\ undone \subseteq undone' /\ (lock' = u <=> lock = u)
          /\ undo[u] # None /\ y # None /\ y.undoes = undo[u].undoes
          /\ (open(y) => open(undo[u]) \/ revs[u] # {})
      BY <1>3, <1>6, UndoAssumption DEF Recalls, Queued, open, in_progress
    <2> HIDE DEF x, k, c
    <2> QED
      BY <1>9, <2>1, <2>6, <2>7, Acts
  <1>11. CASE Refuse(u, y) /\ undo' = undo
    <2>1. Turn(u, x, "refused", y, c, job[u], card[u])
      BY <1>1, <1>2, <1>6, <1>11, Goes DEF Turn, Queued, Flags, Recalls, Refuse, Copied
    <2>3. CopyOf(seen, u, x, "refused", y, c) /\ CallOf(x, "refused")
      BY <1>2, <1>3, <1>6, <1>8 DEF CopyOf, CallOf, Copied
    <2>4. LandedOf(undone, u, x, "refused") /\ LockOf(lock, u, x, "refused")
      BY <1>3, <1>4 DEF LandedOf, LockOf, Locking
    <2>5. JobOf(x, "refused", y, job[u]) /\ CardOf(x, "refused", y, card[u])
      BY <1>2, <1>3, <1>4, <1>6 DEF JobOf, CardOf
    <2>6. Fits(seen, undone, lock, u, x, "refused", y, c, job[u], card[u])
      BY <1>2, <2>3, <2>4, <2>5 DEF Fits
    <2>7. /\ Recalls(seen, u) /\ undone \subseteq undone' /\ (lock' = u <=> lock = u)
          /\ undo[u] # None /\ x # None /\ x.undoes = undo[u].undoes
          /\ (open(x) => open(undo[u]) \/ revs[u] # {})
      BY <1>3 DEF Recalls, Queued
    <2> HIDE DEF x, k, c
    <2> QED
      BY <1>9, <2>1, <2>6, <2>7, Acts
  <1> QED
    BY <1>7, <1>10, <1>11

LEMMA AdvanceInv == ASSUME Inv, NEW u \in Undos, Advance(u) PROVE Inv'
  <1> DEFINE x == undo[u]
             k == task[u].u
             c == task[u].check
             y == [k EXCEPT !.state = "advancing"]
  <1>1. /\ Flags /\ World /\ One(u) /\ Target
    BY DEF Inv
  <1>2. /\ task[u] \in Calls /\ FileOf(seen, u, x) /\ CopyOf(seen, u, x, "advance", k, c)
        /\ CallOf(x, "advance") /\ LandedOf(undone, u, x, "advance")
        /\ LockOf(lock, u, x, "advance") /\ JobOf(x, "advance", k, job[u])
        /\ CardOf(x, "advance", k, card[u]) /\ up = "up" /\ task[u].pc = "advance"
    BY <1>1 DEF One, Advance, At
  <1>3. /\ x # None /\ k \in UndoState /\ Sound(seen, u, k) /\ k.undoes = x.undoes
        /\ x.state \in {"locking", "advancing"} /\ lock = u
        /\ k.attempts < MaxAttempts /\ Agreed(k) /\ (c => k.checked)
    BY <1>2 DEF CopyOf, Copied, CallOf, Sound, LockOf, Locking
  <1>4. revs[u] = {} /\ job[u] = "none" /\ card[u] = None
    BY <1>2 DEF LandedOf, JobOf, CardOf
  <1>5. "advancing" \in States
    BY DEF States
  <1>6. /\ y \in UndoState /\ y.state = "advancing" /\ y.checked = k.checked
        /\ y.undoes = k.undoes /\ y.by = k.by /\ y.tip = k.tip /\ y.revert = k.revert
        /\ y.attempts = k.attempts /\ y.approved = k.approved /\ y.shown = k.shown
    BY <1>3, <1>5, Stated
  <1>7. (save(u, y) /\ Go(u, "cas", y)) \/ (Refuse(u, y) /\ undo' = undo)
    BY DEF Advance
  <1> HIDE DEF y
  <1>8. Sound(seen, u, y) /\ Agreed(y) /\ (c => y.checked)
    <2>1. y.checked <=> k.checked
      BY <1>6
    <2>2. Sound(seen, u, y)
      BY <1>3, <1>6, <2>1, SoundEdit
    <2>3. change(y) = change(k)
      BY <1>6 DEF change
    <2> QED
      BY <1>3, <1>6, <2>1, <2>2, <2>3 DEF Agreed
  <1>9. Around(u)
    BY <1>1, <1>2 DEF Around, Advance, World, rest
  <1>10. CASE save(u, y) /\ Go(u, "cas", y)
    <2>1. Turn(u, y, "cas", y, c, job[u], card[u])
      BY <1>1, <1>2, <1>6, <1>10, Goes, Saves DEF Turn, Advance, Flags, Recalls, Copied
    <2>2. FileOf(seen, u, y)
      BY <1>2, <1>3, <1>6, <1>8 DEF FileOf
    <2>3. CopyOf(seen, u, y, "cas", y, c)
      BY <1>2, <1>6, <1>8 DEF CopyOf
    <2>4. CallOf(y, "cas")
      BY <1>2, <1>6, UndoAssumption DEF CallOf
    <2>5. LandedOf(undone, u, y, "cas") /\ LockOf(lock, u, y, "cas")
      BY <1>3, <1>4, <1>6 DEF LandedOf, LockOf, Locking
    <2>6. JobOf(y, "cas", y, job[u]) /\ CardOf(y, "cas", y, card[u])
      BY <1>2, <1>4, <1>6 DEF JobOf, CardOf
    <2>7. Fits(seen, undone, lock, u, y, "cas", y, c, job[u], card[u])
      BY <2>2, <2>3, <2>4, <2>5, <2>6 DEF Fits
    <2>8. /\ Recalls(seen, u) /\ undone \subseteq undone' /\ (lock' = u <=> lock = u)
          /\ undo[u] # None /\ y # None /\ y.undoes = undo[u].undoes
          /\ (open(y) => open(undo[u]) \/ revs[u] # {})
      BY <1>3, <1>6, UndoAssumption DEF Recalls, Advance, open, in_progress
    <2> HIDE DEF x, k, c
    <2> QED
      BY <1>9, <2>1, <2>7, <2>8, Acts
  <1>11. CASE Refuse(u, y) /\ undo' = undo
    <2>1. Turn(u, x, "refused", y, c, job[u], card[u])
      BY <1>1, <1>2, <1>6, <1>11, Goes DEF Turn, Advance, Flags, Recalls, Refuse, Copied
    <2>3. CopyOf(seen, u, x, "refused", y, c) /\ CallOf(x, "refused")
      BY <1>2, <1>3, <1>6, <1>8 DEF CopyOf, CallOf, Copied
    <2>4. LandedOf(undone, u, x, "refused") /\ LockOf(lock, u, x, "refused")
      BY <1>3, <1>4 DEF LandedOf, LockOf, Locking
    <2>5. JobOf(x, "refused", y, job[u]) /\ CardOf(x, "refused", y, card[u])
      BY <1>2, <1>3, <1>4, <1>6 DEF JobOf, CardOf
    <2>6. Fits(seen, undone, lock, u, x, "refused", y, c, job[u], card[u])
      BY <1>2, <2>3, <2>4, <2>5 DEF Fits
    <2>7. /\ Recalls(seen, u) /\ undone \subseteq undone' /\ (lock' = u <=> lock = u)
          /\ undo[u] # None /\ x # None /\ x.undoes = undo[u].undoes
          /\ (open(x) => open(undo[u]) \/ revs[u] # {})
      BY <1>3 DEF Recalls, Advance
    <2> HIDE DEF x, k, c
    <2> QED
      BY <1>9, <2>1, <2>6, <2>7, Acts
  <1> QED
    BY <1>7, <1>10, <1>11

\* A compare-and-swap that leaves the target.
LEMMA CasInv == ASSUME Inv, NEW u \in Undos, Cas(u), UNCHANGED target PROVE Inv'
  <1> DEFINE x == undo[u]
             k == task[u].u
             c == task[u].check
             n == k.attempts + 1
             y == [k EXCEPT !.attempts = n]
             z == [k EXCEPT !.attempts = n, !.state = "locking", !.revert = None, !.checked = FALSE]
  <1>1. /\ Flags /\ World /\ One(u) /\ Target
    BY DEF Inv
  <1>2. /\ task[u] \in Calls /\ FileOf(seen, u, x) /\ CopyOf(seen, u, x, "cas", k, c)
        /\ CallOf(x, "cas") /\ LandedOf(undone, u, x, "cas")
        /\ LockOf(lock, u, x, "cas") /\ JobOf(x, "cas", k, job[u])
        /\ CardOf(x, "cas", k, card[u]) /\ up = "up" /\ task[u].pc = "cas"
    BY <1>1 DEF One, Cas, At
  <1>3. /\ x # None /\ k \in UndoState /\ Sound(seen, u, k) /\ k = x
        /\ x.state = "advancing" /\ lock = u
    BY <1>2 DEF CopyOf, Copied, CallOf, Sound, LockOf, Locking
  <1>4. revs[u] = {} /\ job[u] = "none" /\ card[u] = None
    BY <1>2 DEF LandedOf, JobOf, CardOf
  <1>5. n \in 0..MaxAttempts
    <2>1. k.attempts < MaxAttempts
      BY <1>2, <1>3 DEF FileOf
    <2>2. k.attempts \in 0..MaxAttempts /\ MaxAttempts \in Nat
      BY <1>3, Limits DEF UndoState
    <2> QED
      BY <2>1, <2>2
  <1>6. /\ y \in UndoState /\ y.state = k.state /\ y.checked = k.checked
        /\ y.undoes = k.undoes /\ y.by = k.by /\ y.tip = k.tip /\ y.revert = k.revert
        /\ y.attempts = n /\ y.approved = k.approved /\ y.shown = k.shown
    BY <1>3, <1>5, Counted
  <1>7. /\ z \in UndoState /\ z.state = "locking" /\ ~z.checked
        /\ z.undoes = k.undoes /\ z.by = k.by /\ z.tip = k.tip /\ z.revert = None
        /\ z.attempts = n /\ z.approved = k.approved /\ z.shown = k.shown
    BY <1>3, <1>5, Retried
  <1> HIDE DEF y, z
  <1>8. Sound(seen, u, y)
    <2>1. y.checked => k.checked
      BY <1>6
    <2> QED
      BY <1>3, <1>6, <2>1, SoundEdit
  <1>9. Sound(seen, u, z)
    <2>1. z.tip <= tip /\ (z.approved # None => <<u, z.approved>> \in seen)
          /\ (z.by = "human" /\ z.shown # None => <<u, z.shown>> \in seen)
      BY <1>3, <1>7 DEF Sound
    <2> QED
      BY <1>7, <2>1 DEF Sound
  <1>10. Around(u)
    BY <1>1, <1>2 DEF Around, Cas, World, rest
  <1>11. ASSUME NEW p \in {"tip", "held", "refused"}, NEW q, Go(u, p, q),
                q \in {k, y, z}, p = "tip" => q = z /\ n < MaxAttempts
         PROVE  Inv'
    <2>1. q \in UndoState /\ Sound(seen, u, q) /\ q.undoes = x.undoes
      BY <1>3, <1>6, <1>7, <1>8, <1>9, <1>11
    <2>2. Turn(u, x, p, q, c, job[u], card[u])
      BY <1>1, <1>2, <1>11, <2>1, Goes DEF Turn, Cas, Flags, Recalls, Copied
    <2>3. p = "tip" => q.state = "locking" /\ q.revert = None /\ q.attempts < MaxAttempts
      BY <1>3, <1>7, <1>11
    <2>4. CopyOf(seen, u, x, p, q, c)
      BY <1>3, <1>11, <2>1, <2>3 DEF CopyOf, Copied
    <2>5. CallOf(x, p) /\ LandedOf(undone, u, x, p) /\ LockOf(lock, u, x, p)
      BY <1>2, <1>3, <1>4, <1>11 DEF CallOf, LandedOf, LockOf, Locking
    <2>6. JobOf(x, p, q, job[u]) /\ CardOf(x, p, q, card[u])
      BY <1>2, <1>3, <1>4, <1>11 DEF JobOf, CardOf
    <2>7. Fits(seen, undone, lock, u, x, p, q, c, job[u], card[u])
      BY <1>2, <2>4, <2>5, <2>6 DEF Fits
    <2>8. /\ Recalls(seen, u) /\ undone \subseteq undone' /\ (lock' = u <=> lock = u)
          /\ undo[u] # None /\ x # None /\ x.undoes = undo[u].undoes
          /\ (open(x) => open(undo[u]) \/ revs[u] # {})
      BY <1>3 DEF Recalls, Cas
    <2> HIDE DEF x, k, c
    <2> QED
      BY <1>10, <2>2, <2>7, <2>8, Acts
  <1>12. n < MaxAttempts \/ n >= MaxAttempts
    BY <1>5, Limits
  <1>13. target # Append(target, [tree |-> k.revert, by |-> u])
    <2>1. target \in Seq(Commit1)
      BY <1>1 DEF Target
    <2>2. Len(Append(target, [tree |-> k.revert, by |-> u])) = Len(target) + 1 /\ Len(target) \in Nat
      BY <2>1
    <2> QED
      BY <2>2
  <1>14. \/ n >= MaxAttempts /\ Hold(u, y)
         \/ ~(n >= MaxAttempts) /\ Go(u, "tip", z)
         \/ Hold(u, k) \/ Refuse(u, k)
    BY <1>13 DEF Cas, y, z
  <1> HIDE DEF n, k
  <1> QED
    BY <1>11, <1>12, <1>14 DEF Hold, Refuse

LEMMA MarkInv == ASSUME Inv, NEW u \in Undos, Mark(u) PROVE Inv'
  <1> DEFINE x == undo[u]
             k == task[u].u
             c == task[u].check
             d == undone \cup {k.undoes}
  <1>1. /\ Flags /\ World /\ One(u) /\ Target
    BY DEF Inv
  <1>2. /\ task[u] \in Calls /\ FileOf(seen, u, x) /\ CopyOf(seen, u, x, "mark", k, c)
        /\ CallOf(x, "mark") /\ LandedOf(undone, u, x, "mark")
        /\ LockOf(lock, u, x, "mark") /\ JobOf(x, "mark", k, job[u])
        /\ CardOf(x, "mark", k, card[u]) /\ up = "up" /\ task[u].pc = "mark"
    BY <1>1 DEF One, Mark, At
  <1>3. /\ x # None /\ k \in UndoState /\ Sound(seen, u, k) /\ k.undoes = x.undoes
        /\ x.state = "advancing" /\ lock = u /\ k.tip = x.tip /\ k.undoes \in Lands
    BY <1>2 DEF CopyOf, Copied, CallOf, Sound, LockOf, Locking, UndoState
  <1>4. job[u] = "none" /\ card[u] = None
    BY <1>2 DEF JobOf, CardOf
  <1>5. Around(u)
    BY <1>1, <1>2, <1>3 DEF Around, Mark, World, world
  <1>6. Turn(u, x, "done", k, c, job[u], card[u])
    BY <1>1, <1>2, <1>3, Goes DEF Turn, Mark, Flags, Recalls, Copied
  <1>7. CopyOf(seen, u, x, "done", k, c) /\ CallOf(x, "done")
    BY <1>2, <1>3 DEF CopyOf, CallOf, Copied
  <1>8. LandedOf(d, u, x, "done")
    BY <1>2, <1>3 DEF LandedOf
  <1>9. LockOf(None, u, x, "done")
    BY <1>3, UndoAssumption DEF LockOf, Locking
  <1>10. JobOf(x, "done", k, job[u]) /\ CardOf(x, "done", k, card[u])
    BY <1>2, <1>3, <1>4 DEF JobOf, CardOf
  <1>11. Fits(seen, d, None, u, x, "done", k, c, job[u], card[u])
    BY <1>2, <1>7, <1>8, <1>9, <1>10 DEF Fits
  <1>12. /\ Recalls(seen, u) /\ d \subseteq undone' /\ (lock' = u <=> None = u)
         /\ undo[u] # None /\ x # None /\ x.undoes = undo[u].undoes
         /\ (open(x) => open(undo[u]) \/ revs[u] # {})
    BY <1>3 DEF Recalls, Mark
  <1> HIDE DEF x, k, c, d
  <1> QED
    BY <1>5, <1>6, <1>11, <1>12, Acts

LEMMA DoneInv == ASSUME Inv, NEW u \in Undos, Done(u) PROVE Inv'
  <1> DEFINE x == undo[u]
             k == task[u].u
             c == task[u].check
             y == over(k, "done")
             s == seen \ ({u} \X Fps)
  <1>1. /\ Flags /\ World /\ One(u) /\ Target
    BY DEF Inv
  <1>2. /\ task[u] \in Calls /\ FileOf(seen, u, x) /\ CopyOf(seen, u, x, "done", k, c)
        /\ CallOf(x, "done") /\ LandedOf(undone, u, x, "done")
        /\ LockOf(lock, u, x, "done") /\ JobOf(x, "done", k, job[u])
        /\ CardOf(x, "done", k, card[u]) /\ up = "up" /\ task[u].pc = "done"
    BY <1>1 DEF One, Done, At
  <1>3. /\ x # None /\ k \in UndoState /\ Sound(seen, u, k) /\ k.undoes = x.undoes
        /\ lock # u /\ x.undoes \in ids
    BY <1>2 DEF CopyOf, Copied, CallOf, Sound, LockOf, Locking, FileOf
  <1>4. job[u] = "none" /\ card[u] = None
    BY <1>2 DEF JobOf, CardOf
  <1>5. y \in UndoState /\ y.state = "done" /\ ~y.checked /\ y.undoes = k.undoes /\ y.revert = None
    BY <1>3, Over
  <1>6. Sound(s, u, y)
    BY <1>1, <1>3, SoundOver
  <1>7. save(u, y) /\ seen' = s
    BY DEF Done
  <1>8. End(u) \/ Go(u, "post", None)
    BY DEF Done
  <1> HIDE DEF y
  <1>9. Around(u)
    BY <1>1, <1>2 DEF Around, Done, World, world
  <1>10. FileOf(s, u, y)
    BY <1>3, <1>5, <1>6 DEF FileOf
  <1>11. ASSUME NEW p \in {"idle", "post"}, NEW b, task'[u] \in Calls, task'[u].pc = p, task'[u].u = None,
                task'[u].check = b, DOMAIN task' = Undos, \A v \in Undos \ {u} : task'[v] = task[v]
         PROVE  Inv'
    <2>1. \A v \in Undos \ {u} : Recalls(seen, v)
      BY DEF Recalls, Done
    <2>2. Turn(u, y, p, None, b, job[u], card[u])
      BY <1>1, <1>5, <1>7, <1>11, <2>1, Saves DEF Turn, Done, Flags
    <2>3. CopyOf(s, u, y, p, None, b) /\ CallOf(y, p)
      BY <1>2, <1>5, <1>11, UndoAssumption DEF CopyOf, CallOf, Copied
    <2>4. LandedOf(undone, u, y, p) /\ LockOf(lock, u, y, p)
      BY <1>2, <1>3, <1>5, <1>11, UndoAssumption DEF LandedOf, LockOf, Locking
    <2>5. JobOf(y, p, None, job[u]) /\ CardOf(y, p, None, card[u])
      BY <1>2, <1>4, <1>5, <1>11 DEF JobOf, CardOf
    <2>6. Fits(s, undone, lock, u, y, p, None, b, job[u], card[u])
      BY <1>10, <2>3, <2>4, <2>5 DEF Fits
    <2>7. /\ Recalls(s, u) /\ undone \subseteq undone' /\ (lock' = u <=> lock = u)
          /\ undo[u] # None /\ y # None /\ y.undoes = undo[u].undoes
          /\ (open(y) => open(undo[u]) \/ revs[u] # {})
      BY <1>3, <1>5, <1>7, UndoAssumption DEF Recalls, Done, open, in_progress
    <2> HIDE DEF x, k, c, s
    <2> QED
      BY <1>9, <2>2, <2>6, <2>7, Acts
  <1>12. CASE End(u)
    BY <1>1, <1>11, <1>12, Ends DEF Flags, Idle
  <1>13. CASE Go(u, "post", None)
    BY <1>1, <1>2, <1>11, <1>13, Goes DEF Flags
  <1> QED
    BY <1>8, <1>12, <1>13

LEMMA PostInv == ASSUME Inv, NEW u \in Undos, Post(u) PROVE Inv'
  <1> DEFINE x == undo[u]
  <1>1. /\ Flags /\ World /\ One(u) /\ Target
    BY DEF Inv
  <1>2. /\ task[u] \in Calls /\ FileOf(seen, u, x)
        /\ CallOf(x, "post") /\ LandedOf(undone, u, x, "post")
        /\ LockOf(lock, u, x, "post") /\ JobOf(x, "post", task[u].u, job[u])
        /\ CardOf(x, "post", task[u].u, card[u]) /\ up = "up" /\ task[u].pc = "post"
    BY <1>1 DEF One, Post, At
  <1>3. x # None /\ x.state \in {"held", "done", "refused"} /\ lock # u
    BY <1>2 DEF CallOf, LockOf, Locking
  <1>4. job[u] = "none" /\ card[u] = None
    BY <1>2 DEF JobOf, CardOf
  <1>5. RUNNING' \in 0..tip
    BY <1>1 DEF Post, base_check, World, Target, tip
  <1>6. Around(u)
    BY <1>1, <1>2, <1>5 DEF Around, Post, World, world
  <1>7. Turn(u, x, "idle", None, FALSE, job[u], card[u])
    BY <1>1, <1>2, Ends DEF Turn, Post, Flags, Recalls, Idle
  <1>8. CopyOf(seen, u, x, "idle", None, FALSE) /\ CallOf(x, "idle")
    BY <1>3 DEF CopyOf, CallOf, Copied
  <1>9. LandedOf(undone, u, x, "idle") /\ LockOf(lock, u, x, "idle")
    BY <1>2, <1>3 DEF LandedOf, LockOf, Locking
  <1>10. JobOf(x, "idle", None, job[u]) /\ CardOf(x, "idle", None, card[u])
    BY <1>2, <1>4 DEF JobOf, CardOf
  <1>11. Fits(seen, undone, lock, u, x, "idle", None, FALSE, job[u], card[u])
    BY <1>2, <1>8, <1>9, <1>10 DEF Fits
  <1>12. /\ Recalls(seen, u) /\ undone \subseteq undone' /\ (lock' = u <=> lock = u)
         /\ undo[u] # None /\ x # None /\ x.undoes = undo[u].undoes
         /\ (open(x) => open(undo[u]) \/ revs[u] # {})
    BY <1>3 DEF Recalls, Post
  <1> HIDE DEF x
  <1> QED
    BY <1>6, <1>7, <1>11, <1>12, Acts

LEMMA CloseInv == ASSUME Inv, NEW u \in Undos, Close(u) PROVE Inv'
  <1> DEFINE x == undo[u]
             k == task[u].u
             c == task[u].check
             z == task[u].pc
             y == over(k, z)
  <1>1. /\ Flags /\ World /\ One(u) /\ Target
    BY DEF Inv
  <1>2. /\ task[u] \in Calls /\ FileOf(seen, u, x) /\ CopyOf(seen, u, x, z, k, c)
        /\ CallOf(x, z) /\ LandedOf(undone, u, x, z)
        /\ LockOf(lock, u, x, z) /\ JobOf(x, z, k, job[u])
        /\ CardOf(x, z, k, card[u]) /\ up = "up" /\ z \in {"refused", "held"}
    BY <1>1 DEF One, Close
  <1>3. /\ x # None /\ k \in UndoState /\ Sound(seen, u, k) /\ k.undoes = x.undoes /\ x.undoes \in ids
        /\ x.state \in {"locking", "checking", "advancing", "awaiting_human"}
    BY <1>2 DEF CopyOf, Copied, CallOf, Sound, FileOf
  <1>4. revs[u] = {} /\ card[u] = None /\ (job[u] # "none" => k.state = "checking")
    BY <1>2 DEF LandedOf, JobOf, CardOf
  <1>5. y \in UndoState /\ y.state = z /\ ~y.checked /\ y.undoes = k.undoes /\ y.revert = None
    BY <1>2, <1>3, Over
  <1>6. Sound(seen', u, y)
    <2>1. z = "held" => seen' = seen
      BY DEF Close
    <2> QED
      BY <1>1, <1>2, <1>3, <2>1, SoundOver
  <1>7. /\ save(u, y) /\ lock' = IF lock = u THEN None ELSE lock
        /\ job' = IF k.state = "checking" THEN [job EXCEPT ![u] = "none"] ELSE job
        /\ End(u) \/ Go(u, "post", None)
    BY DEF Close, cleanup
  <1> HIDE DEF y
  <1>8. job'[u] = "none" /\ DOMAIN job' = Undos /\ \A v \in Undos \ {u} : job'[v] = job[v]
    BY <1>1, <1>4, <1>7 DEF Flags
  <1>9. Around(u)
    <2>1. seen' \subseteq Undos \X Fps
      BY <1>1 DEF Close, World
    <2> QED
      BY <1>1, <1>2, <1>7, <2>1 DEF Around, Close, World, world
  <1>10. FileOf(seen', u, y)
    BY <1>2, <1>3, <1>5, <1>6 DEF FileOf
  <1>11. lock' # u
    BY <1>7, UndoAssumption
  <1>12. ASSUME NEW p \in {"idle", "post"}, NEW b, task'[u] \in Calls, task'[u].pc = p, task'[u].u = None,
                task'[u].check = b, DOMAIN task' = Undos, \A v \in Undos \ {u} : task'[v] = task[v]
         PROVE  Inv'
    <2>1. \A v \in Undos \ {u} : Recalls(seen, v)
      BY DEF Recalls, Close
    <2>2. Turn(u, y, p, None, b, "none", card[u])
      BY <1>1, <1>5, <1>7, <1>8, <1>12, <2>1, Saves DEF Turn, Close, Flags
    <2>3. CopyOf(seen', u, y, p, None, b) /\ CallOf(y, p)
      BY <1>2, <1>5, <1>12, UndoAssumption DEF CopyOf, CallOf, Copied
    <2>4. LandedOf(undone, u, y, p) /\ LockOf(lock', u, y, p)
      BY <1>2, <1>3, <1>4, <1>5, <1>11, <1>12, UndoAssumption DEF LandedOf, LockOf, Locking
    <2>5. JobOf(y, p, None, "none") /\ CardOf(y, p, None, card[u])
      BY <1>2, <1>4, <1>5, <1>12 DEF JobOf, CardOf
    <2>6. Fits(seen', undone, lock', u, y, p, None, b, "none", card[u])
      BY <1>10, <2>3, <2>4, <2>5 DEF Fits
    <2>7. /\ Recalls(seen', u) /\ undone \subseteq undone' /\ (lock' = u <=> lock' = u)
          /\ undo[u] # None /\ y # None /\ y.undoes = undo[u].undoes
          /\ (open(y) => open(undo[u]) \/ revs[u] # {})
      BY <1>3, <1>5, <1>7, UndoAssumption DEF Recalls, Close, open, in_progress
    <2> HIDE DEF x, k, c, z
    <2> QED
      BY <1>9, <2>2, <2>6, <2>7, Acts
  <1>13. CASE End(u)
    BY <1>1, <1>12, <1>13, Ends DEF Flags, Idle
  <1>14. CASE Go(u, "post", None)
    BY <1>1, <1>2, <1>12, <1>14, Goes DEF Flags
  <1> QED
    BY <1>7, <1>13, <1>14

LEMMA AskInv == ASSUME Inv, NEW u \in Undos, Ask(u) PROVE Inv'
  <1> DEFINE x == undo[u]
             k == task[u].u
             c == task[u].check
  <1>1. /\ Flags /\ World /\ One(u) /\ Target
    BY DEF Inv
  <1>2. /\ task[u] \in Calls /\ FileOf(seen, u, x) /\ CopyOf(seen, u, x, "ask", k, c)
        /\ CallOf(x, "ask") /\ LandedOf(undone, u, x, "ask")
        /\ LockOf(lock, u, x, "ask") /\ JobOf(x, "ask", k, job[u])
        /\ CardOf(x, "ask", k, card[u]) /\ up = "up" /\ task[u].pc = "ask"
    BY <1>1 DEF One, Ask, At
  <1>3. /\ x # None /\ k \in UndoState /\ Sound(seen, u, k) /\ k.undoes = x.undoes
        /\ x.state \in {"locking", "advancing"} /\ lock = u /\ k.state = "locking"
    BY <1>2 DEF CopyOf, Copied, CallOf, Sound, LockOf, Locking
  <1>4. revs[u] = {} /\ job[u] = "none" /\ card[u] = None
    BY <1>2 DEF LandedOf, JobOf, CardOf
  <1>5. job' = job /\ lock' = None
    BY <1>3 DEF Ask, cleanup
  <1>6. config_fp(k) = change(k) /\ change(k) \in Fps
    BY CaughtFps DEF config_fp, change, tree
  <1>7. ASSUME NEW p \in {"asked", "refused"}, Go(u, p, k), NEW f, DOMAIN card' = Undos, card'[u] = f,
               \A v \in Undos \ {u} : card'[v] = card[v],
               f = None \/ (p = "asked" /\ f = change(k))
        PROVE  Inv'
    <2>1. Turn(u, x, p, k, c, job[u], f)
      BY <1>1, <1>2, <1>3, <1>5, <1>7, Goes DEF Turn, Ask, Flags, Copied, Recalls
    <2>2. Around(u)
      BY <1>1, <1>2, <1>3, <1>5 DEF Around, Ask, World, rest
    <2>3. CopyOf(seen, u, x, p, k, c) /\ CallOf(x, p)
      BY <1>2, <1>3, <1>7 DEF CallOf, CopyOf, Copied
    <2>4. LandedOf(undone, u, x, p) /\ LockOf(None, u, x, p)
      BY <1>2, <1>3, <1>4, <1>7, UndoAssumption DEF LandedOf, LockOf, Locking
    <2>5. JobOf(x, p, k, job[u])
      BY <1>2, <1>3, <1>4, <1>7 DEF JobOf
    <2>6. CardOf(x, p, k, f)
      <3>1. f \in Fps
        BY <1>6, <1>7 DEF Fps
      <3> QED
        BY <1>2, <1>3, <1>7, <3>1 DEF CardOf
    <2>7. Fits(seen, undone, None, u, x, p, k, c, job[u], f)
      BY <1>2, <2>3, <2>4, <2>5, <2>6 DEF Fits
    <2>8. /\ Recalls(seen, u) /\ undone \subseteq undone' /\ (lock' = u <=> None = u)
          /\ undo[u] # None /\ x # None /\ x.undoes = undo[u].undoes
          /\ (open(x) => open(undo[u]) \/ revs[u] # {})
      BY <1>3, <1>5 DEF Recalls, Ask
    <2> HIDE DEF x, k, c
    <2> QED
      BY <2>1, <2>2, <2>7, <2>8, Acts
  <1>8. CASE card' = [card EXCEPT ![u] = config_fp(k)] /\ Go(u, "asked", k)
    BY <1>1, <1>6, <1>7, <1>8 DEF Flags
  <1>9. CASE Refuse(u, k) /\ card' = card
    BY <1>1, <1>4, <1>7, <1>9 DEF Flags, Refuse
  <1> QED
    BY <1>8, <1>9 DEF Ask

LEMMA AskedInv == ASSUME Inv, NEW u \in Undos, Asked(u) PROVE Inv'
  <1> DEFINE x == undo[u]
             k == task[u].u
             c == task[u].check
             y == [k EXCEPT !.state = "awaiting_human", !.checked = FALSE]
  <1>1. /\ Flags /\ World /\ One(u) /\ Target
    BY DEF Inv
  <1>2. /\ task[u] \in Calls /\ FileOf(seen, u, x) /\ CopyOf(seen, u, x, "asked", k, c)
        /\ CallOf(x, "asked") /\ LandedOf(undone, u, x, "asked")
        /\ LockOf(lock, u, x, "asked") /\ JobOf(x, "asked", k, job[u])
        /\ CardOf(x, "asked", k, card[u]) /\ up = "up" /\ task[u].pc = "asked"
    BY <1>1 DEF One, Asked, At
  <1>3. /\ x # None /\ k \in UndoState /\ Sound(seen, u, k) /\ k.undoes = x.undoes
        /\ x.state \in {"locking", "advancing"} /\ lock # u
        /\ k.attempts < MaxAttempts /\ Asks(k)
    BY <1>2 DEF CopyOf, Copied, CallOf, Sound, LockOf, Locking
  <1>4. revs[u] = {} /\ job[u] = "none"
    BY <1>2 DEF LandedOf, JobOf
  <1>5. "awaiting_human" \in States /\ FALSE \in BOOLEAN
    BY DEF States
  <1>6. /\ y \in UndoState /\ y.state = "awaiting_human" /\ y.checked = FALSE
        /\ y.undoes = k.undoes /\ y.by = k.by /\ y.tip = k.tip /\ y.revert = k.revert
        /\ y.attempts = k.attempts /\ y.approved = k.approved /\ y.shown = k.shown
    BY <1>3, <1>5, Moved
  <1>7. \/ save(u, y) /\ End(u) /\ card' = card
        \/ Refuse(u, y) /\ undo' = undo /\ card' = [card EXCEPT ![u] = None]
    BY DEF Asked
  <1> HIDE DEF y
  <1>8. Sound(seen, u, y) /\ change(y) = change(k) /\ Asks(y) /\ ~y.checked
    <2>1. ~y.checked
      BY <1>6
    <2>2. Sound(seen, u, y)
      BY <1>3, <1>6, <2>1, SoundEdit
    <2>3. change(y) = change(k)
      BY <1>6 DEF change
    <2> QED
      BY <1>3, <1>6, <2>1, <2>2, <2>3 DEF Asks
  <1>9. Around(u)
    BY <1>1, <1>2 DEF Around, Asked, World, rest
  <1>10. CASE save(u, y) /\ End(u) /\ card' = card
    <2>1. Turn(u, y, "idle", None, FALSE, job[u], card[u])
      BY <1>1, <1>6, <1>10, Ends, Saves DEF Turn, Asked, Flags, Recalls, Idle
    <2>2. FileOf(seen, u, y)
      BY <1>2, <1>3, <1>6, <1>8 DEF FileOf
    <2>3. CopyOf(seen, u, y, "idle", None, FALSE) /\ CallOf(y, "idle")
      BY <1>6 DEF CopyOf, CallOf, Copied
    <2>4. LandedOf(undone, u, y, "idle") /\ LockOf(lock, u, y, "idle")
      BY <1>3, <1>4, <1>6, UndoAssumption DEF LandedOf, LockOf, Locking
    <2>5. JobOf(y, "idle", None, job[u])
      BY <1>2, <1>4, <1>6, UndoAssumption DEF JobOf
    <2>6. CardOf(y, "idle", None, card[u])
      BY <1>2, <1>6, <1>8, UndoAssumption DEF CardOf
    <2>7. Fits(seen, undone, lock, u, y, "idle", None, FALSE, job[u], card[u])
      BY <2>2, <2>3, <2>4, <2>5, <2>6 DEF Fits
    <2>8. /\ Recalls(seen, u) /\ undone \subseteq undone' /\ (lock' = u <=> lock = u)
          /\ undo[u] # None /\ y # None /\ y.undoes = undo[u].undoes
          /\ (open(y) => open(undo[u]) \/ revs[u] # {})
      BY <1>3, <1>6, UndoAssumption DEF Recalls, Asked, open, in_progress
    <2> HIDE DEF x, k, c
    <2> QED
      BY <1>9, <2>1, <2>7, <2>8, Acts
  <1>11. CASE Refuse(u, y) /\ undo' = undo /\ card' = [card EXCEPT ![u] = None]
    <2>1. Turn(u, x, "refused", y, c, job[u], None)
      BY <1>1, <1>2, <1>6, <1>11, Goes DEF Turn, Asked, Flags, Recalls, Refuse, Copied
    <2>3. CopyOf(seen, u, x, "refused", y, c) /\ CallOf(x, "refused")
      BY <1>2, <1>3, <1>6, <1>8 DEF CopyOf, CallOf, Copied
    <2>4. LandedOf(undone, u, x, "refused") /\ LockOf(lock, u, x, "refused")
      BY <1>3, <1>4 DEF LandedOf, LockOf, Locking
    <2>5. JobOf(x, "refused", y, job[u]) /\ CardOf(x, "refused", y, None)
      BY <1>2, <1>3, <1>4, <1>6 DEF JobOf, CardOf, Fps
    <2>6. Fits(seen, undone, lock, u, x, "refused", y, c, job[u], None)
      BY <1>2, <2>3, <2>4, <2>5 DEF Fits
    <2>7. /\ Recalls(seen, u) /\ undone \subseteq undone' /\ (lock' = u <=> lock = u)
          /\ undo[u] # None /\ x # None /\ x.undoes = undo[u].undoes
          /\ (open(x) => open(undo[u]) \/ revs[u] # {})
      BY <1>3 DEF Recalls, Asked
    <2> HIDE DEF x, k, c
    <2> QED
      BY <1>9, <2>1, <2>6, <2>7, Acts
  <1> QED
    BY <1>7, <1>10, <1>11

-------------------------------------------------------------------------------
(* What comes to an undo from outside its call.                             *)

LEMMA CheckEndsInv == ASSUME Inv, NEW u \in Undos, CheckEnds(u) PROVE Inv'
  <1> DEFINE x == undo[u]
             k == task[u].u
             c == task[u].check
             p == task[u].pc
             t == IF x.state = "checking" THEN x.revert ELSE k.revert
  <1>1. /\ Flags /\ World /\ One(u) /\ Target
    BY DEF Inv
  <1>2. /\ task[u] \in Calls /\ FileOf(seen, u, x) /\ CopyOf(seen, u, x, p, k, c)
        /\ CallOf(x, p) /\ LandedOf(undone, u, x, p)
        /\ LockOf(lock, u, x, p) /\ JobOf(x, p, k, job[u])
        /\ CardOf(x, p, k, card[u]) /\ up = "up" /\ job[u] = "queued"
    BY <1>1 DEF One, CheckEnds
  <1>3. x # None
    BY <1>2 DEF JobOf
  <1>4. p = "queued" => x.state # "checking"
    BY <1>2 DEF CopyOf, Copied
  <1>5. PICK j : /\ job' = [job EXCEPT ![u] = j] /\ j \in {"passed", "failed", "unfinished"}
                 /\ j = "passed" => t \cap Bad = {}
    BY DEF CheckEnds
  <1>6. JobOf(x, p, k, j)
    <2>1. j = "passed" => (p = "queued" => k.revert \cap Bad = {}) /\ (p = "idle" => x.revert \cap Bad = {})
      BY <1>2, <1>4, <1>5 DEF JobOf
    <2> QED
      BY <1>2, <1>5, <2>1 DEF JobOf
  <1>7. Turn(u, x, p, k, c, j, card[u])
    BY <1>1, <1>2, <1>5 DEF Turn, CheckEnds, Flags, Recalls
  <1>8. Around(u)
    BY <1>1, <1>2 DEF Around, CheckEnds, World, rest
  <1>9. Fits(seen, undone, lock, u, x, p, k, c, j, card[u])
    BY <1>2, <1>6 DEF Fits
  <1>10. /\ Recalls(seen, u) /\ undone \subseteq undone' /\ (lock' = u <=> lock = u)
         /\ undo[u] # None /\ x # None /\ x.undoes = undo[u].undoes
         /\ (open(x) => open(undo[u]) \/ revs[u] # {})
    BY <1>3 DEF Recalls, CheckEnds
  <1> HIDE DEF x, k, c, p
  <1> QED
    BY <1>7, <1>8, <1>9, <1>10, Acts

\* An undo that nothing works on is taken up by a call of its own, with file y
\* and copy k, its check heard or its card answered.
LEMMA TakenUp ==
  ASSUME Inv, NEW u \in Undos, up = "up", Around(u), undo[u] # None, lock' = lock,
         undo[u].state \in {"checking", "awaiting_human"}, task[u].pc = "idle",
         NEW p \in {"drive", "refused"}, NEW s, NEW y, NEW k, NEW c,
         \A v \in Undos : Recalls(seen, v), Recalls(s, u), undone' = undone,
         y = undo[u] \/ (p = "drive" /\ y.state = "locking"), y \in UndoState, y.undoes = undo[u].undoes,
         p = "drive" => y.state = "locking",
         FileOf(s, u, y), p = "refused" => Sound(s, u, k) /\ y = undo[u] /\ k.undoes = undo[u].undoes,
         Turn(u, y, p, k, c, "none", None)
  PROVE  Inv'
  <1> DEFINE x == undo[u]
  <1>1. /\ Flags /\ World /\ One(u) /\ Target
    BY DEF Inv
  <1>2. /\ FileOf(seen, u, x) /\ LandedOf(undone, u, x, "idle") /\ LockOf(lock, u, x, "idle")
    BY <1>1 DEF One
  <1>3. revs[u] = {}
    BY <1>2 DEF LandedOf
  <1>4. y # None
    BY UndoAssumption
  <1>5. CopyOf(s, u, y, p, k, c) /\ CallOf(y, p)
    BY <1>2, <1>4 DEF CallOf, CopyOf, Copied
  <1>6. LandedOf(undone, u, y, p) /\ LockOf(lock, u, y, p)
    BY <1>2, <1>3, <1>4 DEF LandedOf, LockOf, Locking
  <1>7. JobOf(y, p, k, "none") /\ CardOf(y, p, k, None)
    BY DEF JobOf, CardOf, Fps
  <1>8. Fits(s, undone, lock, u, y, p, k, c, "none", None)
    BY <1>5, <1>6, <1>7 DEF Fits
  <1>9. open(y) => open(undo[u]) \/ revs[u] # {}
    BY DEF open, in_progress
  <1> QED
    BY <1>4, <1>8, <1>9, Acts

LEMMA CheckHeardInv == ASSUME Inv, NEW u \in Undos, CheckHeard(u) PROVE Inv'
  <1> DEFINE x == undo[u]
             k == task[u].u
             c == task[u].check
             p == task[u].pc
             y == [x EXCEPT !.state = "locking", !.checked = TRUE]
             z == [y EXCEPT !.checked = FALSE]
             r == [Idle EXCEPT !.pc = "refused", !.u = y]
             q == [pc |-> "refused", u |-> z, check |-> CHECK, failed |-> job[u] = "failed"]
  <1>1. /\ Flags /\ World /\ One(u) /\ Target
    BY DEF Inv
  <1>2. /\ task[u] \in Calls /\ FileOf(seen, u, x) /\ CopyOf(seen, u, x, p, k, c)
        /\ CallOf(x, p) /\ LandedOf(undone, u, x, p)
        /\ LockOf(lock, u, x, p) /\ JobOf(x, p, k, job[u])
        /\ CardOf(x, p, k, card[u]) /\ up = "up" /\ job[u] # "none"
    BY <1>1 DEF One, CheckHeard
  <1>3. x # None /\ x \in UndoState
    BY <1>1, <1>2 DEF JobOf, Flags
  <1>4. Around(u)
    BY <1>1, <1>2 DEF Around, CheckHeard, World, rest
  <1>5. \A v \in Undos : Recalls(seen, v)
    BY DEF Recalls, CheckHeard
  <1>6. job' = [job EXCEPT ![u] = "none"] /\ card' = card /\ lock' = lock /\ undone' = undone
    BY DEF CheckHeard
  <1>7. CASE x.state # "checking"
    <2>1. undo' = undo /\ task' = task
      BY <1>7 DEF CheckHeard
    <2>2. Turn(u, x, p, k, c, "none", card[u])
      BY <1>1, <1>2, <1>5, <1>6, <2>1 DEF Turn, Flags
    <2>3. JobOf(x, p, k, "none")
      BY DEF JobOf
    <2>4. Fits(seen, undone, lock, u, x, p, k, c, "none", card[u])
      BY <1>2, <2>3 DEF Fits
    <2>5. /\ Recalls(seen, u) /\ undone \subseteq undone' /\ (lock' = u <=> lock = u)
          /\ undo[u] # None /\ x # None /\ x.undoes = undo[u].undoes
          /\ (open(x) => open(undo[u]) \/ revs[u] # {})
      BY <1>3, <1>5, <1>6
    <2> HIDE DEF x, k, c, p
    <2> QED
      BY <1>4, <2>2, <2>4, <2>5, Acts
  <1>8. CASE x.state = "checking"
    <2>1. p = "idle" /\ card[u] = None /\ (job[u] = "passed" => x.revert \cap Bad = {})
      BY <1>2, <1>8 DEF JobOf, CopyOf, Copied, CardOf
    <2>2. /\ Sound(seen, u, x) /\ Agreed(x) /\ x.undoes \in ids /\ x.attempts < MaxAttempts /\ ~x.checked
      BY <1>2, <1>3, <1>8 DEF FileOf
    <2>3. "locking" \in States /\ TRUE \in BOOLEAN /\ FALSE \in BOOLEAN
      BY DEF States
    <2>4. /\ y \in UndoState /\ y.state = "locking" /\ y.checked = TRUE
          /\ y.undoes = x.undoes /\ y.by = x.by /\ y.tip = x.tip /\ y.revert = x.revert
          /\ y.attempts = x.attempts /\ y.approved = x.approved /\ y.shown = x.shown
      BY <1>3, <2>3, Moved
    <2>5. z = [x EXCEPT !.state = "locking", !.checked = FALSE]
      BY <1>3 DEF UndoState
    <2>6. /\ z \in UndoState /\ z.state = "locking" /\ z.checked = FALSE
          /\ z.undoes = x.undoes /\ z.by = x.by /\ z.tip = x.tip /\ z.revert = x.revert
          /\ z.attempts = x.attempts /\ z.approved = x.approved /\ z.shown = x.shown
      <3> DEFINE w == [x EXCEPT !.state = "locking", !.checked = FALSE]
      <3>1. /\ w \in UndoState /\ w.state = "locking" /\ w.checked = FALSE
            /\ w.undoes = x.undoes /\ w.by = x.by /\ w.tip = x.tip /\ w.revert = x.revert
            /\ w.attempts = x.attempts /\ w.approved = x.approved /\ w.shown = x.shown
        BY <1>3, <2>3, Moved
      <3>2. z = w
        BY <2>5
      <3> HIDE DEF w, z
      <3> QED
        BY <3>1, <3>2
    <2>7. \/ job[u] = "passed" /\ save(u, y) /\ task' = [task EXCEPT ![u] = Driving]
          \/ job[u] = "passed" /\ undo' = undo /\ task' = [task EXCEPT ![u] = r]
          \/ undo' = undo /\ task' = [task EXCEPT ![u] = q]
      BY <1>8 DEF CheckHeard, y, z, r, q
    <2> HIDE DEF y, z
    <2>8. Sound(seen, u, z)
      <3>1. ~z.checked
        BY <2>6
      <3> QED
        BY <2>2, <2>6, <3>1, SoundEdit
    <2>9. job[u] = "passed" => Sound(seen, u, y) /\ Agreed(y)
      <3>1. change(y) = change(x)
        BY <2>4 DEF change
      <3>2. Agreed(y)
        BY <2>2, <2>4, <3>1 DEF Agreed
      <3> QED
        BY <2>1, <2>2, <2>4, <3>2 DEF Sound, Agreed
    <2>10. CHECK \in BOOLEAN
      BY <1>1 DEF Flags
    <2>11. CASE job[u] = "passed" /\ save(u, y) /\ task' = [task EXCEPT ![u] = Driving]
      <3>1. Driving \in Calls /\ Driving.pc = "drive" /\ Driving.u = None /\ Driving.check = CHECK
        BY <2>10 DEF Driving, Idle, Calls
      <3>2. Turn(u, y, "drive", None, CHECK, "none", None)
        BY <1>1, <1>5, <1>6, <2>1, <2>4, <2>11, <3>1, Saves DEF Turn, Flags
      <3>3. FileOf(seen, u, y)
        BY <2>2, <2>4, <2>9, <2>11 DEF FileOf
      <3> HIDE DEF x, k, c, p
      <3> QED
        BY <1>2, <1>3, <1>4, <1>5, <1>6, <1>8, <2>1, <2>4, <3>2, <3>3, TakenUp DEF x, p
    <2>12. CASE job[u] = "passed" /\ undo' = undo /\ task' = [task EXCEPT ![u] = r]
      <3>1. r \in Calls /\ r.pc = "refused" /\ r.u = y /\ r.check = FALSE
        BY <2>4 DEF Idle, Calls, Copied
      <3>2. Turn(u, x, "refused", y, FALSE, "none", None)
        BY <1>1, <1>5, <1>6, <2>1, <2>12, <3>1 DEF Turn, Flags
      <3> HIDE DEF x, k, c, p
      <3> QED
        BY <1>2, <1>3, <1>4, <1>5, <1>6, <1>8, <2>1, <2>4, <2>9, <2>12, <3>2, TakenUp DEF x, p
    <2>13. CASE undo' = undo /\ task' = [task EXCEPT ![u] = q]
      <3>1. (job[u] = "failed") \in BOOLEAN
        OBVIOUS
      <3>2. q \in Calls /\ q.pc = "refused" /\ q.u = z /\ q.check = CHECK
        BY <2>6, <2>10, <3>1 DEF Calls, Copied
      <3>3. Turn(u, x, "refused", z, CHECK, "none", None)
        BY <1>1, <1>5, <1>6, <2>1, <2>13, <3>2 DEF Turn, Flags
      <3> HIDE DEF x, k, c, p
      <3> QED
        BY <1>2, <1>3, <1>4, <1>5, <1>6, <1>8, <2>1, <2>6, <2>8, <3>3, TakenUp DEF x, p
    <2> QED
      BY <2>7, <2>11, <2>12, <2>13
  <1> QED
    BY <1>7, <1>8

LEMMA ApproveInv == ASSUME Inv, NEW u \in Undos, Approve(u) PROVE Inv'
  <1> DEFINE x == undo[u]
             k == task[u].u
             c == task[u].check
             p == task[u].pc
             s == seen \cup {<<u, card[u]>>}
             y == [x EXCEPT !.state = "locking", !.approved = card[u]]
  <1>1. /\ Flags /\ World /\ One(u) /\ Target
    BY DEF Inv
  <1>2. /\ task[u] \in Calls /\ FileOf(seen, u, x) /\ CopyOf(seen, u, x, p, k, c)
        /\ CallOf(x, p) /\ LandedOf(undone, u, x, p)
        /\ LockOf(lock, u, x, p) /\ JobOf(x, p, k, job[u])
        /\ CardOf(x, p, k, card[u]) /\ up = "up" /\ card[u] # None
    BY <1>1 DEF One, Approve, Answered
  <1>3. x # None /\ x \in UndoState /\ card[u] \in Fps
    BY <1>1, <1>2 DEF CardOf, Flags
  <1>4. Around(u)
    <2>1. seen' \subseteq Undos \X Fps
      BY <1>1, <1>3 DEF Approve, World
    <2> QED
      BY <1>1, <1>2, <2>1 DEF Around, Approve, Answered, World, world
  <1>5. (\A v \in Undos : Recalls(seen, v)) /\ Recalls(s, u) /\ seen' = s
    BY DEF Recalls, Approve
  <1>6. card' = [card EXCEPT ![u] = None] /\ job' = job /\ lock' = lock /\ undone' = undone
    BY DEF Approve, Answered
  <1>7. CASE x.state # "awaiting_human"
    <2>1. undo' = undo /\ task' = task
      BY <1>7 DEF Approve
    <2>2. Turn(u, x, p, k, c, job[u], None)
      BY <1>1, <1>2, <1>5, <1>6, <2>1 DEF Turn, Flags
    <2>3. CardOf(x, p, k, None)
      BY DEF CardOf, Fps
    <2>4. Fits(seen, undone, lock, u, x, p, k, c, job[u], None)
      BY <1>2, <2>3 DEF Fits
    <2>5. /\ Recalls(seen, u) /\ undone \subseteq undone' /\ (lock' = u <=> lock = u)
          /\ undo[u] # None /\ x # None /\ x.undoes = undo[u].undoes
          /\ (open(x) => open(undo[u]) \/ revs[u] # {})
      BY <1>3, <1>5, <1>6
    <2> HIDE DEF x, k, c, p
    <2> QED
      BY <1>4, <2>2, <2>4, <2>5, Acts
  <1>8. CASE x.state = "awaiting_human"
    <2>1. p = "idle" /\ job[u] = "none" /\ card[u] = change(x)
      BY <1>2, <1>8 DEF JobOf, CopyOf, Copied, CardOf
    <2>2. /\ Sound(seen, u, x) /\ Asks(x) /\ x.undoes \in ids /\ x.attempts < MaxAttempts /\ ~x.checked
      BY <1>2, <1>3, <1>8 DEF FileOf
    <2>3. /\ y \in UndoState /\ y.state = "locking" /\ y.checked = x.checked
          /\ y.undoes = x.undoes /\ y.by = x.by /\ y.tip = x.tip /\ y.revert = x.revert
          /\ y.attempts = x.attempts /\ y.approved = card[u] /\ y.shown = x.shown
      BY <1>3, Answers
    <2>4. save(u, y) /\ task' = [task EXCEPT ![u] = Driving]
      BY <1>8 DEF Approve
    <2> HIDE DEF y
    <2>5. Sound(s, u, x)
      BY <2>2 DEF Sound
    <2>6. ~y.checked
      BY <2>2, <2>3
    <2>7. <<u, y.approved>> \in s
      BY <2>3
    <2>8. Sound(s, u, y)
      BY <2>3, <2>5, <2>6, <2>7, SoundEdit
    <2>9. Agreed(y)
      <3>1. change(y) = change(x)
        BY <2>3 DEF change
      <3> QED
        BY <2>1, <2>2, <2>3, <3>1 DEF Agreed, Asks
    <2>10. CHECK \in BOOLEAN
      BY <1>1 DEF Flags
    <2>11. Driving \in Calls /\ Driving.pc = "drive" /\ Driving.u = None /\ Driving.check = CHECK
      BY <2>10 DEF Driving, Idle, Calls
    <2>12. Turn(u, y, "drive", None, CHECK, "none", None)
      BY <1>1, <1>5, <1>6, <2>1, <2>3, <2>4, <2>11, Saves DEF Turn, Flags
    <2>13. FileOf(s, u, y)
      BY <2>2, <2>3, <2>6, <2>8, <2>9 DEF FileOf
    <2> HIDE DEF x, k, c, p, s
    <2> QED
      BY <1>2, <1>3, <1>4, <1>5, <1>6, <1>8, <2>1, <2>3, <2>12, <2>13, TakenUp DEF x, p
  <1> QED
    BY <1>7, <1>8

LEMMA DenyInv == ASSUME Inv, NEW u \in Undos, Deny(u) PROVE Inv'
  <1> DEFINE x == undo[u]
             k == task[u].u
             c == task[u].check
             p == task[u].pc
             r == [Idle EXCEPT !.pc = "refused", !.u = x]
  <1>1. /\ Flags /\ World /\ One(u) /\ Target
    BY DEF Inv
  <1>2. /\ task[u] \in Calls /\ FileOf(seen, u, x) /\ CopyOf(seen, u, x, p, k, c)
        /\ CallOf(x, p) /\ LandedOf(undone, u, x, p)
        /\ LockOf(lock, u, x, p) /\ JobOf(x, p, k, job[u])
        /\ CardOf(x, p, k, card[u]) /\ up = "up" /\ card[u] # None
    BY <1>1 DEF One, Deny, Answered
  <1>3. x # None /\ x \in UndoState
    BY <1>1, <1>2 DEF CardOf, Flags
  <1>4. Around(u)
    BY <1>1, <1>2 DEF Around, Deny, Answered, World, world
  <1>5. \A v \in Undos : Recalls(seen, v)
    BY DEF Recalls, Deny
  <1>6. card' = [card EXCEPT ![u] = None] /\ job' = job /\ lock' = lock /\ undone' = undone /\ undo' = undo
    BY DEF Deny, Answered
  <1>7. CASE x.state # "awaiting_human"
    <2>1. task' = task
      BY <1>7 DEF Deny
    <2>2. Turn(u, x, p, k, c, job[u], None)
      BY <1>1, <1>2, <1>5, <1>6, <2>1 DEF Turn, Flags
    <2>3. CardOf(x, p, k, None)
      BY DEF CardOf, Fps
    <2>4. Fits(seen, undone, lock, u, x, p, k, c, job[u], None)
      BY <1>2, <2>3 DEF Fits
    <2>5. /\ Recalls(seen, u) /\ undone \subseteq undone' /\ (lock' = u <=> lock = u)
          /\ undo[u] # None /\ x # None /\ x.undoes = undo[u].undoes
          /\ (open(x) => open(undo[u]) \/ revs[u] # {})
      BY <1>3, <1>5, <1>6
    <2> HIDE DEF x, k, c, p
    <2> QED
      BY <1>4, <2>2, <2>4, <2>5, Acts
  <1>8. CASE x.state = "awaiting_human"
    <2>1. p = "idle" /\ job[u] = "none"
      BY <1>2, <1>8 DEF JobOf, CopyOf, Copied, CardOf
    <2>2. Sound(seen, u, x)
      BY <1>2, <1>3 DEF FileOf
    <2>3. task' = [task EXCEPT ![u] = r]
      BY <1>8 DEF Deny
    <2>4. r \in Calls /\ r.pc = "refused" /\ r.u = x /\ r.check = FALSE
      BY <1>3 DEF Idle, Calls, Copied
    <2>5. Turn(u, x, "refused", x, FALSE, "none", None)
      BY <1>1, <1>5, <1>6, <2>1, <2>3, <2>4 DEF Turn, Flags
    <2> HIDE DEF x, k, c, p
    <2> QED
      BY <1>2, <1>3, <1>4, <1>5, <1>6, <1>8, <2>1, <2>2, <2>5, TakenUp DEF x, p
  <1> QED
    BY <1>7, <1>8

LEMMA Trees ==
  ASSUME Target
  PROVE  /\ tip \in Nat /\ tip >= 1
         /\ \A n \in 1..tip : tree(n) \in SUBSET Changes /\ target[n].by \in {Human} \cup Lands \cup Undos
  <1>1. target \in Seq(Commit1) /\ tip = Len(target) /\ tip >= 1
    BY DEF Target, tip
  <1>2. tip \in Nat
    BY <1>1
  <1>3. \A n \in 1..tip : target[n] \in Commit1
    BY <1>1
  <1>4. \A n \in 1..tip : tree(n) \in SUBSET Changes /\ target[n].by \in {Human} \cup Lands \cup Undos
    BY <1>3 DEF tree, Commit1
  <1> QED
    BY <1>1, <1>2, <1>4

\* The revert of a logged land, as made on the tip.
LEMMA Builds ==
  ASSUME Target, Logged, NEW l \in Lands \cap ids
  PROVE  /\ inverse(l, tree(tip)) = (tree(tip) \ came[l]) \cup gone[l]
         /\ inverse(l, tree(tip)) \in SUBSET Changes
         /\ inverse(l, tree(tip)) # None
  <1>1. inverse(l, tree(tip)) = (tree(tip) \ came[l]) \cup gone[l]
    BY Inverses
  <1>2. tree(tip) \in SUBSET Changes
    BY Trees
  <1>3. gone[l] \in SUBSET Changes
    <2>1. gone[l] = tree(entry_of(l).at - 1) \ tree(entry_of(l).at)
      BY DEF gone
    <2>2. tree(entry_of(l).at - 1) \in SUBSET Changes
      BY Entries, Trees
    <2> QED
      BY <2>1, <2>2
  <1> QED
    BY <1>1, <1>2, <1>3, UndoAssumption

LEMMA TipInv == ASSUME Inv, NEW u \in Undos, Tip(u) PROVE Inv'
  <1> DEFINE x == undo[u]
             k == task[u].u
             c == task[u].check
             r == inverse(k.undoes, tree(tip))
             b == [k EXCEPT !.tip = tip, !.revert = r, !.checked = FALSE]
             f == config_fp(b)
             y == [b EXCEPT !.approved = f]
  <1>1. /\ Flags /\ World /\ One(u) /\ Target /\ Logged
    BY DEF Inv
  <1>2. /\ task[u] \in Calls /\ FileOf(seen, u, x) /\ CopyOf(seen, u, x, "tip", k, c)
        /\ CallOf(x, "tip") /\ LandedOf(undone, u, x, "tip")
        /\ LockOf(lock, u, x, "tip") /\ JobOf(x, "tip", k, job[u])
        /\ CardOf(x, "tip", k, card[u]) /\ up = "up" /\ task[u].pc = "tip"
    BY <1>1 DEF One, Tip, At
  <1>3. /\ x # None /\ k \in UndoState /\ Sound(seen, u, k) /\ k.undoes = x.undoes
        /\ x.state \in {"locking", "advancing"} /\ lock = u /\ x.undoes \in ids
        /\ k.state = "locking" /\ k.attempts < MaxAttempts /\ (k.revert # None => Agreed(k))
    BY <1>2 DEF CopyOf, Copied, CallOf, Sound, LockOf, Locking, FileOf
  <1>4. revs[u] = {} /\ job[u] = "none" /\ card[u] = None /\ c \in BOOLEAN
    BY <1>2 DEF LandedOf, JobOf, CardOf, Calls
  <1>5. k.undoes \in Lands \cap ids /\ tip \in Nat /\ tip >= 1
    BY <1>1, <1>3, Trees DEF UndoState
  <1>6. r = (tree(tip) \ came[k.undoes]) \cup gone[k.undoes] /\ r \in SUBSET Changes /\ r # None
    BY <1>1, <1>5, Builds
  <1> HIDE DEF r
  <1>7. /\ b \in UndoState /\ b.state = k.state /\ ~b.checked
        /\ b.undoes = k.undoes /\ b.by = k.by /\ b.tip = tip /\ b.revert = r
        /\ b.attempts = k.attempts /\ b.approved = k.approved /\ b.shown = k.shown
    <2> HIDE DEF k
    <2>1. k \in UndoState /\ tip \in Nat /\ r \in AnyTree
      BY <1>3, <1>5, <1>6 DEF AnyTree
    <2>2. b \in UndoState
      BY <2>1, Rebuilt
    <2>3. b.state = k.state
      BY <2>1 DEF UndoState
    <2>4. ~b.checked
      BY <2>1, Rebuilt
    <2>5. b.undoes = k.undoes
      BY <2>1 DEF UndoState
    <2>6. b.by = k.by
      BY <2>1 DEF UndoState
    <2>7. b.tip = tip
      BY <2>1, Rebuilt
    <2>8. b.revert = r
      BY <2>1, Rebuilt
    <2>9. b.attempts = k.attempts
      BY <2>1 DEF UndoState
    <2>10. b.approved = k.approved
      BY <2>1 DEF UndoState
    <2>11. b.shown = k.shown
      BY <2>1 DEF UndoState
    <2> HIDE DEF b
    <2> QED
      BY <2>2, <2>3, <2>4, <2>5, <2>6, <2>7, <2>8, <2>9, <2>10, <2>11
  <1>8. build(u) = b
    BY DEF build, r
  <1> HIDE DEF b
  <1>9. f = change(b) /\ f \in Fps
    BY CaughtFps DEF config_fp, change, tree
  <1>10. /\ y \in UndoState /\ y.state = b.state /\ y.checked = b.checked
         /\ y.undoes = b.undoes /\ y.by = b.by /\ y.tip = b.tip /\ y.revert = b.revert
         /\ y.attempts = b.attempts /\ y.approved = f /\ y.shown = b.shown
    BY <1>7, <1>9, Approved
  <1> HIDE DEF f, y
  <1>11. Sound(seen, u, b)
    <2>1. b.revert # None => b.revert = (target[b.tip].tree \ came[b.undoes]) \cup gone[b.undoes]
      BY <1>6, <1>7 DEF tree
    <2>2. b.approved # None => <<u, b.approved>> \in seen
      BY <1>3, <1>7 DEF Sound
    <2>3. b.by = "human" /\ b.shown # None => <<u, b.shown>> \in seen
      BY <1>3, <1>7 DEF Sound
    <2>4. b.tip <= tip /\ b.tip >= 1 /\ b.undoes \in ids
      BY <1>5, <1>7
    <2> QED
      BY <1>7, <2>1, <2>2, <2>3, <2>4 DEF Sound
  <1>12. Around(u)
    BY <1>1, <1>2 DEF Around, Tip, World, rest
  <1>13. ASSUME NEW p \in {"advance", "refused", "queue", "ask"}, NEW q, Go(u, p, q), Sound(seen, u, q),
                q.undoes = k.undoes, q.state = "locking", q.attempts < MaxAttempts,
                p \in {"queue", "advance"} => Agreed(q), p = "ask" => Asks(q),
                p = "queue" => ~q.checked, p = "advance" /\ c => q.checked
         PROVE  Inv'
    <2>1. q \in UndoState
      BY <1>13 DEF Sound
    <2>2. Turn(u, x, p, q, c, job[u], card[u])
      BY <1>1, <1>2, <1>3, <1>13, <2>1, Goes DEF Turn, Tip, Flags, Copied, Recalls
    <2>3. CopyOf(seen, u, x, p, q, c)
      BY <1>3, <1>13 DEF CopyOf, Copied
    <2>4. CallOf(x, p) /\ LandedOf(undone, u, x, p)
      BY <1>2, <1>3, <1>4, <1>13 DEF CallOf, LandedOf
    <2>5. LockOf(lock, u, x, p)
      BY <1>3, <1>13 DEF LockOf, Locking
    <2>6. JobOf(x, p, q, job[u]) /\ CardOf(x, p, q, card[u])
      BY <1>2, <1>3, <1>4, <1>13 DEF JobOf, CardOf
    <2>7. Fits(seen, undone, lock, u, x, p, q, c, job[u], card[u])
      BY <1>2, <2>3, <2>4, <2>5, <2>6 DEF Fits
    <2>8. /\ Recalls(seen, u) /\ undone \subseteq undone' /\ (lock' = u <=> lock = u)
          /\ undo[u] # None /\ x # None /\ x.undoes = undo[u].undoes
          /\ (open(x) => open(undo[u]) \/ revs[u] # {})
      BY <1>3 DEF Recalls, Tip
    <2> HIDE DEF x, k, c
    <2> QED
      BY <1>12, <2>2, <2>7, <2>8, Acts
  <1>14. CASE reusable(u) /\ Go(u, "advance", k)
    BY <1>3, <1>13, <1>14 DEF reusable
  <1>15. CASE Refuse(u, k)
    BY <1>3, <1>13, <1>15 DEF Refuse
  <1>16. CASE ~config_unapproved(b) /\ Go(u, Built(u), b)
    <2>1. Agreed(b)
      BY <1>6, <1>7, <1>9, <1>16 DEF Agreed, config_unapproved, f
    <2>2. Built(u) \in {"queue", "advance"} /\ (Built(u) = "advance" => ~c)
      BY <1>4 DEF Built
    <2> QED
      BY <1>3, <1>7, <1>11, <1>13, <1>16, <2>1, <2>2
  <1>17. CASE config_unapproved(b) /\ b.by = "human" /\ as_shown(b) /\ Go(u, Built(u), y)
    <2>1. f # None /\ b.shown = f
      BY <1>17 DEF config_unapproved, as_shown, f
    <2>2. <<u, y.approved>> \in seen /\ ~y.checked
      BY <1>7, <1>10, <1>11, <1>17, <2>1 DEF Sound
    <2>3. Sound(seen, u, y)
      BY <1>10, <1>11, <2>2, SoundEdit
    <2>4. Agreed(y)
      <3>1. change(y) = change(b)
        BY <1>10 DEF change
      <3> QED
        BY <1>6, <1>7, <1>9, <1>10, <3>1 DEF Agreed
    <2>5. Built(u) \in {"queue", "advance"} /\ (Built(u) = "advance" => ~c)
      BY <1>4 DEF Built
    <2>6. y.undoes = k.undoes /\ y.state = "locking" /\ y.attempts < MaxAttempts
      BY <1>3, <1>7, <1>10
    <2> QED
      BY <1>13, <1>17, <2>2, <2>3, <2>4, <2>5, <2>6
  <1>18. CASE Refuse(u, b)
    BY <1>3, <1>7, <1>11, <1>13, <1>18 DEF Refuse
  <1>19. CASE config_unapproved(b) /\ Go(u, "ask", b)
    <2>1. Asks(b)
      BY <1>6, <1>7, <1>9, <1>19 DEF Asks, config_unapproved, f
    <2> QED
      BY <1>3, <1>7, <1>11, <1>13, <1>19, <2>1
  <1>20. \/ reusable(u) /\ Go(u, "advance", k)
         \/ Refuse(u, k)
         \/ ~config_unapproved(b) /\ Go(u, Built(u), b)
         \/ config_unapproved(b) /\ b.by = "human" /\ as_shown(b) /\ Go(u, Built(u), y)
         \/ Refuse(u, b)
         \/ config_unapproved(b) /\ Go(u, "ask", b)
    BY <1>8 DEF Tip, y, f
  <1> QED
    BY <1>14, <1>15, <1>16, <1>17, <1>18, <1>19, <1>20

-------------------------------------------------------------------------------
(* The steps that move the target or write a line.                          *)

\* The others and the world, after the target or the log grew.
LEMMA Beside ==
  ASSUME Inv, Grows, NEW u \in Undos, One(u)', up' = up, Target', Logged', Flags', Landing', Alone',
         \A v \in Undos \ {u} :
           /\ undo'[v] = undo[v] /\ task'[v] = task[v] /\ job'[v] = job[v] /\ card'[v] = card[v]
           /\ revs'[v] = revs[v],
         seen' = seen, RUNNING' = RUNNING, lock' = lock, undone' = undone,
         shown' \in [Lands -> SUBSET Fps]
  PROVE  Inv'
  <1>1. ASSUME NEW v \in Undos \ {u} PROVE One(v)'
    <2>1. Leaves(v)
      BY DEF Leaves, Recalls
    <2> QED
      BY <2>1, Left
  <1>2. World'
    <2>1. World /\ Target
      BY DEF Inv
    <2>2. tip \in Nat /\ tip' \in Nat /\ tip <= tip'
      BY <2>1 DEF Grows, Target, tip
    <2>3. RUNNING' \in 0..tip'
      BY <2>1, <2>2 DEF World
    <2> QED
      BY <2>1, <2>3 DEF World
  <1> QED
    BY <1>1, <1>2 DEF Inv

LEMMA CasLands == ASSUME Inv, NEW u \in Undos, Cas(u), target' # target PROVE Inv'
  <1> DEFINE x == undo[u]
             k == task[u].u
             c == task[u].check
             m == [tree |-> k.revert, by |-> u]
  <1>1. /\ Flags /\ World /\ One(u) /\ Target /\ Logged /\ Landing /\ Alone
    BY DEF Inv
  <1>2. /\ task[u] \in Calls /\ FileOf(seen, u, x) /\ CopyOf(seen, u, x, "cas", k, c)
        /\ CallOf(x, "cas") /\ LandedOf(undone, u, x, "cas")
        /\ LockOf(lock, u, x, "cas") /\ JobOf(x, "cas", k, job[u])
        /\ CardOf(x, "cas", k, card[u]) /\ up = "up" /\ task[u].pc = "cas"
    BY <1>1 DEF One, Cas, At
  <1>3. /\ x # None /\ k \in UndoState /\ Sound(seen, u, k) /\ k = x
        /\ x.state = "advancing" /\ lock = u
    BY <1>2 DEF CopyOf, Copied, CallOf, Sound, LockOf, Locking
  <1>4. revs[u] = {} /\ job[u] = "none" /\ card[u] = None
    BY <1>2 DEF LandedOf, JobOf, CardOf
  <1>5. target' = Append(target, m) /\ Go(u, "log", k) /\ k.tip = tip
    BY DEF Cas, unmoved
  <1>6. m \in Commit1 /\ m.by = u /\ m.tree = k.revert
    <2>1. k.revert # None
      BY <1>2, <1>3 DEF FileOf, Agreed
    <2>2. k.revert \in SUBSET Changes
      BY <1>3, <2>1 DEF UndoState
    <2> QED
      BY <2>2 DEF Commit1
  <1> HIDE DEF m
  <1>7. undo' = undo /\ job' = job /\ card' = card /\ seen' = seen /\ lock' = lock /\ up' = up
        /\ RUNNING' = RUNNING /\ undone' = undone /\ shown' = shown /\ log' = log
        /\ landing' = landing /\ CHECK' = CHECK
    BY DEF Cas, rest
  <1>8. Grows /\ Target' /\ tip' = tip + 1 /\ target'[tip + 1] = m
    BY <1>1, <1>5, <1>6, <1>7, Extends, ExtendsGrows
  <1>9. \A v \in Undos : revs'[v] = IF v = u THEN {tip + 1} ELSE revs[v]
    <2>1. \A v \in Undos : revs'[v] = IF m.by = v THEN revs[v] \cup {tip + 1} ELSE revs[v]
      BY <1>1, <1>5, <1>6, <1>7, Extends
    <2> QED
      BY <1>4, <1>6, <2>1
  <1>10. /\ task'[u] \in Calls /\ task'[u].pc = "log" /\ task'[u].u = k /\ task'[u].check = c
         /\ DOMAIN task' = Undos /\ \A v \in Undos \ {u} : task'[v] = task[v]
    BY <1>1, <1>2, <1>3, <1>5, Goes DEF Flags, Copied
  <1>11. Recalls(seen, u)
    BY <1>7 DEF Recalls
  <1>12. One(u)'
    <2>1. CopyOf(seen, u, x, "log", k, c)
      BY <1>2, <1>3 DEF CopyOf, Copied
    <2>2. FileOf(seen, u, undo[u])'
      BY <1>1, <1>2, <1>7, <1>8, <1>11, FileKept
    <2>3. CopyOf(seen, u, undo[u], task[u].pc, task[u].u, task[u].check)'
      BY <1>1, <1>7, <1>8, <1>10, <1>11, <2>1, CopyKept
    <2>4. CallOf(undo[u], task[u].pc)'
      BY <1>2, <1>3, <1>7, <1>10 DEF CallOf
    <2>5. LandedOf(undone, u, undo[u], task[u].pc)'
      <3>1. undo'[u] = x /\ task'[u].pc = "log" /\ revs'[u] = {tip + 1}
        BY <1>7, <1>9, <1>10
      <3>2. tip + 1 = x.tip + 1 /\ target'[tip + 1].tree = x.revert
        BY <1>3, <1>5, <1>6, <1>8
      <3> QED
        BY <1>3, <3>1, <3>2 DEF LandedOf
    <2>6. LockOf(lock, u, undo[u], task[u].pc)'
      BY <1>3, <1>7, <1>10 DEF LockOf, Locking
    <2>7. JobOf(undo[u], task[u].pc, task[u].u, job[u])'
      BY <1>4, <1>7, <1>10 DEF JobOf
    <2>8. CardOf(undo[u], task[u].pc, task[u].u, card[u])'
      BY <1>4, <1>7, <1>10 DEF CardOf, Fps
    <2> QED
      BY <1>10, <2>2, <2>3, <2>4, <2>5, <2>6, <2>7, <2>8 DEF One
  <1>13. Logged'
    BY <1>1, <1>4, <1>7, <1>8, <1>9, Logs
  <1>14. Landing'
    BY <1>1, <1>7, <1>8, LandingKept
  <1>15. Alone'
    <2>1. Live(u)
      BY <1>3 DEF Live, open, in_progress
    <2>2. \A v \in Undos \ {u} : Live(v)' => Live(v)
      BY <1>7, <1>9 DEF Live
    <2> QED
      BY <1>1, <1>7, <2>1, <2>2, AloneKept
  <1>16. Flags'
    BY <1>1, <1>7, <1>10 DEF Flags
  <1> QED
    BY <1>1, <1>7, <1>8, <1>9, <1>10, <1>12, <1>13, <1>14, <1>15, <1>16, Beside DEF World

\* A line more in the log.
LEMMA Noted ==
  ASSUME Target, Logged, NEW e \in Line1, log' = Append(log, e), UNCHANGED <<target, undo>>,
         e.id = None \/ e.id \notin ids, LineOf(e)
  PROVE  Logged'
  <1>1. /\ tip' = tip /\ makers' = makers /\ revs' = revs
    BY Writes
  <1>2. log' \in Seq(Line1) /\ \A i, j \in DOMAIN log' : log'[i].id = log'[j].id => log'[i].id = None \/ i = j
    BY Writes
  <1>3. ASSUME NEW i \in DOMAIN log' PROVE LineOf(log[i])'
    <2>1. LineOf(log'[i])
      <3>1. log'[i] = e \/ (i \in DOMAIN log /\ log'[i] = log[i])
        BY Writes
      <3> QED
        BY <3>1 DEF Logged
    <2> QED
      BY <1>1, <2>1 DEF LineOf
  <1> QED
    BY <1>2, <1>3 DEF Logged

LEMMA UndoLine ==
  ASSUME Inv, NEW u \in Undos, NEW y \in UndoState, revs[u] # {}, undo[u] # None,
         y.undoes = undo[u].undoes, y.tip + 1 \in revs[u], ~has(log, u)
  PROVE  undo_line(u, y) \in Line1 /\ undo_line(u, y).id = u /\ u \notin ids /\ LineOf(undo_line(u, y))
  <1> DEFINE e == undo_line(u, y)
             ck == IF y.checked THEN "passed" ELSE ""
  <1>1. y.tip \in Nat /\ y.undoes \in Lands /\ y.same \in BOOLEAN
    BY DEF UndoState
  <1>2. ck \in {"passed", "failed", ""}
    OBVIOUS
  <1>3. e = [id |-> u, kind |-> "undo", undoes |-> y.undoes, at |-> y.tip + 1, check |-> ck, same |-> y.same]
    BY DEF undo_line, Line
  <1> HIDE DEF e, ck
  <1>4. e \in Line1
    <2>1. y.tip + 1 \in Nat
      BY <1>1
    <2>2. \A n \in Nat, l \in Lands, b \in BOOLEAN, z \in {"passed", "failed", ""} :
            [id |-> u, kind |-> "undo", undoes |-> l, at |-> n, check |-> z, same |-> b] \in Line1
      BY DEF Line1
    <2> QED
      BY <1>1, <1>2, <1>3, <2>1, <2>2
  <1>5. e.id = u /\ e.kind = "undo" /\ e.undoes = y.undoes /\ e.at = y.tip + 1
    BY <1>3
  <1>6. u \notin ids
    BY DEF has, ids
  <1>7. u \notin Lands
    BY UndoAssumption
  <1>8. e.at \in 1..tip
    BY <1>5 DEF revs, Reverts
  <1>9. LineOf(e)
    BY <1>5, <1>7, <1>8 DEF LineOf
  <1> QED
    BY <1>4, <1>5, <1>6, <1>9 DEF e

\* The undo's line is written, or was: what else is said of it stands.
LEMMA Lined ==
  ASSUME Inv, NEW u \in Undos, NEW y \in UndoState, undo[u] # None, y.undoes = undo[u].undoes,
         y.tip + 1 \in revs[u], log_undo(u, y), UNCHANGED <<target, undo, undone, up, landing, lock>>
  PROVE  /\ Grows /\ Target' /\ Logged' /\ Landing' /\ Alone' /\ u \in ids'
         /\ revs' = revs /\ ids \subseteq ids'
  <1>1. /\ Target /\ Logged /\ Landing /\ Alone
    BY DEF Inv
  <1>2. Target' /\ tip' = tip
    BY <1>1 DEF Target, tip
  <1>3. CASE has(log, u)
    <2>1. log' = log
      BY <1>3 DEF log_undo
    <2>2. Grows /\ revs' = revs /\ ids' = ids /\ u \in ids
      BY <1>1, <1>3, <2>1, Still, StillGrows DEF has, ids
    <2>3. Logged'
      BY <1>1, <2>1, <2>2, Logs
    <2>4. Landing'
      BY <1>1, <2>1, <2>2, LandingKept
    <2>5. Alone'
      BY <1>1, <2>2, AloneKept DEF Live
    <2> QED
      BY <1>2, <2>2, <2>3, <2>4, <2>5
  <1>4. CASE ~has(log, u)
    <2> DEFINE e == undo_line(u, y)
    <2>1. log' = Append(log, e)
      BY <1>4 DEF log_undo
    <2>2. e \in Line1 /\ e.id = u /\ u \notin ids /\ LineOf(e)
      BY <1>4, UndoLine
    <2> HIDE DEF e
    <2>3. Grows
      BY <1>1, <2>1, <2>2, WritesGrows
    <2>4. revs' = revs /\ ids' = ids \cup {u} /\ makers' = makers
      BY <1>1, <2>1, <2>2, Writes
    <2>5. Logged'
      BY <1>1, <2>1, <2>2, Noted
    <2>6. Landing'
      <3>1. u \notin Lands
        BY UndoAssumption
      <3>2. landing # None => landing.who \in Lands
        BY <1>1 DEF Landing
      <3> QED
        BY <1>1, <1>2, <2>4, <3>1, <3>2 DEF Landing
    <2>7. Alone'
      BY <1>1, <2>4, AloneKept DEF Live
    <2> QED
      BY <1>2, <2>3, <2>4, <2>5, <2>6, <2>7
  <1> QED
    BY <1>3, <1>4

LEMMA LogInv == ASSUME Inv, NEW u \in Undos, Log(u) PROVE Inv'
  <1> DEFINE x == undo[u]
             k == task[u].u
             c == task[u].check
             b == tree(tip) = k.revert
             y == [k EXCEPT !.same = b]
  <1>1. /\ Flags /\ World /\ One(u) /\ Target
    BY DEF Inv
  <1>2. /\ task[u] \in Calls /\ FileOf(seen, u, x) /\ CopyOf(seen, u, x, "log", k, c)
        /\ CallOf(x, "log") /\ LandedOf(undone, u, x, "log")
        /\ LockOf(lock, u, x, "log") /\ JobOf(x, "log", k, job[u])
        /\ CardOf(x, "log", k, card[u]) /\ up = "up" /\ task[u].pc = "log"
    BY <1>1 DEF One, Log, At
  <1>3. /\ x # None /\ k \in UndoState /\ Sound(seen, u, k) /\ k = x
        /\ x.state = "advancing" /\ lock = u
    BY <1>2 DEF CopyOf, Copied, CallOf, Sound, LockOf, Locking
  <1>4. job[u] = "none" /\ card[u] = None
    BY <1>2 DEF JobOf, CardOf
  <1>5. b \in BOOLEAN
    OBVIOUS
  <1> HIDE DEF b
  <1>6. /\ y \in UndoState /\ y.state = k.state /\ y.checked = k.checked
        /\ y.undoes = k.undoes /\ y.by = k.by /\ y.tip = k.tip /\ y.revert = k.revert
        /\ y.attempts = k.attempts /\ y.approved = k.approved /\ y.shown = k.shown
    BY <1>3, <1>5, Samed
  <1>7. log_undo(u, y) /\ Go(u, "mark", y) /\ shown' = [shown EXCEPT ![y.undoes] = {}]
    BY DEF Log, b
  <1> HIDE DEF y
  <1>8. Sound(seen, u, y)
    <2>1. y.checked => k.checked
      BY <1>6
    <2> QED
      BY <1>3, <1>6, <2>1, SoundEdit
  <1>9. undo' = undo /\ job' = job /\ card' = card /\ seen' = seen /\ lock' = lock /\ up' = up
        /\ RUNNING' = RUNNING /\ undone' = undone /\ target' = target
        /\ landing' = landing /\ CHECK' = CHECK
    BY DEF Log, world
  <1>10. y.tip + 1 \in revs[u]
    BY <1>2, <1>3, <1>6 DEF LandedOf
  <1>11. /\ Grows /\ Target' /\ Logged' /\ Landing' /\ Alone' /\ u \in ids' /\ revs' = revs
    BY <1>3, <1>6, <1>7, <1>9, <1>10, Lined
  <1>12. /\ task'[u] \in Calls /\ task'[u].pc = "mark" /\ task'[u].u = y /\ task'[u].check = c
         /\ DOMAIN task' = Undos /\ \A v \in Undos \ {u} : task'[v] = task[v]
    BY <1>1, <1>2, <1>6, <1>7, Goes DEF Flags, Copied
  <1>13. Recalls(seen, u)
    BY <1>9 DEF Recalls
  <1>14. One(u)'
    <2>1. CopyOf(seen, u, x, "mark", y, c)
      BY <1>2, <1>3, <1>6, <1>8 DEF CopyOf, Copied
    <2>2. FileOf(seen, u, undo[u])'
      BY <1>1, <1>2, <1>9, <1>11, <1>13, FileKept
    <2>3. CopyOf(seen, u, undo[u], task[u].pc, task[u].u, task[u].check)'
      BY <1>1, <1>9, <1>11, <1>12, <1>13, <2>1, CopyKept
    <2>4. CallOf(undo[u], task[u].pc)'
      BY <1>2, <1>3, <1>9, <1>12 DEF CallOf
    <2>5. LandedOf(undone, u, undo[u], task[u].pc)'
      BY <1>2, <1>3, <1>9, <1>11, <1>12 DEF LandedOf
    <2>6. LockOf(lock, u, undo[u], task[u].pc)'
      BY <1>3, <1>9, <1>12 DEF LockOf, Locking
    <2>7. JobOf(undo[u], task[u].pc, task[u].u, job[u])'
      BY <1>4, <1>9, <1>12 DEF JobOf
    <2>8. CardOf(undo[u], task[u].pc, task[u].u, card[u])'
      BY <1>4, <1>9, <1>12 DEF CardOf, Fps
    <2> QED
      BY <1>12, <2>2, <2>3, <2>4, <2>5, <2>6, <2>7, <2>8 DEF One
  <1>15. Flags'
    BY <1>1, <1>9, <1>12 DEF Flags
  <1>16. shown' \in [Lands -> SUBSET Fps]
    BY <1>1, <1>7 DEF World
  <1> QED
    BY <1>9, <1>11, <1>12, <1>14, <1>15, <1>16, Beside

LEMMA SettleInv == ASSUME Inv, NEW u \in Undos, Settle(u) PROVE Inv'
  <1> DEFINE x == undo[u]
             k == task[u].u
             c == task[u].check
             p == task[u].pc
             y == [x EXCEPT !.same = TRUE]
  <1>1. /\ Flags /\ World /\ One(u) /\ Target
    BY DEF Inv
  <1>2. /\ task[u] \in Calls /\ FileOf(seen, u, x) /\ CopyOf(seen, u, x, p, k, c)
        /\ CallOf(x, p) /\ LandedOf(undone, u, x, p)
        /\ LockOf(lock, u, x, p) /\ JobOf(x, p, k, job[u])
        /\ CardOf(x, p, k, card[u]) /\ up = "settling"
    BY <1>1 DEF One, Settle
  <1>3. p = "idle" /\ job[u] = "none" /\ card[u] = None /\ lock = None
    BY <1>1, <1>2 DEF CallOf, JobOf, CardOf, World
  <1>4. /\ x # None /\ x \in UndoState /\ x.state \in {"locking", "checking", "advancing"}
        /\ Sound(seen, u, x) /\ x.undoes \in ids /\ x.undoes \in Lands
    BY <1>1, <1>2 DEF Settle, in_progress, FileOf, Sound, UndoState
  <1>5. /\ y \in UndoState /\ y.state = x.state /\ y.checked = x.checked
        /\ y.undoes = x.undoes /\ y.by = x.by /\ y.tip = x.tip /\ y.revert = x.revert
        /\ y.attempts = x.attempts /\ y.approved = x.approved /\ y.shown = x.shown
    BY <1>4, Samed
  <1>6. \/ in_target(u) /\ log_undo(u, y) /\ UNCHANGED <<undo, undone>>
        \/ in_target(u) /\ has(log, u) /\ UNCHANGED log /\ undone' = undone \cup {y.undoes} /\ save(u, over(y, "done"))
        \/ ~in_target(u) /\ save(u, over(y, "held")) /\ UNCHANGED <<log, undone>>
    BY DEF Settle
  <1> HIDE DEF y
  <1>7. job' = job /\ card' = card /\ seen' = seen /\ lock' = lock /\ up' = up
        /\ RUNNING' = RUNNING /\ target' = target /\ task' = task /\ shown' = shown
        /\ landing' = landing /\ CHECK' = CHECK
    BY DEF Settle, world
  <1>8. Sound(seen, u, y)
    <2>1. y.checked => x.checked
      BY <1>5
    <2> QED
      BY <1>4, <1>5, <2>1, SoundEdit
  <1>9. \A v \in Undos : Recalls(seen, v)
    BY <1>7 DEF Recalls
  <1>10. ASSUME in_target(u)
         PROVE  x.tip + 1 \in revs[u] /\ x.state = "advancing"
    <2>1. x.tip \in Nat /\ tip \in Nat
      BY <1>1, <1>4, Trees DEF UndoState
    <2>2. tip > x.tip /\ target[x.tip + 1].by = u /\ x.state = "advancing"
      BY <1>10 DEF in_target
    <2>3. x.tip + 1 \in 1..tip
      BY <2>1, <2>2
    <2> QED
      BY <2>2, <2>3 DEF revs, Reverts
  <1>11. ASSUME ~in_target(u)
         PROVE  revs[u] = {}
    <2>1. SUFFICES ASSUME NEW n \in revs[u] PROVE FALSE
      OBVIOUS
    <2>2. x.state = "advancing" /\ n = x.tip + 1 /\ target[n].tree = x.revert
      BY <1>2, <1>4 DEF LandedOf
    <2>3. n \in 1..tip /\ target[n].by = u
      BY DEF revs, Reverts
    <2>4. target[n] \in Commit1
      BY <1>1, <2>3 DEF Target, tip
    <2>5. target[n] = [tree |-> x.revert, by |-> u]
      BY <2>2, <2>3, <2>4 DEF Commit1
    <2>6. tip > x.tip
      <3>1. x.tip \in Nat /\ tip \in Nat
        BY <1>1, <1>4, Trees DEF UndoState
      <3> QED
        BY <2>2, <2>3, <3>1
    <2> QED
      BY <1>11, <2>2, <2>5, <2>6 DEF in_target
  <1>12. CASE in_target(u) /\ log_undo(u, y) /\ UNCHANGED <<undo, undone>>
    <2>1. /\ Grows /\ Target' /\ Logged' /\ Landing' /\ Alone' /\ u \in ids' /\ revs' = revs
      BY <1>4, <1>5, <1>7, <1>10, <1>12, Lined
    <2>2. One(u)'
      <3>1. Leaves(u)
        BY <1>7, <1>9, <1>12, <2>1 DEF Leaves
      <3> QED
        BY <1>7, <2>1, <3>1, Left
    <2>3. Flags' /\ shown' \in [Lands -> SUBSET Fps]
      BY <1>1, <1>7, <1>12 DEF Flags, World
    <2> QED
      BY <1>7, <1>12, <2>1, <2>2, <2>3, Beside
  <1>13. ASSUME NEW z \in {"held", "done"}, save(u, over(y, z)), log' = log, NEW d, undone' = d,
                undone \subseteq d, d \subseteq Lands,
                z = "held" => revs[u] = {}, z = "done" => revs[u] # {} /\ u \in ids /\ x.undoes \in d
         PROVE  Inv'
    <2> DEFINE w == over(y, z)
    <2>1. w \in UndoState /\ w.state = z /\ ~w.checked /\ w.undoes = x.undoes /\ w.revert = None
      BY <1>5, <1>13, Over
    <2>2. Sound(seen, u, w)
      BY <1>1, <1>8, <1>13, SoundOver
    <2> HIDE DEF w
    <2>3. w # None
      BY <2>1, UndoAssumption
    <2>4. Around(u)
      BY <1>1, <1>7, <1>13 DEF Around, World
    <2>5. Turn(u, w, p, k, c, "none", None)
      BY <1>1, <1>2, <1>3, <1>7, <1>9, <1>13, <2>1, Saves DEF Turn, Flags, w
    <2>6. FileOf(seen, u, w)
      BY <1>4, <1>13, <2>1, <2>2 DEF FileOf
    <2>7. CopyOf(seen, u, w, p, k, c) /\ CallOf(w, p)
      BY <1>2, <1>3, <1>13 DEF CopyOf, CallOf, Copied
    <2>8. LandedOf(d, u, w, p)
      BY <1>2, <1>3, <1>13, <2>1, <2>3 DEF LandedOf
    <2>9. LockOf(lock, u, w, p)
      BY <1>2, <1>3, UndoAssumption DEF LockOf, Locking
    <2>10. JobOf(w, p, k, "none") /\ CardOf(w, p, k, None)
      BY DEF JobOf, CardOf, Fps
    <2>11. Fits(seen, d, lock, u, w, p, k, c, "none", None)
      BY <2>6, <2>7, <2>8, <2>9, <2>10 DEF Fits
    <2>12. /\ Recalls(seen, u) /\ d \subseteq undone' /\ (lock' = u <=> lock = u)
           /\ undo[u] # None /\ w # None /\ w.undoes = undo[u].undoes
           /\ (open(w) => open(undo[u]) \/ revs[u] # {})
      BY <1>4, <1>7, <1>9, <1>13, <2>1, <2>3 DEF open, in_progress
    <2> HIDE DEF x, k, c, p
    <2> QED
      BY <2>4, <2>5, <2>11, <2>12, Acts
  <1>14. CASE in_target(u) /\ has(log, u) /\ UNCHANGED log /\ undone' = undone \cup {y.undoes} /\ save(u, over(y, "done"))
    <2>1. u \in ids
      BY <1>14 DEF has, ids
    <2>2. undone' \subseteq Lands
      BY <1>1, <1>4, <1>5, <1>14 DEF World
    <2> QED
      BY <1>5, <1>10, <1>13, <1>14, <2>1, <2>2
  <1>15. CASE ~in_target(u) /\ save(u, over(y, "held")) /\ UNCHANGED <<log, undone>>
    BY <1>1, <1>11, <1>13, <1>15 DEF World
  <1> QED
    BY <1>6, <1>12, <1>14, <1>15

-------------------------------------------------------------------------------
(* A new undo, or a held one resumed.                                       *)

LEMMA Starts ==
  ASSUME NEW u, NEW l \in Lands, NEW by \in {"coordinator", "human"}, NEW fp \in Fps,
         undo[u] # None => undo[u] \in UndoState
  PROVE  LET y == start_state(u, l, by, fp) IN
         /\ y \in UndoState /\ y.undoes = l /\ y.by = by /\ y.state = "locking" /\ y.tip = 0
         /\ y.revert = None /\ ~y.checked /\ y.attempts = 0 /\ y.shown = fp
         /\ y.approved = IF undo[u] = None THEN None ELSE undo[u].approved
  <1> DEFINE a == IF undo[u] = None THEN None ELSE undo[u].approved
             y == start_state(u, l, by, fp)
  <1>1. a \in Fps
    BY DEF UndoState, Fps
  <1>2. 0 \in 0..MaxAttempts
    BY Limits
  <1>3. y = [undoes |-> l, by |-> by, state |-> "locking", tip |-> 0, revert |-> None, checked |-> FALSE,
             attempts |-> 0, approved |-> a, shown |-> fp, same |-> TRUE]
    BY DEF start_state
  <1> HIDE DEF a, y
  <1>4. \A z \in States, b \in BOOLEAN, e \in BOOLEAN, n \in 0..MaxAttempts, r \in (SUBSET Changes) \cup {None} :
          [undoes |-> l, by |-> by, state |-> z, tip |-> 0, revert |-> r, checked |-> b,
           attempts |-> n, approved |-> a, shown |-> fp, same |-> e] \in UndoState
    BY <1>1 DEF UndoState
  <1>5. "locking" \in States /\ FALSE \in BOOLEAN /\ TRUE \in BOOLEAN
    BY DEF States
  <1>6. y \in UndoState
    BY <1>2, <1>3, <1>4, <1>5
  <1> QED
    BY <1>3, <1>6 DEF y, a

LEMMA BeginInv ==
  ASSUME Inv, NEW u \in Undos, NEW l \in Lands, NEW by \in {"coordinator", "human"}, NEW fp \in Fps,
         Begin(u, l, by, fp), seen \subseteq seen', seen' \subseteq Undos \X Fps,
         by = "human" => <<u, fp>> \in seen', by = "coordinator" => fp = None,
         shown' \in [Lands -> SUBSET Fps],
         \/ task' = [task EXCEPT ![u] = Driving]
         \/ task' = [task EXCEPT ![u] = [Idle EXCEPT !.pc = "refused", !.u = undo'[u]]]
  PROVE  Inv'
  <1> DEFINE x == undo[u]
             k == task[u].u
             c == task[u].check
             p == task[u].pc
             y == start_state(u, l, by, fp)
             r == [Idle EXCEPT !.pc = "refused", !.u = y]
  <1>1. /\ Flags /\ World /\ One(u) /\ Target /\ Alone /\ Logged
    BY DEF Inv
  <1>2. /\ task[u] \in Calls /\ FileOf(seen, u, x) /\ CopyOf(seen, u, x, p, k, c)
        /\ CallOf(x, p) /\ LandedOf(undone, u, x, p)
        /\ LockOf(lock, u, x, p) /\ JobOf(x, p, k, job[u])
        /\ CardOf(x, p, k, card[u]) /\ up = "up"
    BY <1>1 DEF One, Begin
  <1>3. \/ x = None /\ prior(l) = {}
        \/ x # None /\ x.undoes = l /\ x.state = "held" /\ u \in prior(l)
    <2>1. CASE prior(l) = {}
      <3>1. u \in fresh
        BY <2>1 DEF Begin
      <3> QED
        BY <2>1, <3>1 DEF fresh
    <2>2. CASE prior(l) # {}
      <3>1. u \in prior(l) /\ undo[u].state = "held"
        BY <2>2 DEF Begin
      <3>2. open(undo[u]) /\ undo[u].undoes = l
        BY <3>1 DEF prior
      <3> QED
        BY <3>1, <3>2 DEF open, in_progress
    <2> QED
      BY <2>1, <2>2
  <1>4. p \in {"idle", "post"}
    BY <1>2, <1>3 DEF Calls, CallOf, CopyOf, Copied
  <1>5. revs[u] = {} /\ lock # u /\ job[u] = "none" /\ card[u] = None
    <2>1. revs[u] = {}
      BY <1>2, <1>3 DEF LandedOf
    <2>2. lock # u
      BY <1>2, <1>3, <1>4 DEF LockOf, Locking
    <2>3. job[u] = "none"
      BY <1>2, <1>3, <1>4 DEF JobOf
    <2>4. card[u] = None
      BY <1>2, <1>3, <1>4 DEF CardOf
    <2> QED
      BY <2>1, <2>2, <2>3, <2>4
  <1>6. x # None => x \in UndoState /\ Sound(seen, u, x)
    BY <1>2 DEF FileOf, Sound
  <1>7. /\ y \in UndoState /\ y.undoes = l /\ y.by = by /\ y.state = "locking" /\ y.tip = 0
        /\ y.revert = None /\ ~y.checked /\ y.attempts = 0 /\ y.shown = fp
        /\ y.approved = IF x = None THEN None ELSE x.approved
    <2>1. undo[u] # None => undo[u] \in UndoState
      BY <1>6
    <2> QED
      BY <2>1, Starts
  <1>8. undo' = [undo EXCEPT ![u] = y]
    BY DEF Begin
  <1> HIDE DEF y
  <1>9. y # None
    BY <1>7, UndoAssumption
  <1>10. \A v \in Undos : Recalls(seen, v)
    BY DEF Recalls
  <1>11. Sound(seen', u, y)
    <2>1. y.tip <= tip
      BY <1>1, <1>7, Trees
    <2>2. y.approved # None => <<u, y.approved>> \in seen'
      BY <1>6, <1>7 DEF Sound
    <2>3. y.by = "human" => <<u, y.shown>> \in seen'
      BY <1>7
    <2> QED
      BY <1>7, <2>1, <2>2, <2>3 DEF Sound
  <1>12. l \in ids /\ undone_by(log, l) = {}
    BY DEF Begin, resolve, has, ids
  <1>13. FileOf(seen', u, y)
    BY <1>7, <1>11, <1>12, Limits DEF FileOf
  <1>14. Around(u)
    BY <1>1, <1>2 DEF Around, Begin, World, rest
  <1>15. Alone'
    <2>1. ASSUME NEW v \in Undos \ {u}, Live(v), undo[v].undoes = l PROVE FALSE
      <3>1. CASE open(undo[v])
        <4>1. v \in prior(l) /\ prior(l) # {}
          BY <2>1, <3>1 DEF prior
        <4>2. Live(u) /\ undo[u].undoes = l
          BY <1>3, <4>1 DEF Live, open
        <4> QED
          BY <1>1, <2>1, <4>2 DEF Alone
      <3>2. CASE ~open(undo[v])
        <4>1. revs[v] # {} /\ undo[v] # None /\ LandedOf(undone, v, undo[v], task[v].pc)
          BY <2>1, <3>2 DEF Live, Inv, One
        <4>2. undo[v].state = "done"
          BY <3>2, <4>1 DEF LandedOf, open, in_progress
        <4>3. v \in ids
          BY <4>1, <4>2 DEF LandedOf
        <4>4. PICK i \in DOMAIN log : log[i].id = v
          BY <4>3 DEF ids
        <4>5. LineOf(log[i])
          BY <1>1 DEF Logged
        <4>6. log[i].kind = "undo" /\ log[i].undoes = l
          BY <2>1, <4>4, <4>5 DEF LineOf
        <4>7. log[i].id \in undone_by(log, l)
          BY <4>6 DEF undone_by
        <4> QED
          BY <1>12, <4>7
      <3> QED
        BY <3>1, <3>2
    <2>2. revs' = revs
      BY <1>14, Still DEF Around
    <2>3. \A v \in Undos \ {u} : undo'[v] = undo[v] /\ (Live(v)' <=> Live(v))
      BY <1>1, <1>8, <2>2 DEF Flags, Live
    <2>4. undo'[u].undoes = l
      BY <1>1, <1>7, <1>8 DEF Flags
    <2>5. \A v \in Undos \ {u} : ~(Live(v)' /\ undo'[v].undoes = l)
      BY <2>1, <2>3
    <2> QED
      BY <1>1, <2>3, <2>4, <2>5 DEF Alone
  <1>16. CHECK \in BOOLEAN
    BY <1>1 DEF Flags
  <1>17. undo' \in [Undos -> UndoState \cup {None}] /\ undo'[u] = y
         /\ \A v \in Undos \ {u} : undo'[v] = undo[v]
    BY <1>1, <1>7, <1>8 DEF Flags
  <1>18. ASSUME NEW q \in {"drive", "refused"}, NEW b, NEW w, task'[u] \in Calls, task'[u].pc = q,
                task'[u].u = w, task'[u].check = b, DOMAIN task' = Undos,
                \A v \in Undos \ {u} : task'[v] = task[v], q = "refused" => w = y
         PROVE  Inv'
    <2>1. Turn(u, y, q, w, b, "none", None)
      BY <1>1, <1>5, <1>10, <1>17, <1>18 DEF Turn, Begin, Flags
    <2>2. CopyOf(seen', u, y, q, w, b) /\ CallOf(y, q)
      BY <1>2, <1>7, <1>9, <1>11, <1>18 DEF CopyOf, CallOf, Copied
    <2>3. LandedOf(undone, u, y, q) /\ LockOf(lock, u, y, q)
      BY <1>5, <1>7, <1>9, <1>18 DEF LandedOf, LockOf, Locking
    <2>4. JobOf(y, q, w, "none") /\ CardOf(y, q, w, None)
      BY DEF JobOf, CardOf, Fps
    <2>5. Fits(seen', undone, lock, u, y, q, w, b, "none", None)
      BY <1>13, <2>2, <2>3, <2>4 DEF Fits
    <2>6. /\ Recalls(seen', u) /\ undone \subseteq undone' /\ (lock' = u <=> lock = u)
          /\ (undo[u] # None => y.undoes = undo[u].undoes)
      BY <1>3, <1>7 DEF Recalls, Begin
    <2> HIDE DEF x, k, c, p
    <2> QED
      BY <1>9, <1>14, <1>15, <2>1, <2>5, <2>6, ActsAlone
  <1>19. CASE task' = [task EXCEPT ![u] = Driving]
    <2>1. Driving \in Calls /\ Driving.pc = "drive" /\ Driving.u = None /\ Driving.check = CHECK
      BY <1>16 DEF Driving, Idle, Calls
    <2> QED
      BY <1>1, <1>18, <1>19, <2>1 DEF Flags
  <1>20. CASE task' = [task EXCEPT ![u] = r]
    <2>1. r \in Calls /\ r.pc = "refused" /\ r.u = y /\ r.check = FALSE
      BY <1>7 DEF Idle, Calls, Copied
    <2> QED
      BY <1>1, <1>18, <1>20, <2>1 DEF Flags
  <1> QED
    BY <1>17, <1>19, <1>20

LEMMA UndoesInv ==
  ASSUME Inv, NEW u \in Undos, NEW l \in Lands, CoordinatorUndoes(u, l) \/ HumanUndoes(u, l)
  PROVE  Inv'
  <1>1. World
    BY DEF Inv
  <1>2. CASE CoordinatorUndoes(u, l)
    <2>1. None \in Fps
      BY DEF Fps
    <2>2. Begin(u, l, "coordinator", None) /\ UNCHANGED <<shown, seen>>
      BY <1>2 DEF CoordinatorUndoes
    <2>3. \/ task' = [task EXCEPT ![u] = Driving]
          \/ task' = [task EXCEPT ![u] = [Idle EXCEPT !.pc = "refused", !.u = undo'[u]]]
      BY <1>2 DEF CoordinatorUndoes
    <2>4. seen' \subseteq Undos \X Fps /\ shown' \in [Lands -> SUBSET Fps]
      BY <1>1, <2>2 DEF World
    <2> QED
      BY <2>1, <2>2, <2>3, <2>4, BeginInv
  <1>3. CASE HumanUndoes(u, l)
    <2>1. PICK fp \in shown[l] : /\ Begin(u, l, "human", fp) /\ task' = [task EXCEPT ![u] = Driving]
                                 /\ seen' = seen \cup {<<u, fp>>} /\ shown' = [shown EXCEPT ![l] = {}]
      BY <1>3 DEF HumanUndoes
    <2>2. fp \in Fps
      BY <1>1, <2>1 DEF World
    <2>3. seen' \subseteq Undos \X Fps /\ shown' \in [Lands -> SUBSET Fps]
      BY <1>1, <2>1, <2>2 DEF World
    <2> QED
      BY <2>1, <2>2, <2>3, BeginInv
  <1> QED
    BY <1>2, <1>3

-------------------------------------------------------------------------------
(* The world's steps, which leave every undo as it is.                      *)

LEMMA Aside ==
  ASSUME Inv, Grows, up' = up, UNCHANGED <<undo, task, job, card, seen, undone>>, CHECK' \in BOOLEAN,
         \A v \in Undos : (lock' = v <=> lock = v) /\ revs'[v] = revs[v],
         Target', Logged', Landing', shown' \in [Lands -> SUBSET Fps], RUNNING' \in 0..tip',
         lock' \in Lands \cup Undos \cup {None}, up # "up" => lock' = None
  PROVE  Inv'
  <1>1. World /\ Flags /\ Alone
    BY DEF Inv
  <1>2. ASSUME NEW v \in Undos PROVE One(v)'
    <2>1. Leaves(v)
      BY DEF Leaves, Recalls
    <2> QED
      BY <2>1, Left
  <1>3. World' /\ Flags'
    BY <1>1 DEF World, Flags
  <1>4. Alone'
    BY <1>1, AloneKept DEF Live
  <1> QED
    BY <1>2, <1>3, <1>4 DEF Inv

\* One that leaves the target and the log as well.
LEMMA AsideStill ==
  ASSUME Inv, UNCHANGED <<target, log, undo, undone, task, lock, job, card, up, seen, landing>>,
         CHECK' \in BOOLEAN, shown' \in [Lands -> SUBSET Fps], RUNNING' \in 0..tip
  PROVE  Inv'
  <1>1. Target /\ Logged /\ World /\ Landing
    BY DEF Inv
  <1>2. Grows
    BY <1>1, StillGrows
  <1>3. revs' = revs /\ tip' = tip
    BY Still
  <1>4. Target'
    BY <1>1, <1>3 DEF Target
  <1>5. Logged'
    BY <1>1, <1>2, <1>3, Logs
  <1>6. Landing'
    BY <1>1, <1>2, LandingKept
  <1>7. lock' \in Lands \cup Undos \cup {None} /\ (up # "up" => lock' = None)
    BY <1>1 DEF World
  <1> QED
    BY <1>2, <1>3, <1>4, <1>5, <1>6, <1>7, Aside

LEMMA Runs == ASSUME World, Target, base_check PROVE RUNNING' \in 0..tip
  <1>1. tip \in Nat
    BY DEF Target, tip
  <1> QED
    BY <1>1 DEF World, base_check

LEMMA PreviewInv == ASSUME Inv, NEW l \in Lands, Preview(l) PROVE Inv'
  <1>1. World /\ Flags
    BY DEF Inv
  <1>2. shown' \in [Lands -> SUBSET Fps]
    BY <1>1, CaughtFps DEF Preview
  <1> QED
    BY <1>1, <1>2, AsideStill DEF Preview, World, Flags, world

LEMMA LandFailsInv == ASSUME Inv, NEW l \in Lands, LandFails(l) PROVE Inv'
  <1>1. World /\ Flags /\ Target
    BY DEF Inv
  <1>2. RUNNING' \in 0..tip
    BY <1>1, Runs DEF LandFails
  <1> QED
    BY <1>1, <1>2, AsideStill DEF LandFails, World, Flags

LEMMA SetCheckInv == ASSUME Inv, SetCheck PROVE Inv'
  <1>1. World
    BY DEF Inv
  <1> QED
    BY <1>1, AsideStill DEF SetCheck, World

\* A commit on the target that no undo made.
LEMMA MovesTarget ==
  ASSUME Inv, NEW c \in Commit1, c.by \notin Undos, target' = Append(target, c),
         UNCHANGED <<log, undo, undone, task, job, card, shown, RUNNING, up, seen, CHECK>>,
         Landing', lock' = lock \/ (lock \notin Undos /\ lock' \in Lands /\ up = "up")
  PROVE  Inv'
  <1>1. Target /\ Logged /\ World /\ Flags
    BY DEF Inv
  <1>2. Grows
    BY <1>1, ExtendsGrows
  <1>3. Target' /\ \A u \in Undos : revs'[u] = revs[u]
    BY <1>1, Extends
  <1>4. Logged'
    BY <1>1, <1>2, <1>3, Logs
  <1>5. RUNNING' \in 0..tip'
    <2>1. tip \in Nat /\ tip' \in Nat /\ tip <= tip' /\ RUNNING' \in 0..tip
      BY <1>1, <1>2 DEF Grows, World, Target, tip
    <2> QED
      BY <2>1
  <1>6. \A v \in Undos : lock' = v <=> lock = v
    BY UndoAssumption
  <1>7. /\ lock' \in Lands \cup Undos \cup {None} /\ (up # "up" => lock' = None)
        /\ shown' \in [Lands -> SUBSET Fps] /\ CHECK' \in BOOLEAN
    BY <1>1 DEF World, Flags
  <1> QED
    BY <1>2, <1>3, <1>4, <1>5, <1>6, <1>7, Aside

LEMMA LandMovesInv == ASSUME Inv, NEW l \in Lands, LandMoves(l) PROVE Inv'
  <1> DEFINE c == [tree |-> merged(l), by |-> l]
             ck == IF CHECK THEN "passed" ELSE ""
  <1>1. Target /\ Logged
    BY DEF Inv
  <1>2. tip \in Nat /\ tip >= 1 /\ tree(tip) \in SUBSET Changes
    BY <1>1, Trees
  <1>3. merged(l) \in SUBSET Changes
    BY <1>2 DEF merged, Changes
  <1>4. c \in Commit1 /\ c.by = l
    BY <1>3 DEF Commit1
  <1>5. /\ target' = Append(target, c) /\ log' = log /\ lock = None /\ lock' = l /\ up = "up" /\ up' = up
        /\ landing' = [who |-> l, at |-> tip + 1, check |-> ck] /\ ~landed(l)
    BY DEF LandMoves
  <1> HIDE DEF c
  <1>6. tip' = tip + 1 /\ makers' = makers \cup {l} /\ ids' = ids
    BY <1>1, <1>4, <1>5, Extends
  <1>7. l \notin ids
    <2>1. l \notin makers
      BY <1>5 DEF landed, makers
    <2> QED
      BY <1>1, <2>1, Entries
  <1>8. Landing'
    <2>1. ck \in {"passed", ""}
      OBVIOUS
    <2> HIDE DEF ck
    <2>2. tip + 1 \in Nat /\ tip + 1 \in 2..tip'
      BY <1>2, <1>6
    <2>3. landing' \in [who : Lands, at : Nat, check : {"passed", ""}] /\ landing'.who = l
          /\ landing'.at = tip + 1
      BY <1>5, <2>1, <2>2
    <2> QED
      BY <1>5, <1>6, <1>7, <2>2, <2>3 DEF Landing
  <1>9. l \notin Undos /\ lock \notin Undos
    BY <1>5, UndoAssumption
  <1> QED
    BY <1>4, <1>5, <1>8, <1>9, MovesTarget DEF LandMoves

LEMMA CommitInv == ASSUME Inv, NEW c \in Foreign, Commit(c) PROVE Inv'
  <1> DEFINE t == IF c \in tree(tip) THEN tree(tip) \ {c} ELSE tree(tip) \cup {c}
             m == [tree |-> t, by |-> Human]
  <1>1. Target /\ Logged /\ Landing
    BY DEF Inv
  <1>2. tree(tip) \in SUBSET Changes
    BY <1>1, Trees
  <1>3. t \in SUBSET Changes
    BY <1>2 DEF Changes
  <1> HIDE DEF t
  <1>4. m \in Commit1 /\ m.by = Human
    BY <1>3 DEF Commit1
  <1>5. target' = Append(target, m) /\ log' = log /\ lock' = lock /\ up' = up /\ landing' = landing
        /\ undone' = undone
    BY DEF Commit, t
  <1> HIDE DEF m
  <1>6. Grows
    BY <1>1, <1>4, <1>5, ExtendsGrows
  <1>7. Landing'
    BY <1>1, <1>5, <1>6, LandingKept
  <1>8. Human \notin Undos
    BY UndoAssumption
  <1> QED
    BY <1>4, <1>5, <1>7, <1>8, MovesTarget DEF Commit

\* A line that no undo wrote.
LEMMA WritesLog ==
  ASSUME Inv, NEW e \in Line1, e.id = None \/ e.id \notin ids, LineOf(e), log' = Append(log, e),
         UNCHANGED <<target, undo, undone, task, job, card, shown, up, seen, CHECK>>,
         Landing', RUNNING' \in 0..tip, lock' = lock \/ (lock \notin Undos /\ lock' = None)
  PROVE  Inv'
  <1>1. Target /\ Logged /\ World /\ Flags
    BY DEF Inv
  <1>2. Grows
    BY <1>1, WritesGrows
  <1>3. tip' = tip /\ revs' = revs
    BY <1>1, Writes
  <1>4. Target'
    BY <1>1, <1>3 DEF Target
  <1>5. Logged'
    BY <1>1, Noted
  <1>6. \A v \in Undos : lock' = v <=> lock = v
    BY UndoAssumption
  <1>7. /\ lock' \in Lands \cup Undos \cup {None} /\ (up # "up" => lock' = None)
        /\ shown' \in [Lands -> SUBSET Fps] /\ CHECK' \in BOOLEAN
    BY <1>1 DEF World, Flags
  <1> QED
    BY <1>2, <1>3, <1>4, <1>5, <1>6, <1>7, Aside

LEMMA IsLine ==
  ASSUME NEW i \in Lands \cup Undos \cup {None}, NEW k \in {"land", "undo", "base_check"},
         NEW l \in Lands \cup {None}, NEW n \in Nat, NEW z \in {"passed", "failed", ""}, NEW b \in BOOLEAN
  PROVE  [id |-> i, kind |-> k, undoes |-> l, at |-> n, check |-> z, same |-> b] \in Line1
  BY DEF Line1

LEMMA LandLoggedInv == ASSUME Inv, LandLogged PROVE Inv'
  <1> DEFINE b == up = "settling" \/ tree(tip) = tree(landing.at)
             e == Line(landing.who, "land", None, landing.at, landing.check, b)
  <1>1. Target /\ Logged /\ World /\ Landing
    BY DEF Inv
  <1>2. /\ landing.who \in Lands /\ landing.at \in 2..tip /\ landing.check \in {"passed", ""}
        /\ landing.who \notin ids /\ landing.who \in makers /\ (up = "up" => lock = landing.who)
    BY <1>1 DEF Landing, LandLogged
  <1>3. b \in BOOLEAN
    OBVIOUS
  <1>4. log' = Append(log, e)
    BY DEF LandLogged
  <1> HIDE DEF b
  <1>5. e = [id |-> landing.who, kind |-> "land", undoes |-> None, at |-> landing.at,
             check |-> landing.check, same |-> b]
    BY DEF Line
  <1> HIDE DEF e
  <1>6. e \in Line1
    <2>1. tip \in Nat
      BY <1>1, Trees
    <2>2. landing.at \in Nat /\ landing.check \in {"passed", "failed", ""}
      <3>1. landing.at \in 2..tip
        BY <1>2
      <3>2. landing.at \in Nat
        BY <2>1, <3>1
      <3> QED
        BY <1>2, <3>2
    <2>3. landing.who \in Lands \cup Undos \cup {None} /\ None \in Lands \cup {None}
          /\ "land" \in {"land", "undo", "base_check"}
      BY <1>2
    <2> QED
      BY <1>3, <1>5, <2>2, <2>3, IsLine
  <1>7. LineOf(e) /\ e.id \notin ids
    <2>1. tip \in Nat
      BY <1>1, Trees
    <2>2. e.at \in 1..tip /\ e.at >= 2
      <3>1. e.at = landing.at
        BY <1>5
      <3>2. landing.at \in 2..tip
        BY <1>2
      <3> QED
        BY <2>1, <3>1, <3>2
    <2> QED
      BY <1>2, <1>5, <2>2, UndoAssumption DEF LineOf
  <1>8. lock \notin Undos
    BY <1>1, <1>2, UndoAssumption DEF World
  <1>9. Landing'
    BY DEF LandLogged, Landing
  <1>10. RUNNING' \in 0..tip
    BY <1>1, Runs DEF LandLogged, World
  <1> QED
    BY <1>4, <1>6, <1>7, <1>8, <1>9, <1>10, WritesLog DEF LandLogged

LEMMA BaseEndsInv == ASSUME Inv, BaseEnds PROVE Inv'
  <1> DEFINE ck == IF tree(RUNNING) \cap Bad = {} THEN "passed" ELSE "failed"
             e == Line(None, "base_check", None, RUNNING, ck, TRUE)
  <1>1. Target /\ Logged /\ World /\ Flags /\ Landing
    BY DEF Inv
  <1>2. tip \in Nat /\ 0 \in 0..tip /\ RUNNING \in 1..tip
    <2>1. tip \in Nat /\ RUNNING \in 0..tip /\ RUNNING # 0
      BY <1>1, Trees DEF World, BaseEnds
    <2> QED
      BY <2>1
  <1>3. CASE log' = log
    BY <1>1, <1>2, <1>3, AsideStill DEF BaseEnds, World, Flags, rest
  <1>4. CASE log' = Append(log, e)
    <2>1. ck \in {"passed", "failed", ""}
      OBVIOUS
    <2> HIDE DEF ck
    <2>2. e = [id |-> None, kind |-> "base_check", undoes |-> None, at |-> RUNNING, check |-> ck, same |-> TRUE]
      BY DEF Line
    <2> HIDE DEF e
    <2>3. e \in Line1
      <3>1. RUNNING \in Nat /\ None \in Lands \cup Undos \cup {None} /\ None \in Lands \cup {None}
            /\ "base_check" \in {"land", "undo", "base_check"} /\ TRUE \in BOOLEAN
        BY <1>2
      <3> QED
        BY <2>1, <2>2, <3>1, IsLine
    <2>4. LineOf(e)
      BY <1>2, <2>2, UndoAssumption DEF LineOf
    <2>5. e.id = None
      BY <2>2
    <2>6. target' = target /\ landing' = landing /\ up' = up /\ lock' = lock /\ undone' = undone
      BY DEF BaseEnds, rest
    <2>7. Landing'
      <3>1. ids' = ids \cup {None} /\ makers' = makers /\ tip' = tip
        BY <1>1, <1>4, <2>3, <2>5, <2>6, Writes
      <3>2. None \notin Lands
        BY UndoAssumption
      <3> QED
        BY <1>1, <2>6, <3>1, <3>2 DEF Landing
    <2> QED
      BY <1>2, <1>4, <2>3, <2>4, <2>5, <2>6, <2>7, WritesLog DEF BaseEnds, rest
  <1> QED
    BY <1>3, <1>4 DEF BaseEnds

-------------------------------------------------------------------------------
(* maiTerm dies, and comes up again.                                        *)

\* An undo that no call works on.
LEMMA Rests ==
  ASSUME Inv, UNCHANGED <<target, log, undo, undone, seen>>, NEW u \in Undos,
         task'[u] \in Calls, task'[u].pc = "idle", job'[u] = "none", lock' = None,
         CardOf(undo[u], task[u].pc, task[u].u, card[u])',
         up' # "up" \/ undo[u] = None \/ ~in_progress(undo[u])
  PROVE  One(u)'
  <1>1. Target /\ One(u)
    BY DEF Inv
  <1>2. Grows
    BY <1>1, StillGrows
  <1>3. FileOf(seen, u, undo[u])'
    BY <1>1, <1>2, FileKept DEF One, Recalls
  <1>4. CopyOf(seen, u, undo[u], task[u].pc, task[u].u, task[u].check)'
    BY DEF CopyOf, Copied
  <1>5. CallOf(undo[u], task[u].pc)'
    BY DEF CallOf, in_progress
  <1>6. LandedOf(undone, u, undo[u], task[u].pc)'
    <2>1. LandedOf(undone, u, undo[u], task[u].pc)
      BY <1>1 DEF One
    <2>2. revs' = revs /\ ids' = ids
      BY Still
    <2> QED
      BY <2>1, <2>2 DEF LandedOf
  <1>7. LockOf(lock, u, undo[u], task[u].pc)'
    BY UndoAssumption DEF LockOf, Locking, in_progress
  <1>8. JobOf(undo[u], task[u].pc, task[u].u, job[u])'
    BY DEF JobOf
  <1> QED
    BY <1>3, <1>4, <1>5, <1>6, <1>7, <1>8 DEF One

LEMMA AllRest ==
  ASSUME Inv, UNCHANGED <<target, log, undo, undone, seen, landing, CHECK>>,
         up' \in {"up", "down", "settling"}, lock' = None, up' = "up" => landing = None,
         shown' \in [Lands -> SUBSET Fps], RUNNING' \in 0..tip,
         DOMAIN task' = Undos, DOMAIN job' = Undos, DOMAIN card' = Undos,
         \A u \in Undos : One(u)'
  PROVE  Inv'
  <1>1. Target /\ Logged /\ World /\ Landing /\ Flags /\ Alone
    BY DEF Inv
  <1>2. Grows
    BY <1>1, StillGrows
  <1>3. revs' = revs /\ tip' = tip /\ ids' = ids /\ makers' = makers
    BY Still
  <1>4. Target'
    BY <1>1, <1>3 DEF Target
  <1>5. Logged'
    BY <1>1, <1>2, <1>3, Logs
  <1>6. Landing'
    BY <1>1, <1>3 DEF Landing
  <1>7. World' /\ Flags'
    BY <1>1, <1>3 DEF World, Flags
  <1>8. Alone'
    BY <1>1, <1>3, AloneKept DEF Live
  <1> QED
    BY <1>4, <1>5, <1>6, <1>7, <1>8 DEF Inv

LEMMA CrashInv == ASSUME Inv, Crash PROVE Inv'
  <1>1. Target /\ World
    BY DEF Inv
  <1>2. /\ task' = [u \in Undos |-> Idle] /\ job' = [u \in Undos |-> "none"] /\ card' = [u \in Undos |-> None]
        /\ shown' = [l \in Lands |-> {}] /\ lock' = None /\ RUNNING' = 0 /\ up' = "down"
        /\ UNCHANGED <<target, log, undo, undone, seen, landing, CHECK>>
    BY DEF Crash
  <1>3. Idle \in Calls /\ Idle.pc = "idle"
    BY DEF Idle, Calls
  <1>4. ASSUME NEW u \in Undos PROVE One(u)'
    <2>1. task'[u] \in Calls /\ task'[u].pc = "idle" /\ job'[u] = "none" /\ card'[u] = None
      BY <1>2, <1>3
    <2>2. CardOf(undo[u], task[u].pc, task[u].u, card[u])'
      BY <2>1 DEF CardOf, Fps
    <2> QED
      BY <1>2, <2>1, <2>2, Rests
  <1>5. shown' \in [Lands -> SUBSET Fps] /\ RUNNING' \in 0..tip
    BY <1>1, <1>2, Trees
  <1> QED
    BY <1>2, <1>4, <1>5, AllRest

\* Before tabs come up nothing works on an undo, and nothing has the lock.
LEMMA Quiet ==
  ASSUME Inv, up # "up", NEW u \in Undos
  PROVE  /\ task[u] \in Calls /\ task[u].pc = "idle" /\ job[u] = "none" /\ card[u] = None
         /\ lock = None
  BY DEF Inv, World, One, CallOf, JobOf, CardOf

LEMMA RestartInv == ASSUME Inv, Restart PROVE Inv'
  <1>1. World /\ Flags
    BY DEF Inv
  <1>2. /\ up = "down" /\ up' = "settling" /\ task' = task /\ job' = job /\ card' = card /\ lock' = lock
        /\ shown' = shown /\ RUNNING' = RUNNING
        /\ UNCHANGED <<target, log, undo, undone, seen, landing, CHECK>>
    BY DEF Restart, world
  <1>3. ASSUME NEW u \in Undos PROVE One(u)'
    <2>1. task'[u] \in Calls /\ task'[u].pc = "idle" /\ job'[u] = "none" /\ card'[u] = None /\ lock' = None
      BY <1>2, Quiet
    <2>2. CardOf(undo[u], task[u].pc, task[u].u, card[u])'
      BY <2>1 DEF CardOf, Fps
    <2> QED
      BY <1>2, <2>1, <2>2, Rests
  <1> QED
    BY <1>1, <1>2, <1>3, AllRest DEF World, Flags

LEMMA RefileInv == ASSUME Inv, Refile PROVE Inv'
  <1>1. World /\ Flags
    BY DEF Inv
  <1>2. /\ up = "settling" /\ up' = "up" /\ task' = task /\ job' = job /\ lock' = lock
        /\ shown' = shown /\ RUNNING' = RUNNING /\ landing = None
        /\ UNCHANGED <<target, log, undo, undone, seen, landing, CHECK>>
        /\ card' = [u \in Undos |-> IF undo[u] # None /\ undo[u].state = "awaiting_human"
                                    THEN config_fp(undo[u]) ELSE None]
        /\ \A u \in Undos : ~in_progress(undo[u])
    BY DEF Refile, world
  <1>3. lock' = None
    BY <1>1, <1>2 DEF World
  <1>4. ASSUME NEW u \in Undos PROVE One(u)'
    <2>1. task'[u] \in Calls /\ task'[u].pc = "idle" /\ job'[u] = "none"
      BY <1>2, Quiet
    <2>2. CardOf(undo[u], task[u].pc, task[u].u, card[u])'
      <3>1. card'[u] = IF undo'[u] # None /\ undo'[u].state = "awaiting_human"
                       THEN change(undo[u])' ELSE None
        BY <1>2 DEF config_fp, change, tree
      <3>2. change(undo[u])' \in Fps /\ None \in Fps
        BY CaughtFps DEF change, Fps
      <3> QED
        BY <1>2, <2>1, <3>1, <3>2 DEF CardOf
    <2>3. ~in_progress(undo[u])
      BY <1>2
    <2> QED
      BY <1>2, <1>3, <2>1, <2>2, <2>3, Rests
  <1> QED
    BY <1>1, <1>2, <1>3, <1>4, AllRest DEF World, Flags

-------------------------------------------------------------------------------
(* The invariant, always.                                                   *)

LEMMA InitInv == ASSUME Init PROVE Inv
  <1> DEFINE c == [tree |-> Root, by |-> Human]
  <1>1. /\ target = <<c>> /\ log = <<>> /\ undone = {} /\ seen = {}
        /\ undo = [u \in Undos |-> None] /\ task = [u \in Undos |-> Idle]
        /\ lock = None /\ landing = None /\ RUNNING = 0 /\ up = "up"
        /\ job = [u \in Undos |-> "none"] /\ card = [u \in Undos |-> None]
        /\ shown = [l \in Lands |-> {}] /\ CHECK \in BOOLEAN
    BY DEF Init
  <1>2. c \in Commit1 /\ c.by = Human
    BY DEF Commit1, Changes
  <1> HIDE DEF c
  <1>3. target \in Seq(Commit1) /\ tip = 1 /\ target[1] = c
    BY <1>1, <1>2 DEF tip
  <1>4. Target
    BY <1>3 DEF Target
  <1>5. \A u \in Undos : revs[u] = {}
    <2>1. ASSUME NEW u \in Undos, NEW n \in 1..tip, target[n].by = u PROVE FALSE
      <3>1. n = 1
        BY <1>3, <2>1
      <3> QED
        BY <1>2, <1>3, <2>1, <3>1, UndoAssumption
    <2> QED
      BY <2>1 DEF revs, Reverts
  <1>6. Logged
    <2>1. log \in Seq(Line1) /\ DOMAIN log = {}
      BY <1>1
    <2> QED
      BY <2>1 DEF Logged
  <1>7. World
    BY <1>1, <1>3 DEF World
  <1>8. Flags
    BY <1>1 DEF Flags
  <1>9. Landing
    BY <1>1 DEF Landing
  <1>10. Alone
    BY <1>1 DEF Alone, Live
  <1>11. ASSUME NEW u \in Undos PROVE One(u)
    <2>1. undo[u] = None /\ task[u] = Idle /\ job[u] = "none" /\ card[u] = None
      BY <1>1
    <2>2. task[u] \in Calls /\ task[u].pc = "idle"
      BY <2>1 DEF Calls, Idle
    <2>3. lock # u
      BY <1>1, UndoAssumption
    <2> QED
      BY <1>5, <2>1, <2>2, <2>3
      DEF One, FileOf, CopyOf, Copied, CallOf, LandedOf, LockOf, Locking, JobOf, CardOf, Fps
  <1> QED
    BY <1>4, <1>6, <1>7, <1>8, <1>9, <1>10, <1>11 DEF Inv

LEMMA StepInv == ASSUME Inv, NEW u \in Undos, Step(u) PROVE Inv'
  <1>1. CASE Cas(u)
    <2>1. CASE UNCHANGED target
      BY <1>1, <2>1, CasInv
    <2>2. CASE ~(UNCHANGED target)
      BY <1>1, <2>2, CasLands
    <2> QED
      BY <2>1, <2>2
  <1>2. CASE Drive(u) \/ Tip(u) \/ Queue(u) \/ Queued(u)
    BY <1>2, DriveInv, TipInv, QueueInv, QueuedInv
  <1>3. CASE Advance(u) \/ Log(u) \/ Mark(u) \/ Done(u) \/ Post(u)
    BY <1>3, AdvanceInv, LogInv, MarkInv, DoneInv, PostInv
  <1>4. CASE Close(u) \/ Ask(u) \/ Asked(u)
    BY <1>4, CloseInv, AskInv, AskedInv
  <1> QED
    BY <1>1, <1>2, <1>3, <1>4 DEF Step

LEMMA StutterInv == ASSUME Inv, UNCHANGED vars PROVE Inv'
  <1>1. /\ target' = target /\ log' = log /\ undo' = undo /\ undone' = undone /\ task' = task /\ lock' = lock
        /\ job' = job /\ card' = card /\ shown' = shown /\ RUNNING' = RUNNING /\ up' = up /\ seen' = seen
        /\ landing' = landing /\ CHECK' = CHECK
    BY DEF vars, world
  <1>2. World /\ Flags
    BY DEF Inv
  <1> QED
    BY <1>1, <1>2, AsideStill DEF World, Flags

LEMMA NextInv == ASSUME Inv, [Next]_vars PROVE Inv'
  <1>1. ASSUME NEW u \in Undos, NEW l \in Lands, CoordinatorUndoes(u, l) \/ HumanUndoes(u, l)
        PROVE  Inv'
    BY <1>1, UndoesInv
  <1>2. ASSUME NEW l \in Lands, Preview(l) \/ LandMoves(l) \/ LandFails(l)
        PROVE  Inv'
    BY <1>2, PreviewInv, LandMovesInv, LandFailsInv
  <1>3. ASSUME NEW u \in Undos, Step(u) \/ CheckEnds(u) \/ CheckHeard(u) \/ Approve(u) \/ Deny(u)
        PROVE  Inv'
    BY <1>3, StepInv, CheckEndsInv, CheckHeardInv, ApproveInv, DenyInv
  <1>4. ASSUME NEW c \in Foreign, Commit(c) PROVE Inv'
    BY <1>4, CommitInv
  <1>5. CASE BaseEnds \/ LandLogged \/ SetCheck \/ Crash
    BY <1>5, BaseEndsInv, LandLoggedInv, SetCheckInv, CrashInv
  <1>6. CASE Startup
    BY <1>6, RestartInv, RefileInv, SettleInv DEF Startup
  <1>7. CASE UNCHANGED vars
    BY <1>7, StutterInv
  <1> QED
    BY <1>1, <1>2, <1>3, <1>4, <1>5, <1>6, <1>7 DEF Next

\* Inv holds of every state that is reached, whatever the order of steps.
THEOREM AlwaysInv == Spec => []Inv
  <1>1. Init => Inv
    BY InitInv
  <1>2. Inv /\ [Next]_vars => Inv'
    BY NextInv
  <1> QED
    BY <1>1, <1>2, PTL DEF Spec

\* A land is taken back once: one undo of it is open at a time, and one revert
\* of it is in the target, for every number of undos, lands and deaths of maiTerm
\* (undo.rs: prior, resolve and reconcile).
THEOREM TakenBackOnce == Spec => []OnceUndone
  <1>1. ASSUME NEW S, \A a, b \in S : a = b
        PROVE  Cardinality(S) <= 1
    <2>1. CASE S = {}
      BY <2>1, FS_EmptySet
    <2>2. CASE S # {}
      <3>1. PICK a : S = {a}
        BY <1>1, <2>2
      <3> QED
        BY <3>1, FS_Singleton
    <2> QED
      BY <2>1, <2>2
  <1>2. Inv => OnceUndone
    <2> SUFFICES ASSUME Inv, NEW l \in Lands
                 PROVE  LET mine == {u \in Undos : undo[u] # None /\ undo[u].undoes = l}
                        IN  /\ Cardinality({u \in mine : open(undo[u])}) <= 1
                            /\ Cardinality(UNION {Reverts(u) : u \in mine}) <= 1
      BY DEF OnceUndone
    <2> DEFINE mine == {u \in Undos : undo[u] # None /\ undo[u].undoes = l}
    <2>1. \A u, v \in mine : Live(u) /\ Live(v) => u = v
      BY DEF Inv, Alone
    <2>2. \A u, v \in {u \in mine : open(undo[u])} : u = v
      BY <2>1 DEF Live
    <2>3. ASSUME NEW u \in mine, NEW v \in mine, NEW n \in Reverts(u), NEW m \in Reverts(v)
          PROVE  n = m
      <3>1. revs[u] = Reverts(u) /\ revs[v] = Reverts(v)
        BY DEF revs
      <3>2. u = v
        BY <2>1, <3>1 DEF Live
      <3>3. LandedOf(undone, u, undo[u], task[u].pc)
        BY DEF Inv, One
      <3> QED
        BY <3>1, <3>2, <3>3 DEF LandedOf
    <2>4. \A a, b \in UNION {Reverts(u) : u \in mine} : a = b
      BY <2>3
    <2> HIDE DEF mine
    <2>5. Cardinality({u \in mine : open(undo[u])}) <= 1
      BY <1>1, <2>2
    <2>6. Cardinality(UNION {Reverts(u) : u \in mine}) <= 1
      BY <1>1, <2>4
    <2> QED
      BY <2>5, <2>6 DEF mine
  <1> QED
    BY <1>2, AlwaysInv, PTL

-------------------------------------------------------------------------------
(* What a revert is when it lands.                                          *)

\* Only the compare-and-swap takes a call from "cas" to "log".
LEMMA OnlyCas ==
  ASSUME Inv, [Next]_vars, NEW u \in Undos, Moves(u)
  PROVE  Cas(u) /\ target' = Append(target, [tree |-> task[u].u.revert, by |-> u]) /\ task[u].u.tip = tip
  <1>1. DOMAIN task = Undos
    BY DEF Inv, Flags
  <1>2. task[u].pc = "cas" /\ task'[u].pc = "log"
    BY DEF Moves
  <1>3. task'[u] # task[u]
    BY <1>2
  <1>4. \A v \in Undos : /\ task[v].pc # "cas" => ~Cas(v)
                         /\ Driving.pc # "log" /\ Idle.pc # "log"
    BY DEF Cas, At, Driving, Idle
  <1>5. ASSUME NEW v \in Undos, NEW l \in Lands, CoordinatorUndoes(v, l) \/ HumanUndoes(v, l)
        PROVE  FALSE
    BY <1>1, <1>2, <1>3, <1>5 DEF CoordinatorUndoes, HumanUndoes, Driving, Idle
  <1>6. ASSUME NEW l \in Lands, Preview(l) \/ LandMoves(l) \/ LandFails(l)
        PROVE  FALSE
    BY <1>3, <1>6 DEF Preview, LandMoves, LandFails
  <1>7. ASSUME NEW v \in Undos, CheckEnds(v) \/ CheckHeard(v) \/ Approve(v) \/ Deny(v)
        PROVE  FALSE
    <2>1. CASE CheckEnds(v)
      BY <1>3, <2>1 DEF CheckEnds
    <2>2. CASE CheckHeard(v)
      <3>1. PICK r : task' = task \/ (task' = [task EXCEPT ![v] = r] /\ r.pc # "log")
        <4>1. CASE undo[v].state # "checking"
          BY <2>2, <4>1 DEF CheckHeard
        <4>2. CASE undo[v].state = "checking" /\ job[v] = "passed"
          <5>1. \/ task' = [task EXCEPT ![v] = Driving]
                \/ \E y : task' = [task EXCEPT ![v] = [Idle EXCEPT !.pc = "refused", !.u = y]]
            BY <2>2, <4>2 DEF CheckHeard
          <5>2. \A y : [Idle EXCEPT !.pc = "refused", !.u = y].pc = "refused"
            BY DEF Idle
          <5> QED
            BY <1>4, <5>1, <5>2
        <4>3. CASE undo[v].state = "checking" /\ job[v] # "passed"
          <5> DEFINE y == [undo[v] EXCEPT !.state = "locking", !.checked = TRUE]
                     r == [pc |-> "refused", u |-> [y EXCEPT !.checked = FALSE], check |-> CHECK,
                           failed |-> job[v] = "failed"]
          <5>1. task' = [task EXCEPT ![v] = r]
            BY <2>2, <4>3 DEF CheckHeard
          <5>2. r.pc = "refused"
            OBVIOUS
          <5> HIDE DEF r
          <5> QED
            BY <5>1, <5>2
        <4> QED
          BY <4>1, <4>2, <4>3
      <3> QED
        BY <1>1, <1>2, <1>3, <3>1
    <2>3. CASE Approve(v) \/ Deny(v)
      BY <1>1, <1>2, <1>3, <2>3 DEF Approve, Deny, Driving, Idle
    <2> QED
      BY <1>7, <2>1, <2>2, <2>3
  <1>8. ASSUME NEW c \in Foreign, Commit(c) PROVE FALSE
    BY <1>3, <1>8 DEF Commit
  <1>9. CASE BaseEnds \/ LandLogged \/ SetCheck \/ Crash \/ Startup
    <2>1. CASE BaseEnds \/ LandLogged \/ SetCheck \/ Startup
      BY <1>3, <2>1 DEF BaseEnds, LandLogged, SetCheck, Startup, Restart, Refile, Settle
    <2>2. CASE Crash
      BY <1>2, <1>4, <2>2 DEF Crash
    <2> QED
      BY <1>9, <2>1, <2>2
  <1>10. CASE UNCHANGED vars
    BY <1>3, <1>10 DEF vars
  <1>11. ASSUME NEW v \in Undos, Step(v), v # u PROVE FALSE
    <2>1. task'[u] = task[u]
      BY <1>1, <1>11 DEF Step, Drive, Tip, Queue, Queued, Advance, Cas, Log, Mark, Done, Post, Close, Ask, Asked,
           Go, End, Refuse, Hold
    <2> QED
      BY <1>3, <2>1
  <1>12. CASE Step(u)
    <2>1. Cas(u)
      BY <1>2, <1>12 DEF Step, Drive, Tip, Queue, Queued, Advance, Log, Mark, Done, Post, Close, Ask, Asked, At
    <2>2. CASE unmoved(task[u].u) /\ target' = Append(target, [tree |-> task[u].u.revert, by |-> u])
      BY <2>1, <2>2 DEF unmoved
    <2>3. CASE ~(unmoved(task[u].u) /\ target' = Append(target, [tree |-> task[u].u.revert, by |-> u]))
      <3>1. task'[u].pc \in {"held", "tip", "refused"}
        <4>1. task[u] \in Calls
          BY DEF Inv, One
        <4>2. \E p \in {"held", "tip", "refused"} : \E x : Go(u, p, x)
          BY <2>1, <2>3 DEF Cas, Hold, Refuse
        <4> QED
          BY <1>1, <4>1, <4>2 DEF Go, Calls
      <3> QED
        BY <1>2, <3>1
    <2> QED
      BY <2>1, <2>2, <2>3
  <1> QED
    BY <1>5, <1>6, <1>7, <1>8, <1>9, <1>10, <1>11, <1>12 DEF Next

\* What such a move finds.
LEMMA MoveOf ==
  ASSUME Inv, [Next]_vars, NEW u \in Undos, Moves(u)
  PROVE  LET k == task[u].u IN
         /\ Sound(seen, u, k) /\ Agreed(k) /\ k.tip = tip /\ (task[u].check => k.checked)
         /\ tree(tip)' = k.revert
  <1> DEFINE k == task[u].u
             m == [tree |-> k.revert, by |-> u]
  <1>1. target' = Append(target, m) /\ k.tip = tip /\ task[u].pc = "cas"
    BY OnlyCas DEF Moves
  <1>2. /\ FileOf(seen, u, undo[u]) /\ CopyOf(seen, u, undo[u], "cas", k, task[u].check)
        /\ CallOf(undo[u], "cas")
    BY <1>1 DEF Inv, One
  <1>3. /\ Sound(seen, u, k) /\ k = undo[u] /\ undo[u].state = "advancing" /\ undo[u] # None
        /\ (task[u].check => k.checked)
    BY <1>2 DEF CopyOf, Copied, CallOf
  <1>4. Agreed(k)
    BY <1>2, <1>3 DEF FileOf
  <1>5. target \in Seq(Commit1) /\ tip \in Nat
    BY DEF Inv, Target, tip
  <1>6. m.tree = k.revert
    OBVIOUS
  <1> HIDE DEF m
  <1>7. tree(tip)' = m.tree
    <2>1. m \in Commit1
      <3>1. k.revert \in SUBSET Changes
        BY <1>3, <1>4 DEF Agreed, Sound, UndoState
      <3> QED
        BY <3>1 DEF Commit1, m
    <2>2. tip' = tip + 1 /\ target'[tip + 1] = m
      BY <1>1, <1>5, <2>1 DEF tip
    <2> QED
      BY <2>2 DEF tree
  <1> QED
    BY <1>1, <1>3, <1>4, <1>6, <1>7

\* A revert that changes agent or execution config changes what the human agreed
\* to and nothing else, wherever the target went between their word and the
\* compare-and-swap (undo.rs: the config rule on every tip).
THEOREM WhatWasSeen == Spec => RevertSeen
  <1>1. ASSUME Inv, [Next]_vars, NEW u \in Undos, Moves(u), caught(tree(tip), tree(tip)') # None
        PROVE  <<u, caught(tree(tip), tree(tip)')>> \in seen
    <2> DEFINE k == task[u].u
    <2>1. /\ Sound(seen, u, k) /\ Agreed(k) /\ k.tip = tip /\ tree(tip)' = k.revert
      BY <1>1, MoveOf
    <2>2. change(k) = caught(tree(tip), tree(tip)')
      BY <2>1 DEF change, tree
    <2> QED
      BY <1>1, <2>1, <2>2 DEF Agreed, Sound
  <1>2. Inv /\ [Next]_vars =>
          [\A u \in Undos : Moves(u) =>
             (caught(tree(tip), tree(tip)') # None => <<u, caught(tree(tip), tree(tip)')>> \in seen)]_vars
    BY <1>1
  <1> QED
    BY <1>2, AlwaysInv, PTL DEF Spec, RevertSeen

\* A revert takes back what its land brought, puts back what it took, and
\* touches nothing that came later; where there is a land check, on a tree that
\* passed it (undo.rs: a check of another tip doesn't count).
THEOREM TakenBackClean == Spec => RevertClean
  <1>1. ASSUME Inv, [Next]_vars, NEW u \in Undos, Moves(u)
        PROVE  /\ tree(tip)' = inverse(task[u].u.undoes, tree(tip))
               /\ task[u].check => tree(tip)' \cap Bad = {}
    <2> DEFINE k == task[u].u
    <2>1. /\ Sound(seen, u, k) /\ Agreed(k) /\ k.tip = tip /\ tree(tip)' = k.revert
          /\ (task[u].check => k.checked)
      BY <1>1, MoveOf
    <2>2. k.undoes \in Lands /\ k.revert = (tree(tip) \ came[k.undoes]) \cup gone[k.undoes]
      BY <2>1 DEF Agreed, Sound, UndoState, tree
    <2> QED
      BY <2>1, <2>2, Inverses DEF Sound
  <1>2. Inv /\ [Next]_vars =>
          [\A u \in Undos : Moves(u) =>
             /\ tree(tip)' = inverse(task[u].u.undoes, tree(tip))
             /\ task[u].check => tree(tip)' \cap Bad = {}]_vars
    BY <1>1
  <1> QED
    BY <1>2, AlwaysInv, PTL DEF Spec, RevertClean

-------------------------------------------------------------------------------
(* Types.                                                                   *)

\* A call has a copy of its undo exactly where One says what of it.
Bare == \A u \in Undos : task[u].pc \notin Copied => task[u].u = None

LEMMA BareGoes ==
  ASSUME Bare, NEW u \in Undos, DOMAIN task = Undos, task[u] \in Calls,
         NEW p, NEW x, p \in Copied \/ x = None, Go(u, p, x)
  PROVE  Bare'
  <1>1. task'[u].pc = p /\ task'[u].u = x
    BY DEF Go, Calls
  <1> QED
    BY <1>1 DEF Bare, Go

LEMMA BareSets ==
  ASSUME Bare, NEW u \in Undos, DOMAIN task = Undos,
         NEW r, r.pc \in Copied \/ r.u = None, task' = [task EXCEPT ![u] = r]
  PROVE  Bare'
  BY DEF Bare

LEMMA BareStep == ASSUME Inv, Bare, NEW u \in Undos, Step(u) PROVE Bare'
  <1>1. DOMAIN task = Undos /\ task[u] \in Calls
    BY DEF Inv, Flags, One
  <1>2. CASE \E p \in Copied : \E x : Go(u, p, x)
    BY <1>1, <1>2, BareGoes
  <1>3. CASE Go(u, "post", None)
    BY <1>1, <1>3, BareGoes
  <1>4. CASE End(u)
    <2>1. Idle.u = None
      BY DEF Idle
    <2> QED
      BY <1>1, <1>4, <2>1, BareSets DEF End
  <1>5. CASE Drive(u) \/ Queue(u) \/ Advance(u) \/ Cas(u) \/ Log(u) \/ Mark(u) \/ Ask(u)
    <2>1. \E p \in Copied : \E x : Go(u, p, x)
      BY <1>5 DEF Drive, Queue, Advance, Cas, Log, Mark, Ask, Refuse, Hold, Copied
    <2> QED
      BY <1>2, <2>1
  <1>6. CASE Tip(u)
    <2>1. Built(u) \in Copied
      BY DEF Built, Copied
    <2>2. \E p \in Copied : \E x : Go(u, p, x)
      BY <1>6, <2>1 DEF Tip, Refuse, Copied
    <2> QED
      BY <1>2, <2>2
  <1>7. CASE Queued(u) \/ Done(u) \/ Post(u) \/ Close(u) \/ Asked(u)
    <2>1. End(u) \/ Go(u, "post", None) \/ \E p \in Copied : \E x : Go(u, p, x)
      BY <1>7 DEF Queued, Done, Post, Close, Asked, Refuse, Copied
    <2> QED
      BY <1>2, <1>3, <1>4, <2>1
  <1> QED
    BY <1>5, <1>6, <1>7 DEF Step

LEMMA BareNext == ASSUME Inv, Bare, [Next]_vars PROVE Bare'
  <1>1. DOMAIN task = Undos
    BY DEF Inv, Flags
  <1>2. /\ Idle.pc = "idle" /\ Idle.u = None /\ Driving.pc = "drive" /\ Driving.u = None
        /\ "refused" \in Copied
    BY DEF Idle, Driving, Copied
  <1>3. CASE task' = task
    BY <1>3 DEF Bare
  <1>4. ASSUME NEW u \in Undos, task' = [task EXCEPT ![u] = Driving] PROVE Bare'
    BY <1>1, <1>2, <1>4, BareSets
  <1>5. ASSUME NEW u \in Undos, NEW x, task' = [task EXCEPT ![u] = [Idle EXCEPT !.pc = "refused", !.u = x]]
        PROVE  Bare'
    <2> DEFINE r == [Idle EXCEPT !.pc = "refused", !.u = x]
    <2>1. r.pc \in Copied
      BY DEF Idle, Copied
    <2> HIDE DEF r
    <2> QED
      BY <1>1, <1>5, <2>1, BareSets DEF r
  <1>6. ASSUME NEW u \in Undos, NEW l \in Lands, CoordinatorUndoes(u, l) \/ HumanUndoes(u, l)
        PROVE  Bare'
    BY <1>4, <1>5, <1>6 DEF CoordinatorUndoes, HumanUndoes
  <1>7. ASSUME NEW u \in Undos, CheckHeard(u) PROVE Bare'
    <2>1. CASE undo[u].state # "checking"
      BY <1>3, <1>7, <2>1 DEF CheckHeard
    <2>2. CASE undo[u].state = "checking" /\ job[u] = "passed"
      BY <1>4, <1>5, <1>7, <2>2 DEF CheckHeard
    <2>3. CASE undo[u].state = "checking" /\ job[u] # "passed"
      <3> DEFINE y == [undo[u] EXCEPT !.state = "locking", !.checked = TRUE]
                 r == [pc |-> "refused", u |-> [y EXCEPT !.checked = FALSE], check |-> CHECK,
                       failed |-> job[u] = "failed"]
      <3>1. task' = [task EXCEPT ![u] = r]
        BY <1>7, <2>3 DEF CheckHeard
      <3>2. r.pc \in Copied
        BY DEF Copied
      <3> HIDE DEF r
      <3> QED
        BY <1>1, <3>1, <3>2, BareSets
    <2> QED
      BY <2>1, <2>2, <2>3
  <1>8. ASSUME NEW u \in Undos, CheckEnds(u) \/ Approve(u) \/ Deny(u) PROVE Bare'
    BY <1>3, <1>4, <1>5, <1>8 DEF CheckEnds, Approve, Deny
  <1>9. ASSUME NEW l \in Lands, Preview(l) \/ LandMoves(l) \/ LandFails(l) PROVE Bare'
    BY <1>3, <1>9 DEF Preview, LandMoves, LandFails
  <1>10. ASSUME NEW c \in Foreign, Commit(c) PROVE Bare'
    BY <1>3, <1>10 DEF Commit
  <1>11. CASE BaseEnds \/ LandLogged \/ SetCheck \/ Startup \/ UNCHANGED vars
    BY <1>3, <1>11 DEF BaseEnds, LandLogged, SetCheck, Startup, Restart, Refile, Settle, vars
  <1>12. CASE Crash
    BY <1>2, <1>12 DEF Crash, Bare
  <1> QED
    BY <1>6, <1>7, <1>8, <1>9, <1>10, <1>11, <1>12, BareStep DEF Next

\* Every file, call, line and commit is of its type, and no undo is of a tip the
\* target doesn't have.
THEOREM UndoTypes == Spec => []TypeOK
  <1>1. Init => Inv /\ Bare
    <2>1. Init => Bare
      BY DEF Init, Bare, Idle
    <2> QED
      BY <2>1, InitInv
  <1>2. Inv /\ Bare /\ [Next]_vars => (Inv /\ Bare)'
    BY NextInv, BareNext
  <1>3. Inv /\ Bare => TypeOK
    <2> SUFFICES ASSUME Inv, Bare PROVE TypeOK
      OBVIOUS
    <2>1. Target /\ Logged /\ World /\ Landing /\ Flags
      BY DEF Inv
    <2>2. \A n \in 1..tip : tree(n) \subseteq Changes /\ target[n].by \in {Human} \cup Lands \cup Undos
      BY <2>1, Trees
    <2>3. ASSUME NEW i \in DOMAIN log
          PROVE  /\ log[i].kind \in {"land", "undo", "base_check"} /\ log[i].at \in 1..tip
                 /\ log[i].check \in {"passed", "failed", ""} /\ log[i].same \in BOOLEAN
      <3>1. log[i] \in Line1 /\ LineOf(log[i])
        BY <2>1 DEF Logged
      <3> QED
        BY <3>1 DEF Line1, LineOf
    <2>4. ASSUME NEW u \in Undos
          PROVE  /\ {undo[u], task[u].u} \subseteq UndoState \cup {None}
                 /\ \A x \in {undo[u], task[u].u} \ {None} : x.tip <= tip
                 /\ {task[u].check, task[u].failed} \subseteq BOOLEAN
                 /\ job[u] \in {"none", "queued", "passed", "failed", "unfinished"} /\ card[u] \in Fps
      <3>1. /\ task[u] \in Calls /\ FileOf(seen, u, undo[u])
            /\ CopyOf(seen, u, undo[u], task[u].pc, task[u].u, task[u].check)
            /\ JobOf(undo[u], task[u].pc, task[u].u, job[u])
            /\ CardOf(undo[u], task[u].pc, task[u].u, card[u])
        BY DEF Inv, One
      <3>2. undo[u] # None => undo[u].tip <= tip
        BY <3>1 DEF FileOf, Sound
      <3>3. task[u].u # None => task[u].u.tip <= tip
        BY <3>1 DEF Bare, CopyOf, Sound
      <3>4. {undo[u], task[u].u} \subseteq UndoState \cup {None}
        BY <2>1, <3>1 DEF Flags, Calls
      <3>5. {task[u].check, task[u].failed} \subseteq BOOLEAN
        BY <3>1 DEF Calls
      <3>6. job[u] \in {"none", "queued", "passed", "failed", "unfinished"} /\ card[u] \in Fps
        BY <3>1 DEF JobOf, CardOf
      <3> QED
        BY <3>2, <3>3, <3>4, <3>5, <3>6
    <2>5. \A l \in Lands : shown[l] \subseteq Fps
      BY <2>1 DEF World
    <2>6. landing # None => landing.who \in Lands /\ landing.at \in 1..tip
      <3>1. landing # None => landing.who \in Lands /\ landing.at \in 2..tip
        BY <2>1 DEF Landing
      <3>2. tip \in Nat
        BY <2>1, Trees
      <3> QED
        BY <3>1, <3>2
    <2> QED
      BY <2>1, <2>2, <2>3, <2>4, <2>5, <2>6 DEF TypeOK, World, Flags
  <1> QED
    BY <1>1, <1>2, <1>3, PTL DEF Spec

-------------------------------------------------------------------------------
(* At rest.                                                                 *)

UsualOf(u) ==
  LET pc == task[u].pc  x == undo[u] IN
  up = "up" /\ x # None =>
  /\ pc = "queued" => job[u] = "queued"
  /\ pc = "asked" => card[u] # None
  /\ pc = "idle" /\ x.state = "checking" => job[u] # "none"
  /\ pc = "idle" /\ x.state = "awaiting_human" => card[u] # None

LEMMA UsualLeft ==
  ASSUME NEW u \in Undos, UsualOf(u), undo'[u] = undo[u], task'[u] = task[u], job'[u] = job[u],
         card'[u] = card[u], up' = up
  PROVE  UsualOf(u)'
  BY DEF UsualOf

LEMMA SettledOf ==
  ASSUME Inv, NEW u \in Undos, UsualOf(u), up = "up", undo[u] # None, task[u].pc \in {"idle", "post"}
  PROVE  LET s == undo[u].state IN
         /\ Cardinality(Reverts(u)) = (IF s = "done" THEN 1 ELSE 0)
         /\ Cardinality(Lines(u)) = Cardinality(Reverts(u))
         /\ s = "done" => undo[u].undoes \in undone
         /\ s \notin {"locking", "advancing"}
         /\ s = "checking" => job[u] # "none" /\ lock = u
         /\ s = "awaiting_human" => card[u] # None
         /\ lock = u => s = "checking"
  <1> DEFINE x == undo[u]
             p == task[u].pc
  <1>1. Logged /\ One(u)
    BY DEF Inv
  <1>2. /\ CallOf(x, p) /\ LandedOf(undone, u, x, p) /\ LockOf(lock, u, x, p)
    BY <1>1 DEF One
  <1>3. x.state \notin {"locking", "advancing"} /\ (p = "post" => x.state \in {"held", "done", "refused"})
    BY <1>2 DEF CallOf
  <1>4. Reverts(u) = revs[u]
    BY DEF revs
  <1>5. CASE x.state = "done"
    <2>1. PICK n \in revs[u] : \A m \in revs[u] : m = n
      BY <1>2, <1>5 DEF LandedOf
    <2>2. Cardinality(Reverts(u)) = 1
      <3>1. Reverts(u) = {n}
        BY <1>4, <2>1
      <3> QED
        BY <3>1, FS_Singleton
    <2>3. u \in ids /\ x.undoes \in undone
      BY <1>2, <1>5 DEF LandedOf
    <2>4. PICK i \in DOMAIN log : log[i].id = u
      BY <2>3 DEF ids
    <2>5. u # None
      BY UndoAssumption
    <2>6. \A j \in DOMAIN log : log[j].id = u => j = i
      BY <1>1, <2>4, <2>5 DEF Logged
    <2>7. Cardinality(Lines(u)) = 1
      <3>1. Lines(u) = {i}
        BY <2>4, <2>6 DEF Lines
      <3> QED
        BY <3>1, FS_Singleton
    <2>8. lock # u
      BY <1>2, <1>3, <1>5 DEF LockOf, Locking
    <2> QED
      BY <1>5, <2>2, <2>3, <2>7, <2>8
  <1>6. CASE x.state # "done"
    <2>1. revs[u] = {}
      BY <1>2, <1>3, <1>6 DEF LandedOf
    <2>2. Lines(u) = {}
      <3>1. SUFFICES ASSUME NEW i \in DOMAIN log, log[i].id = u PROVE FALSE
        BY DEF Lines
      <3>2. LineOf(log[i])
        BY <1>1 DEF Logged
      <3> QED
        BY <2>1, <3>1, <3>2 DEF LineOf
    <2>3. Cardinality(Reverts(u)) = 0 /\ Cardinality(Lines(u)) = 0
      BY <1>4, <2>1, <2>2, FS_EmptySet
    <2>4. x.state = "checking" => job[u] # "none" /\ lock = u
      BY <1>2, <1>3 DEF UsualOf, LockOf
    <2>5. x.state = "awaiting_human" => card[u] # None
      BY <1>3 DEF UsualOf
    <2>6. lock = u => x.state = "checking"
      BY <1>2 DEF LockOf, Locking
    <2> QED
      BY <1>3, <1>6, <2>3, <2>4, <2>5, <2>6
  <1> QED
    BY <1>5, <1>6

\* Of the steps of one undo's the other undos see nothing.
LEMMA StepFrame ==
  ASSUME Inv, NEW u \in Undos, Step(u)
  PROVE  /\ up' = up /\ up = "up" /\ undone \subseteq undone'
         /\ \A v \in Undos \ {u} : /\ undo'[v] = undo[v] /\ task'[v] = task[v]
                                   /\ job'[v] = job[v] /\ card'[v] = card[v]
  <1>1. DOMAIN task = Undos /\ DOMAIN job = Undos /\ DOMAIN card = Undos /\ DOMAIN undo = Undos
    BY DEF Inv, Flags
  <1>2. up' = up /\ up = "up"
    BY DEF Step, Drive, Tip, Queue, Queued, Advance, Cas, Log, Mark, Done, Post, Close, Ask, Asked, At
  <1>3. undone \subseteq undone'
    BY DEF Step, Drive, Tip, Queue, Queued, Advance, Cas, Log, Mark, Done, Post, Close, Ask, Asked
  <1>4. ASSUME NEW v \in Undos \ {u} PROVE task'[v] = task[v]
    BY <1>1 DEF Step, Drive, Tip, Queue, Queued, Advance, Cas, Log, Mark, Done, Post, Close, Ask, Asked,
       Go, End, Refuse, Hold
  <1>5. ASSUME NEW v \in Undos \ {u} PROVE undo'[v] = undo[v]
    BY <1>1 DEF Step, Drive, Tip, Queue, Queued, Advance, Cas, Log, Mark, Done, Post, Close, Ask, Asked, save
  <1>6. ASSUME NEW v \in Undos \ {u} PROVE job'[v] = job[v]
    BY <1>1 DEF Step, Drive, Tip, Queue, Queued, Advance, Cas, Log, Mark, Done, Post, Close, Ask, Asked, cleanup
  <1>7. ASSUME NEW v \in Undos \ {u} PROVE card'[v] = card[v]
    BY <1>1 DEF Step, Drive, Tip, Queue, Queued, Advance, Cas, Log, Mark, Done, Post, Close, Ask, Asked
  <1> QED
    BY <1>2, <1>3, <1>4, <1>5, <1>6, <1>7

LEMMA UsualAll ==
  ASSUME Usual, NEW u \in Undos, UsualOf(u)', up' = up,
         \A v \in Undos \ {u} : /\ undo'[v] = undo[v] /\ task'[v] = task[v]
                                /\ job'[v] = job[v] /\ card'[v] = card[v]
  PROVE  Usual'
  <1>1. \A v \in Undos \ {u} : UsualOf(v)'
    BY UsualLeft DEF Usual, UsualOf
  <1> QED
    BY <1>1 DEF Usual, UsualOf

LEMMA UsualSame ==
  ASSUME Usual, UNCHANGED <<undo, task, job, card, up>>
  PROVE  Usual'
  BY DEF Usual

\* Where a call goes on that waits for nothing, nothing is to be shown.
LEMMA UsualGoes ==
  ASSUME NEW u \in Undos, task'[u].pc \notin {"queued", "asked", "idle"}
  PROVE  UsualOf(u)'
  BY DEF UsualOf

LEMMA UsualStep == ASSUME Inv, Usual, NEW u \in Undos, Step(u) PROVE UsualOf(u)'
  <1> DEFINE x == undo[u]
             k == task[u].u
             p == task[u].pc
  <1>1. Flags /\ One(u) /\ UsualOf(u) /\ DOMAIN task = Undos /\ task[u] \in Calls
    BY DEF Inv, One, Usual, UsualOf, Flags
  <1>2. /\ CopyOf(seen, u, x, p, k, task[u].check) /\ CallOf(x, p)
    BY <1>1 DEF One
  <1>3. ASSUME NEW q, NEW y, Go(u, q, y) PROVE task'[u].pc = q
    BY <1>1, <1>3 DEF Go, Calls
  <1>4. ASSUME NEW q, q \notin {"queued", "asked", "idle"}, NEW y, Go(u, q, y) PROVE UsualOf(u)'
    BY <1>3, <1>4, UsualGoes
  <1>5. ASSUME NEW y, Refuse(u, y) \/ Hold(u, y) PROVE UsualOf(u)'
    BY <1>4, <1>5 DEF Refuse, Hold
  <1>6. ASSUME End(u) PROVE task'[u].pc = "idle"
    BY <1>1, <1>6, Ends
  <1>7. CASE Drive(u) \/ Advance(u) \/ Cas(u) \/ Log(u) \/ Mark(u)
    <2>1. (\E y : Refuse(u, y) \/ Hold(u, y)) \/ \E q \in {"tip", "cas", "log", "mark", "done"} : \E y : Go(u, q, y)
      BY <1>7 DEF Drive, Advance, Cas, Log, Mark
    <2> QED
      BY <1>4, <1>5, <2>1
  <1>8. CASE Tip(u)
    <2>1. Built(u) \in {"queue", "advance"}
      BY DEF Built
    <2>2. (\E y : Refuse(u, y)) \/ \E q \in {"queue", "advance", "ask"} : \E y : Go(u, q, y)
      BY <1>8, <2>1 DEF Tip
    <2> QED
      BY <1>4, <1>5, <2>2
  <1>9. CASE Queue(u)
    <2>1. (\E y : Refuse(u, y)) \/ (job' = [job EXCEPT ![u] = "queued"] /\ Go(u, "queued", k))
      BY <1>9 DEF Queue
    <2>2. CASE job' = [job EXCEPT ![u] = "queued"] /\ Go(u, "queued", k)
      <3>1. job'[u] = "queued" /\ task'[u].pc = "queued"
        BY <1>1, <1>3, <2>2 DEF Flags
      <3> QED
        BY <3>1 DEF UsualOf
    <2> QED
      BY <1>5, <2>1, <2>2
  <1>10. CASE Queued(u)
    <2> DEFINE y == [k EXCEPT !.state = "checking"]
    <2>1. (\E z : Refuse(u, z)) \/ (save(u, y) /\ End(u))
      BY <1>10 DEF Queued
    <2>2. CASE save(u, y) /\ End(u)
      <3>1. p = "queued" /\ up = "up" /\ job' = job /\ x # None
        BY <1>2, <1>10 DEF Queued, At, CallOf
      <3>2. job'[u] = "queued"
        BY <1>1, <3>1 DEF UsualOf
      <3>3. k \in UndoState
        BY <1>2, <3>1 DEF CopyOf, Copied, Sound
      <3>4. y.state = "checking"
        BY <3>3 DEF UndoState
      <3>5. undo'[u].state = "checking"
        BY <1>1, <2>2, <3>4 DEF Flags, save
      <3>6. task'[u].pc = "idle"
        BY <1>6, <2>2
      <3> QED
        BY <3>2, <3>5, <3>6 DEF UsualOf
    <2> QED
      BY <1>5, <2>1, <2>2
  <1>11. CASE Post(u)
    <2>1. undo'[u] = x /\ x.state \in {"held", "done", "refused"} /\ End(u)
      BY <1>2, <1>11 DEF Post, At, CallOf
    <2>2. task'[u].pc = "idle"
      BY <1>6, <2>1
    <2> QED
      BY <2>1, <2>2 DEF UsualOf
  <1>12. ASSUME NEW z \in {"held", "done", "refused"}, save(u, over(k, z)), End(u) \/ Go(u, "post", None),
                p \in Copied
         PROVE  UsualOf(u)'
    <2>1. task'[u].pc \in {"idle", "post"}
      BY <1>3, <1>6, <1>12
    <2>2. k \in UndoState
      BY <1>2, <1>12 DEF CopyOf, Sound
    <2>3. undo'[u].state = z
      BY <1>1, <1>12, <2>2, Over DEF Flags, save
    <2> QED
      BY <2>1, <2>3 DEF UsualOf
  <1>13. CASE Done(u)
    <2>1. save(u, over(k, "done")) /\ (End(u) \/ Go(u, "post", None)) /\ p = "done"
      BY <1>13 DEF Done, At
    <2> QED
      BY <1>12, <2>1 DEF Copied
  <1>14. CASE Close(u)
    <2>1. save(u, over(k, p)) /\ (End(u) \/ Go(u, "post", None)) /\ p \in {"refused", "held"}
      BY <1>14 DEF Close
    <2> QED
      BY <1>12, <2>1 DEF Copied
  <1>15. CASE Ask(u)
    <2>1. (\E y : Refuse(u, y)) \/ (card' = [card EXCEPT ![u] = config_fp(k)] /\ Go(u, "asked", k))
      BY <1>15 DEF Ask
    <2>2. CASE card' = [card EXCEPT ![u] = config_fp(k)] /\ Go(u, "asked", k)
      <3>1. task'[u].pc = "asked" /\ card'[u] = config_fp(k)
        BY <1>1, <1>3, <2>2 DEF Flags
      <3>2. p = "ask"
        BY <1>15 DEF Ask, At
      <3>3. config_fp(k) # None
        BY <1>2, <3>2 DEF CopyOf, Copied, Asks, change, config_fp, tree
      <3> QED
        BY <3>1, <3>3 DEF UsualOf
    <2> QED
      BY <1>5, <2>1, <2>2
  <1>16. CASE Asked(u)
    <2> DEFINE y == [k EXCEPT !.state = "awaiting_human", !.checked = FALSE]
    <2>1. (\E z : Refuse(u, z)) \/ (save(u, y) /\ End(u) /\ card' = card)
      BY <1>16 DEF Asked
    <2>2. CASE save(u, y) /\ End(u) /\ card' = card
      <3>1. p = "asked" /\ up = "up" /\ x # None
        BY <1>2, <1>16 DEF Asked, At, CallOf
      <3>2. card'[u] # None
        BY <1>1, <2>2, <3>1 DEF UsualOf
      <3>3. k \in UndoState
        BY <1>2, <3>1 DEF CopyOf, Copied, Sound
      <3>4. y.state = "awaiting_human"
        BY <3>3 DEF UndoState
      <3>5. undo'[u].state = "awaiting_human"
        BY <1>1, <2>2, <3>4 DEF Flags, save
      <3>6. task'[u].pc = "idle"
        BY <1>6, <2>2
      <3> QED
        BY <3>2, <3>5, <3>6 DEF UsualOf
    <2> QED
      BY <1>5, <2>1, <2>2
  <1> QED
    BY <1>7, <1>8, <1>9, <1>10, <1>11, <1>13, <1>14, <1>15, <1>16 DEF Step

\* What a check's end, its hearing and a card's answer make of their undo.
LEMMA UsualHeard ==
  ASSUME Inv, Usual, {"early end", "quick human"} \cap Races = {}, NEW u \in Undos,
         CheckEnds(u) \/ CheckHeard(u) \/ Approve(u) \/ Deny(u)
  PROVE  Usual'
  <1> DEFINE x == undo[u]
             p == task[u].pc
  <1>1. Flags /\ One(u) /\ UsualOf(u)
    BY DEF Inv, Usual, UsualOf
  <1>2. CopyOf(seen, u, x, p, task[u].u, task[u].check) /\ CallOf(x, p)
    BY <1>1 DEF One
  <1>3. CASE CheckEnds(u)
    <2>1. x.state = "checking" /\ up = "up" /\ up' = up /\ undo' = undo /\ task' = task /\ card' = card
          /\ job[u] = "queued"
      BY <1>3 DEF CheckEnds
    <2>2. job'[u] \in {"passed", "failed", "unfinished"} /\ \A v \in Undos \ {u} : job'[v] = job[v]
      BY <1>1, <1>3 DEF CheckEnds, Flags
    <2>3. p # "queued"
      BY <1>2, <2>1 DEF CopyOf, Copied
    <2>4. UsualOf(u)'
      BY <1>1, <2>1, <2>2, <2>3 DEF UsualOf
    <2> QED
      BY <2>1, <2>2, <2>4, UsualAll
  <1>4. ASSUME task'[u].pc \in {"drive", "refused"}, up' = up,
               \A v \in Undos \ {u} : /\ undo'[v] = undo[v] /\ task'[v] = task[v]
                                      /\ job'[v] = job[v] /\ card'[v] = card[v]
        PROVE  Usual'
    <2>1. UsualOf(u)'
      BY <1>4, UsualGoes
    <2> QED
      BY <1>4, <2>1, UsualAll
  <1>5. /\ Driving.pc = "drive" /\ \A y : [Idle EXCEPT !.pc = "refused", !.u = y].pc = "refused"
    BY DEF Driving, Idle
  <1>6. CASE CheckHeard(u)
    <2>1. /\ up' = up /\ card' = card /\ job' = [job EXCEPT ![u] = "none"]
          /\ job[u] \in {"passed", "failed", "unfinished"}
      BY <1>6 DEF CheckHeard
    <2>2. \A v \in Undos \ {u} : job'[v] = job[v]
      BY <1>1, <2>1 DEF Flags
    <2>3. \A v \in Undos \ {u} : undo'[v] = undo[v]
      BY <1>1, <1>6 DEF CheckHeard, save, Flags
    <2>4. CASE x.state # "checking"
      <3>1. undo' = undo /\ task' = task
        BY <1>6, <2>4 DEF CheckHeard
      <3>2. UsualOf(u)'
        BY <1>1, <2>1, <2>4, <3>1 DEF UsualOf
      <3> QED
        BY <2>1, <2>2, <3>1, <3>2, UsualAll
    <2>5. CASE x.state = "checking" /\ job[u] = "passed"
      <3>1. \/ task' = [task EXCEPT ![u] = Driving]
            \/ \E y : task' = [task EXCEPT ![u] = [Idle EXCEPT !.pc = "refused", !.u = y]]
        BY <1>6, <2>5 DEF CheckHeard
      <3>2. \E r : task' = [task EXCEPT ![u] = r] /\ r.pc \in {"drive", "refused"}
        BY <1>5, <3>1
      <3>3. task'[u].pc \in {"drive", "refused"} /\ \A v \in Undos \ {u} : task'[v] = task[v]
        BY <1>1, <3>2 DEF Flags
      <3> QED
        BY <1>4, <2>1, <2>2, <2>3, <3>3
    <2>6. CASE x.state = "checking" /\ job[u] # "passed"
      <3> DEFINE y == [undo[u] EXCEPT !.state = "locking", !.checked = TRUE]
                 r == [pc |-> "refused", u |-> [y EXCEPT !.checked = FALSE], check |-> CHECK,
                       failed |-> job[u] = "failed"]
      <3>1. task' = [task EXCEPT ![u] = r]
        BY <1>6, <2>6 DEF CheckHeard
      <3>2. r.pc = "refused"
        OBVIOUS
      <3> HIDE DEF r
      <3>3. task'[u].pc \in {"drive", "refused"} /\ \A v \in Undos \ {u} : task'[v] = task[v]
        BY <1>1, <3>1, <3>2 DEF Flags
      <3> QED
        BY <1>4, <2>1, <2>2, <2>3, <3>3
    <2> QED
      BY <2>4, <2>5, <2>6
  <1>7. CASE Approve(u) \/ Deny(u)
    <2>1. /\ x.state = "awaiting_human" /\ up' = up /\ job' = job
          /\ card' = [card EXCEPT ![u] = None]
      BY <1>7 DEF Approve, Deny, Answered
    <2>2. \A v \in Undos \ {u} : card'[v] = card[v] /\ undo'[v] = undo[v]
      BY <1>1, <1>7, <2>1 DEF Flags, Approve, Deny, save
    <2>3. \/ task' = [task EXCEPT ![u] = Driving]
          \/ \E y : task' = [task EXCEPT ![u] = [Idle EXCEPT !.pc = "refused", !.u = y]]
      BY <1>7, <2>1 DEF Approve, Deny
    <2>4. \E r : task' = [task EXCEPT ![u] = r] /\ r.pc \in {"drive", "refused"}
      BY <1>5, <2>3
    <2>5. task'[u].pc \in {"drive", "refused"} /\ \A v \in Undos \ {u} : task'[v] = task[v]
      BY <1>1, <2>4 DEF Flags
    <2> QED
      BY <1>4, <2>1, <2>2, <2>5
  <1> QED
    BY <1>3, <1>6, <1>7

LEMMA UsualNext == ASSUME Inv, Usual, {"early end", "quick human"} \cap Races = {}, [Next]_vars PROVE Usual'
  <1>1. Flags
    BY DEF Inv
  <1>2. ASSUME NEW u \in Undos, NEW l \in Lands, CoordinatorUndoes(u, l) \/ HumanUndoes(u, l)
        PROVE  Usual'
    <2>1. /\ up' = up /\ job' = job /\ card' = card /\ \A v \in Undos \ {u} : undo'[v] = undo[v]
      BY <1>1, <1>2 DEF CoordinatorUndoes, HumanUndoes, Begin, Flags
    <2>2. \E r : task' = [task EXCEPT ![u] = r] /\ r.pc \in {"drive", "refused"}
      <3>1. /\ Driving.pc = "drive" /\ \A y : [Idle EXCEPT !.pc = "refused", !.u = y].pc = "refused"
        BY DEF Driving, Idle
      <3> QED
        BY <1>2, <3>1 DEF CoordinatorUndoes, HumanUndoes
    <2>3. task'[u].pc \in {"drive", "refused"} /\ \A v \in Undos \ {u} : task'[v] = task[v]
      BY <1>1, <2>2 DEF Flags
    <2>4. UsualOf(u)'
      BY <2>3, UsualGoes
    <2> QED
      BY <2>1, <2>3, <2>4, UsualAll
  <1>3. ASSUME NEW u \in Undos, Step(u) PROVE Usual'
    BY <1>3, StepFrame, UsualStep, UsualAll
  <1>4. ASSUME NEW l \in Lands, Preview(l) \/ LandMoves(l) \/ LandFails(l) PROVE Usual'
    BY <1>4, UsualSame DEF Preview, LandMoves, LandFails
  <1>5. ASSUME NEW c \in Foreign, Commit(c) PROVE Usual'
    BY <1>5, UsualSame DEF Commit
  <1>6. CASE BaseEnds \/ LandLogged \/ SetCheck \/ UNCHANGED vars
    BY <1>6, UsualSame DEF BaseEnds, LandLogged, SetCheck, vars
  <1>7. CASE Crash \/ Restart \/ \E u \in Undos : Settle(u)
    BY <1>7 DEF Crash, Restart, Settle, Usual
  <1>8. CASE Refile
    <2>1. /\ up = "settling" /\ task' = task /\ job' = job /\ undo' = undo
          /\ card' = [u \in Undos |-> IF undo[u] # None /\ undo[u].state = "awaiting_human"
                                      THEN config_fp(undo[u]) ELSE None]
          /\ \A u \in Undos : ~in_progress(undo[u])
      BY <1>8 DEF Refile
    <2>2. ASSUME NEW u \in Undos, undo[u] # None PROVE UsualOf(u)'
      <3>1. task'[u].pc = "idle"
        BY <2>1, Quiet
      <3>2. undo[u].state # "checking"
        BY <2>1, <2>2 DEF in_progress
      <3>3. ASSUME undo[u].state = "awaiting_human" PROVE card'[u] # None
        <4>1. FileOf(seen, u, undo[u])
          BY DEF Inv, One
        <4>2. change(undo[u]) # None
          BY <2>2, <3>3, <4>1 DEF FileOf, Asks
        <4>3. config_fp(undo[u]) # None
          BY <4>2 DEF config_fp, change, tree
        <4> QED
          BY <2>1, <2>2, <3>3, <4>3
      <3> QED
        BY <2>1, <3>1, <3>2, <3>3 DEF UsualOf
    <2> QED
      BY <2>1, <2>2 DEF Usual, UsualOf
  <1> QED
    BY <1>2, <1>3, <1>4, <1>5, <1>6, <1>7, <1>8, UsualHeard DEF Next, Startup

\* With the usual orders of steps an undo no call works on is what its file says:
\* done exactly if its one revert is in the target under one line of the log and
\* its worker is marked; checking with a check to hear of and the lock, waiting
\* with a card to answer, and nobody else keeps the lock, whenever maiTerm died
\* (undo.rs: reconcile, refile, cleanup).
THEOREM AtRest == ASSUME {"early end", "quick human"} \cap Races = {} PROVE Spec => []Settled
  <1>1. Init => Inv /\ Usual
    <2>1. Init => Usual
      BY DEF Init, Usual
    <2> QED
      BY <2>1, InitInv
  <1>2. Inv /\ Usual /\ [Next]_vars => (Inv /\ Usual)'
    BY NextInv, UsualNext
  <1>3. Inv /\ Usual => Settled
    <2> SUFFICES ASSUME Inv, Usual, NEW u \in Undos, up = "up", undo[u] # None, task[u].pc \in {"idle", "post"}
                 PROVE  LET s == undo[u].state IN
                        /\ Cardinality(Reverts(u)) = (IF s = "done" THEN 1 ELSE 0)
                        /\ Cardinality(Lines(u)) = Cardinality(Reverts(u))
                        /\ s = "done" => undo[u].undoes \in undone
                        /\ s \notin {"locking", "advancing"}
                        /\ s = "checking" => job[u] # "none" /\ lock = u
                        /\ s = "awaiting_human" => card[u] # None
                        /\ lock = u => s = "checking"
      BY DEF Settled
    <2>1. UsualOf(u)
      BY DEF Usual, UsualOf
    <2> QED
      BY <2>1, SettledOf
  <1> QED
    BY <1>1, <1>2, <1>3, PTL DEF Spec

-------------------------------------------------------------------------------
(* What the log's fold says.                                                *)

\* Of some numbers one is the least; so what holds of 0, and of each number's
\* successor with it, holds of all.
LEMMA Least ==
  ASSUME NEW T, T \subseteq Nat, T # {}
  PROVE  \E x \in T : \A y \in T : ~(y < x)
  <1>1. IsWellFoundedOn(OpToRel(<, Nat), Nat)
    BY NatLessThanWellFounded
  <1>2. PICK x \in T : \A y \in T : ~(<<y, x>> \in OpToRel(<, Nat))
    BY <1>1, WFMin
  <1>3. \A y \in T : y < x => <<y, x>> \in OpToRel(<, Nat)
    BY DEF OpToRel
  <1> QED
    BY <1>2, <1>3

LEMMA Upwards ==
  ASSUME NEW T, 0 \in T, \A n \in Nat : n \in T => n + 1 \in T
  PROVE  Nat \subseteq T
  <1> SUFFICES ASSUME Nat \ T # {} PROVE FALSE
    OBVIOUS
  <1>1. PICK x \in Nat \ T : \A y \in Nat \ T : ~(y < x)
    <2>1. Nat \ T \subseteq Nat
      OBVIOUS
    <2> QED
      BY <2>1, Least
  <1>2. x # 0 /\ x - 1 \in Nat /\ x - 1 \in T
    BY <1>1
  <1> QED
    BY <1>1, <1>2

\* f is the standing after each of the first m lines.
Standings(f, lines, m) ==
  f = [n \in 0..m |-> IF n = 0 THEN Trusted ELSE judged(f[n - 1], lines[n])]

LEMMA StandingsExist ==
  ASSUME NEW lines, NEW m \in Nat
  PROVE  \E f : Standings(f, lines, m)
  <1> DEFINE T == {k \in Nat : \E f : Standings(f, lines, k)}
  <1>1. 0 \in T
    <2> DEFINE f == [n \in 0..0 |-> Trusted]
    <2>1. \A n \in 0..0 : n = 0
      OBVIOUS
    <2>2. f = [n \in 0..0 |-> IF n = 0 THEN Trusted ELSE judged(f[n - 1], lines[n])]
      BY <2>1
    <2> QED
      BY <2>2 DEF Standings
  <1>2. ASSUME NEW k \in Nat, k \in T PROVE k + 1 \in T
    <2>1. PICK f : Standings(f, lines, k)
      BY <1>2
    <2> DEFINE g == [n \in 0..(k + 1) |-> IF n = k + 1 THEN judged(f[k], lines[k + 1]) ELSE f[n]]
    <2>2. ASSUME NEW n \in 0..(k + 1)
          PROVE  g[n] = IF n = 0 THEN Trusted ELSE judged(g[n - 1], lines[n])
      <3>1. CASE n = k + 1
        <4>1. k \in 0..(k + 1) /\ n # 0 /\ n - 1 = k /\ k # k + 1
          BY <3>1
        <4>2. g[k] = f[k] /\ g[n] = judged(f[k], lines[k + 1])
          BY <3>1, <4>1
        <4> HIDE DEF g
        <4> QED
          BY <3>1, <4>1, <4>2
      <3>2. CASE n # k + 1
        <4>1. n \in 0..k /\ (n # 0 => n - 1 \in 0..(k + 1) /\ n - 1 # k + 1)
          BY <3>2
        <4>2. g[n] = f[n] /\ (n # 0 => g[n - 1] = f[n - 1])
          BY <3>2, <4>1
        <4>3. f[n] = IF n = 0 THEN Trusted ELSE judged(f[n - 1], lines[n])
          BY <2>1, <4>1 DEF Standings
        <4> HIDE DEF g
        <4> QED
          BY <4>2, <4>3
      <3> QED
        BY <3>1, <3>2
    <2>3. Standings(g, lines, k + 1)
      <3>1. g = [n \in 0..(k + 1) |-> g[n]]
        OBVIOUS
      <3> HIDE DEF g
      <3> QED
        BY <2>2, <3>1 DEF Standings
    <2> QED
      BY <2>3
  <1> HIDE DEF T
  <1>3. Nat \subseteq T
    BY <1>1, <1>2, Upwards
  <1> QED
    BY <1>3 DEF T

\* The fold is the standing after the last line.
LEMMA FoldIs ==
  ASSUME NEW lines, Len(lines) \in Nat
  PROVE  \E f : Standings(f, lines, Len(lines)) /\ fold(lines) = f[Len(lines)]
  <1> DEFINE after[n \in 0..Len(lines)] == IF n = 0 THEN Trusted ELSE judged(after[n - 1], lines[n])
  <1>1. fold(lines) = after[Len(lines)]
    BY DEF fold
  <1>2. after = CHOOSE f : f = [n \in 0..Len(lines) |-> IF n = 0 THEN Trusted ELSE judged(f[n - 1], lines[n])]
    OBVIOUS
  <1> HIDE DEF after
  <1>3. \E f : f = [n \in 0..Len(lines) |-> IF n = 0 THEN Trusted ELSE judged(f[n - 1], lines[n])]
    BY StandingsExist DEF Standings
  <1>4. Standings(after, lines, Len(lines))
    BY <1>2, <1>3, Zenon DEF Standings
  <1> QED
    BY <1>1, <1>4

\* A standing that speaks of the lines in S.
Standing(S) == [since : SUBSET S, suspect : SUBSET S, failed : BOOLEAN]

LEMMA JudgedStands ==
  ASSUME NEW S, NEW r \in Standing(S), NEW e, e.id \in S
  PROVE  /\ judged(r, e) \in Standing(S)
         /\ ~passed(e) => r.since \subseteq judged(r, e).since
         /\ ~passed(e) /\ moved_target(e) => e.id \in judged(r, e).since
         /\ e.kind = "base_check" /\ e.check = "failed" => r.since \subseteq judged(r, e).suspect
  <1>1. Trusted \in Standing(S)
    BY DEF Trusted, Standing
  <1>2. e.kind = "base_check" /\ e.check = "failed" => ~passed(e) /\ ~moved_target(e)
    BY DEF passed, proves_target, moved_target
  <1>3. CASE passed(e)
    BY <1>1, <1>2, <1>3 DEF judged
  <1>4. CASE ~passed(e) /\ moved_target(e)
    <2>1. judged(r, e) = [r EXCEPT !.since = @ \cup {e.id}]
      BY <1>4 DEF judged, moved_target
    <2> QED
      BY <1>2, <1>4, <2>1 DEF Standing
  <1>5. CASE ~passed(e) /\ ~moved_target(e) /\ e.kind = "base_check" /\ e.check = "failed"
    <2>1. judged(r, e) = [r EXCEPT !.suspect = @ \cup r.since, !.failed = TRUE]
      BY <1>5 DEF judged
    <2> QED
      BY <1>5, <2>1 DEF Standing
  <1>6. CASE ~passed(e) /\ ~moved_target(e) /\ ~(e.kind = "base_check" /\ e.check = "failed")
    <2>1. judged(r, e) = r
      BY <1>6 DEF judged
    <2> QED
      BY <1>6, <2>1
  <1> QED
    BY <1>3, <1>4, <1>5, <1>6

\* A line that moved the target, and after which nothing passed, is a suspect
\* once a check of the target alone fails.
LEMMA Suspected ==
  ASSUME NEW L, NEW lines \in Seq(L), NEW i \in DOMAIN lines, moved_target(lines[i]),
         LET m == Len(lines) IN /\ i < m /\ lines[m].kind = "base_check" /\ lines[m].check = "failed"
                                /\ \A j \in i..(m - 1) : ~passed(lines[j])
  PROVE  lines[i].id \in fold(lines).suspect
  <1> DEFINE m == Len(lines)
             S == {lines[j].id : j \in DOMAIN lines}
  <1>1. m \in Nat /\ DOMAIN lines = 1..m /\ i \in 1..m /\ i \in Nat
    OBVIOUS
  <1>2. PICK f : Standings(f, lines, m) /\ fold(lines) = f[m]
    BY <1>1, FoldIs
  <1>3. ASSUME NEW n \in 0..m
        PROVE  f[n] = IF n = 0 THEN Trusted ELSE judged(f[n - 1], lines[n])
    BY <1>2 DEF Standings
  <1>4. \A j \in 1..m : lines[j].id \in S
    BY <1>1
  <1> HIDE DEF m, S
  <1> DEFINE T == {n \in Nat : n <= m => f[n] \in Standing(S) /\ (i <= n /\ n < m => lines[i].id \in f[n].since)}
  <1>5. 0 \in T
    <2>1. 0 \in 0..m /\ ~(i <= 0)
      BY <1>1
    <2>2. Trusted \in Standing(S)
      BY DEF Trusted, Standing
    <2> QED
      BY <1>3, <2>1, <2>2
  <1>6. ASSUME NEW n \in Nat, n \in T PROVE n + 1 \in T
    <2>1. SUFFICES ASSUME n + 1 <= m
                   PROVE  f[n + 1] \in Standing(S) /\ (i <= n + 1 /\ n + 1 < m => lines[i].id \in f[n + 1].since)
      OBVIOUS
    <2>2. n <= m /\ n < m /\ n + 1 \in 1..m /\ n + 1 \in 0..m /\ n + 1 # 0 /\ (n + 1) - 1 = n
      BY <1>1, <2>1
    <2>3. f[n] \in Standing(S) /\ (i <= n => lines[i].id \in f[n].since)
      BY <1>6, <2>2
    <2>4. f[n + 1] = judged(f[n], lines[n + 1])
      BY <1>3, <2>2
    <2>5. lines[n + 1].id \in S
      BY <1>4, <2>2
    <2>6. f[n + 1] \in Standing(S)
      BY <2>3, <2>4, <2>5, JudgedStands
    <2>7. ASSUME i <= n + 1, n + 1 < m PROVE lines[i].id \in f[n + 1].since
      <3>1. ~passed(lines[n + 1])
        <4>1. n + 1 \in i..(m - 1)
          BY <1>1, <2>7
        <4> QED
          BY <4>1 DEF m
      <3>2. CASE i = n + 1
        BY <2>3, <2>4, <2>5, <3>1, <3>2, JudgedStands
      <3>3. CASE i # n + 1
        <4>1. i <= n
          BY <1>1, <2>7, <3>3
        <4> QED
          BY <2>3, <2>4, <2>5, <3>1, <4>1, JudgedStands
      <3> QED
        BY <3>2, <3>3
    <2> QED
      BY <2>6, <2>7
  <1> HIDE DEF T
  <1>7. Nat \subseteq T
    BY <1>5, <1>6, Upwards
  <1>8. m - 1 \in Nat /\ m - 1 <= m /\ m \in 1..m /\ m \in 0..m /\ m # 0 /\ i <= m - 1 /\ m - 1 < m
    BY <1>1 DEF m
  <1>9. f[m - 1] \in Standing(S) /\ lines[i].id \in f[m - 1].since
    BY <1>7, <1>8 DEF T
  <1>10. f[m] = judged(f[m - 1], lines[m]) /\ lines[m].id \in S
    BY <1>3, <1>4, <1>8
  <1>11. lines[m].kind = "base_check" /\ lines[m].check = "failed"
    BY DEF m
  <1> QED
    BY <1>2, <1>9, <1>10, <1>11, JudgedStands

-------------------------------------------------------------------------------
(* The order of the log's lines is that of the commits they are of, as far  *)
(* as a pass of one absolves the others.                                    *)

\* The commits of a land or an undo whose line isn't written yet.
Pending == {n \in 1..tip : target[n].by # Human /\ target[n].by \notin ids}

Ordered ==
  /\ \A n, m \in Pending : n = m
  /\ \A n \in Pending : /\ target[n].by \in Lands => landing # None /\ landing.who = target[n].by
                        /\ \A i \in DOMAIN log : moved_target(log[i]) => log[i].at < n
  /\ landing # None => /\ target[landing.at].by = landing.who
                       /\ landing.check = "passed" => target[landing.at].tree \cap Bad = {}
  /\ \A j \in DOMAIN log : passed(log[j]) =>
       /\ target[log[j].at].tree \cap Bad = {}
       /\ \A i \in DOMAIN log : i < j /\ moved_target(log[i]) => log[i].at <= log[j].at

\* No check of the target alone counts once the target moved.
Timely == "late verdict" \notin Races

LEMMA OrderedStill == ASSUME Ordered, UNCHANGED <<target, log, landing>> PROVE Ordered'
  <1>1. Pending' = Pending
    BY DEF Pending, tip, ids
  <1> QED
    BY <1>1 DEF Ordered

\* While one is, who made it has the lock.
LEMMA Holds ==
  ASSUME Inv, Ordered, NEW n \in Pending, up = "up"
  PROVE  /\ lock = target[n].by /\ lock # None
         /\ lock \in Undos => task[lock].pc = "log"
  <1> DEFINE b == target[n].by
  <1>1. Target /\ Logged /\ Landing
    BY DEF Inv
  <1>2. n \in 1..tip /\ b # Human /\ b \notin ids
    BY DEF Pending
  <1>3. b \in Lands \cup Undos /\ b # None /\ b \in makers
    <2>1. target[n] \in Commit1
      BY <1>1, <1>2 DEF Target, tip
    <2> QED
      BY <1>2, <2>1, UndoAssumption DEF Commit1, makers
  <1>4. CASE b \in Lands
    <2>1. landing # None /\ landing.who = b
      BY <1>4 DEF Ordered
    <2> QED
      BY <1>1, <1>3, <1>4, <2>1, UndoAssumption DEF Landing
  <1>5. CASE b \in Undos
    <2>1. LandedOf(undone, b, undo[b], task[b].pc) /\ CallOf(undo[b], task[b].pc)
          /\ LockOf(lock, b, undo[b], task[b].pc)
      BY <1>5 DEF Inv, One
    <2>2. n \in revs[b]
      BY <1>2, <1>5 DEF revs, Reverts
    <2>3. task[b].pc = "log"
      BY <1>2, <2>1, <2>2 DEF LandedOf, CallOf
    <2> QED
      BY <1>3, <2>1, <2>3 DEF LockOf, Locking
  <1> QED
    BY <1>3, <1>4, <1>5

\* A commit more: a person's, or one of a land or an undo when no other waits
\* for its line.
LEMMA OrderedExtends ==
  ASSUME Inv, Ordered, NEW c \in Commit1, target' = Append(target, c), log' = log,
         c.by = Human \/ Pending = {},
         \/ c.by \notin Lands /\ landing' = landing
         \/ /\ c.by \in Lands /\ landing' # None /\ landing'.who = c.by /\ landing'.at = tip + 1
            /\ landing'.check = "passed" => c.tree \cap Bad = {}
  PROVE  Ordered'
  <1>1. Target /\ Logged /\ Landing
    BY DEF Inv
  <1>2. /\ tip' = tip + 1 /\ target'[tip + 1] = c /\ ids' = ids
        /\ \A n \in 1..tip : target'[n] = target[n]
    BY <1>1, Extends
  <1>3. tip \in Nat /\ \A i \in DOMAIN log : log[i].at \in 1..tip
    BY <1>1 DEF Target, tip, Logged, LineOf
  <1>4. \A n : n \in 1..tip' <=> n \in 1..tip \/ n = tip + 1
    BY <1>2, <1>3
  <1>5. ASSUME NEW n \in Pending'
        PROVE  \/ n \in Pending /\ target'[n] = target[n] /\ c.by = Human
               \/ n = tip + 1 /\ target'[n] = c /\ c.by # Human
    BY <1>2, <1>4 DEF Pending
  <1>6. \A n, m \in Pending' : n = m
    BY <1>5 DEF Ordered
  <1>7. ASSUME NEW n \in Pending'
        PROVE  /\ target'[n].by \in Lands => landing' # None /\ landing'.who = target'[n].by
               /\ \A i \in DOMAIN log : moved_target(log[i]) => log[i].at < n
    <2>1. CASE n \in Pending /\ target'[n] = target[n] /\ c.by = Human
      <3>1. landing' = landing
        BY <2>1, UndoAssumption
      <3> QED
        BY <2>1, <3>1 DEF Ordered
    <2>2. CASE n = tip + 1 /\ target'[n] = c
      BY <1>3, <2>2
    <2> QED
      BY <1>5, <2>1, <2>2
  <1>8. ASSUME landing' # None
        PROVE  /\ target'[landing'.at].by = landing'.who
               /\ landing'.check = "passed" => target'[landing'.at].tree \cap Bad = {}
    <2>1. CASE landing' = landing
      <3>1. landing.at \in 1..tip
        <4>1. landing.at \in 2..tip
          BY <1>1, <1>8, <2>1 DEF Landing
        <4> QED
          BY <1>3, <4>1
      <3> QED
        BY <1>2, <1>8, <2>1, <3>1 DEF Ordered
    <2>2. CASE landing'.who = c.by /\ landing'.at = tip + 1 /\ (landing'.check = "passed" => c.tree \cap Bad = {})
      BY <1>2, <2>2
    <2> QED
      BY <2>1, <2>2
  <1>9. \A j \in DOMAIN log : passed(log[j]) =>
          /\ target'[log[j].at].tree \cap Bad = {}
          /\ \A i \in DOMAIN log : i < j /\ moved_target(log[i]) => log[i].at <= log[j].at
    BY <1>2, <1>3 DEF Ordered
  <1> QED
    BY <1>6, <1>7, <1>8, <1>9 DEF Ordered

\* A line more: of the commit that waits for it, or of a check of the tip.
LEMMA OrderedWrites ==
  ASSUME Inv, Ordered, NEW e \in Line1, log' = Append(log, e), target' = target,
         e.id = None \/ e.id \notin ids, e.at \in 1..tip,
         passed(e) => target[e.at].tree \cap Bad = {},
         \/ e.kind = "base_check" /\ e.at = tip /\ landing' = landing
         \/ e.at \in Pending /\ e.id = target[e.at].by /\ (landing' = None \/ (landing' = landing /\ e.id \in Undos))
  PROVE  Ordered'
  <1>1. Target /\ Logged /\ Landing
    BY DEF Inv
  <1>2. /\ tip' = tip /\ ids' = ids \cup {e.id}
        /\ DOMAIN log' = DOMAIN log \cup {Len(log) + 1} /\ log'[Len(log) + 1] = e
        /\ Len(log) + 1 \notin DOMAIN log /\ \A i \in DOMAIN log : log'[i] = log[i]
    BY <1>1, Writes
  <1>3. tip \in Nat /\ \A i \in DOMAIN log : log[i].at \in 1..tip
    BY <1>1 DEF Target, tip, Logged, LineOf
  <1>4. DOMAIN log = 1..Len(log) /\ Len(log) \in Nat
    BY <1>1 DEF Logged
  <1>5. Pending' \subseteq Pending /\ (Pending' = {} \/ (e.kind = "base_check" /\ landing' = landing))
    <2>1. Pending' \subseteq Pending
      BY <1>2 DEF Pending
    <2>2. ASSUME e.at \in Pending, e.id = target[e.at].by PROVE Pending' = {}
      <3>1. \A n \in Pending : n = e.at
        BY <2>2 DEF Ordered
      <3>2. e.at \notin Pending'
        BY <1>2, <2>2 DEF Pending
      <3> QED
        BY <2>1, <3>1, <3>2
    <2> QED
      BY <2>1, <2>2
  <1>6. \A n, m \in Pending' : n = m
    BY <1>5 DEF Ordered
  <1>7. ASSUME NEW n \in Pending'
        PROVE  /\ target[n].by \in Lands => landing' # None /\ landing'.who = target[n].by
               /\ \A i \in DOMAIN log' : moved_target(log'[i]) => log'[i].at < n
    <2>1. n \in Pending /\ e.kind = "base_check" /\ landing' = landing
      BY <1>5, <1>7
    <2>2. ~moved_target(e)
      BY <2>1 DEF moved_target
    <2>3. \A i \in DOMAIN log : moved_target(log[i]) => log[i].at < n
      BY <2>1 DEF Ordered
    <2>4. \A i \in DOMAIN log' : log'[i] = e \/ (i \in DOMAIN log /\ log'[i] = log[i])
      BY <1>2
    <2>5. \A i \in DOMAIN log' : moved_target(log'[i]) => log'[i].at < n
      BY <2>2, <2>3, <2>4
    <2> QED
      BY <2>1, <2>5 DEF Ordered
  <1>8. landing' # None => /\ target[landing'.at].by = landing'.who
                           /\ landing'.check = "passed" => target[landing'.at].tree \cap Bad = {}
    BY DEF Ordered
  <1>9. ASSUME NEW j \in DOMAIN log', passed(log'[j])
        PROVE  /\ target[log'[j].at].tree \cap Bad = {}
               /\ \A i \in DOMAIN log' : i < j /\ moved_target(log'[i]) => log'[i].at <= log'[j].at
    <2>1. CASE j \in DOMAIN log
      <3>1. \A i \in DOMAIN log' : i < j => i \in DOMAIN log
        BY <1>2, <1>4, <2>1
      <3> QED
        BY <1>2, <1>9, <2>1, <3>1 DEF Ordered
    <2>2. CASE j = Len(log) + 1
      <3>1. \A i \in DOMAIN log' : i < j => i \in DOMAIN log
        BY <1>2, <1>4, <2>2
      <3>2. \A i \in DOMAIN log : moved_target(log[i]) => log[i].at <= e.at
        <4>1. CASE e.at = tip
          BY <1>3, <4>1
        <4>2. CASE e.at \in Pending
          <5>1. \A i \in DOMAIN log : moved_target(log[i]) => log[i].at < e.at
            BY <4>2 DEF Ordered
          <5> QED
            BY <1>3, <5>1
        <4> QED
          BY <4>1, <4>2
      <3> QED
        BY <1>2, <1>9, <2>2, <3>1, <3>2
    <2> QED
      BY <1>2, <2>1, <2>2
  <1> QED
    BY <1>6, <1>7, <1>8, <1>9 DEF Ordered

LEMMA CasOrders == ASSUME Inv, Ordered, NEW u \in Undos, Cas(u) PROVE Ordered'
  <1> DEFINE k == task[u].u
             m == [tree |-> k.revert, by |-> u]
  <1>1. log' = log /\ landing' = landing /\ up = "up" /\ task[u].pc = "cas"
    BY DEF Cas, rest, At
  <1>2. CASE target' = target
    BY <1>1, <1>2, OrderedStill
  <1>3. CASE target' # target
    <2>1. target' = Append(target, m)
      BY <1>3 DEF Cas
    <2>2. /\ FileOf(seen, u, undo[u]) /\ CopyOf(seen, u, undo[u], "cas", k, task[u].check)
          /\ CallOf(undo[u], "cas") /\ LockOf(lock, u, undo[u], "cas")
      BY <1>1 DEF Inv, One
    <2>3. /\ Sound(seen, u, k) /\ k = undo[u] /\ undo[u].state = "advancing" /\ undo[u] # None
          /\ lock = u
      BY <2>2 DEF CopyOf, Copied, CallOf, LockOf, Locking
    <2>4. m \in Commit1 /\ m.by = u
      <3>1. k.revert \in SUBSET Changes
        BY <2>2, <2>3 DEF FileOf, Agreed, Sound, UndoState
      <3> QED
        BY <3>1 DEF Commit1
    <2>5. Pending = {}
      <3>1. \A n \in Pending : task[u].pc = "log"
        BY <1>1, <2>3, Holds
      <3> QED
        BY <1>1, <3>1
    <2>6. m.by \notin Lands
      BY <2>4, UndoAssumption
    <2> HIDE DEF m
    <2> QED
      BY <1>1, <2>1, <2>4, <2>5, <2>6, OrderedExtends
  <1> QED
    BY <1>2, <1>3

LEMMA LandMovesOrders == ASSUME Inv, Ordered, NEW l \in Lands, LandMoves(l) PROVE Ordered'
  <1> DEFINE c == [tree |-> merged(l), by |-> l]
             ck == IF CHECK THEN "passed" ELSE ""
  <1>1. Target
    BY DEF Inv
  <1>2. tree(tip) \in SUBSET Changes
    BY <1>1, Trees
  <1>3. merged(l) \in SUBSET Changes
    BY <1>2 DEF merged, Changes
  <1>4. c \in Commit1 /\ c.by = l /\ c.tree = merged(l)
    BY <1>3 DEF Commit1
  <1>5. /\ target' = Append(target, c) /\ log' = log /\ lock = None /\ up = "up" /\ landing = None
        /\ landing' = [who |-> l, at |-> tip + 1, check |-> ck] /\ passes(merged(l))
    BY DEF LandMoves
  <1> HIDE DEF c
  <1>6. Pending = {}
    BY <1>5, Holds
  <1>7. /\ landing' # None /\ landing'.who = l /\ landing'.at = tip + 1
        /\ landing'.check = "passed" => c.tree \cap Bad = {}
    <2>1. ck \in {"passed", ""} /\ (ck = "passed" => CHECK)
      OBVIOUS
    <2> HIDE DEF ck
    <2>2. tip + 1 \in Nat
      BY <1>1 DEF Target, tip
    <2>3. landing' \in [who : Lands, at : Nat, check : {"passed", ""}]
      BY <1>5, <2>1, <2>2
    <2>4. landing' # None
      BY <2>3, UndoAssumption
    <2>5. ck = "passed" => c.tree \cap Bad = {}
      BY <1>4, <1>5, <2>1 DEF passes
    <2> QED
      BY <1>5, <2>4, <2>5
  <1> QED
    BY <1>4, <1>5, <1>6, <1>7, OrderedExtends

LEMMA CommitOrders == ASSUME Inv, Ordered, NEW c \in Foreign, Commit(c) PROVE Ordered'
  <1> DEFINE t == IF c \in tree(tip) THEN tree(tip) \ {c} ELSE tree(tip) \cup {c}
             m == [tree |-> t, by |-> Human]
  <1>1. tree(tip) \in SUBSET Changes
    BY Trees DEF Inv
  <1>2. t \in SUBSET Changes
    BY <1>1 DEF Changes
  <1>3. target' = Append(target, m) /\ log' = log /\ landing' = landing
    BY DEF Commit
  <1> HIDE DEF t
  <1>4. m \in Commit1 /\ m.by = Human /\ m.by \notin Lands
    BY <1>2, UndoAssumption DEF Commit1
  <1> HIDE DEF m
  <1> QED
    BY <1>3, <1>4, OrderedExtends

\* The line of an undo: its commit waited for it, and is the tree that passed.
LEMMA LinedOrders ==
  ASSUME Inv, Ordered, NEW u \in Undos, NEW y \in UndoState, undo[u] # None, y.undoes = undo[u].undoes,
         y.tip + 1 \in revs[u], y.checked => target[y.tip + 1].tree \cap Bad = {}, log_undo(u, y),
         UNCHANGED <<target, landing>>
  PROVE  Ordered'
  <1>1. CASE has(log, u)
    BY <1>1, OrderedStill DEF log_undo
  <1>2. CASE ~has(log, u)
    <2> DEFINE e == undo_line(u, y)
    <2>1. log' = Append(log, e)
      BY <1>2 DEF log_undo
    <2>2. e \in Line1 /\ e.id = u /\ u \notin ids /\ LineOf(e)
      BY <1>2, UndoLine
    <2>3. e.at = y.tip + 1 /\ e.check = (IF y.checked THEN "passed" ELSE "") /\ e.kind = "undo"
      BY DEF undo_line, Line
    <2> HIDE DEF e
    <2>4. e.at \in 1..tip /\ target[e.at].by = u
      BY <2>3 DEF revs, Reverts
    <2>5. e.at \in Pending
      BY <2>2, <2>4, UndoAssumption DEF Pending
    <2>6. passed(e) => target[e.at].tree \cap Bad = {}
      BY <2>3 DEF passed, proves_target
    <2> QED
      BY <2>1, <2>2, <2>4, <2>5, <2>6, OrderedWrites
  <1> QED
    BY <1>1, <1>2

LEMMA LogOrders == ASSUME Inv, Ordered, NEW u \in Undos, Log(u) PROVE Ordered'
  <1> DEFINE x == undo[u]
             k == task[u].u
             b == tree(tip) = k.revert
             y == [k EXCEPT !.same = b]
  <1>1. /\ CopyOf(seen, u, x, "log", k, task[u].check) /\ CallOf(x, "log") /\ LandedOf(undone, u, x, "log")
    BY DEF Inv, One, Log, At
  <1>2. /\ x # None /\ k \in UndoState /\ Sound(seen, u, k) /\ k = x /\ x.state = "advancing"
    BY <1>1 DEF CopyOf, Copied, CallOf, Sound
  <1>3. b \in BOOLEAN
    OBVIOUS
  <1> HIDE DEF b
  <1>4. /\ y \in UndoState /\ y.checked = k.checked /\ y.undoes = k.undoes /\ y.tip = k.tip
    BY <1>2, <1>3, Samed
  <1>5. log_undo(u, y) /\ target' = target /\ landing' = landing
    BY DEF Log, b, world
  <1> HIDE DEF y
  <1>6. y.tip + 1 \in revs[u] /\ target[y.tip + 1].tree = k.revert
    BY <1>1, <1>2, <1>4 DEF LandedOf
  <1>7. y.checked => target[y.tip + 1].tree \cap Bad = {}
    BY <1>2, <1>4, <1>6 DEF Sound
  <1> QED
    BY <1>2, <1>4, <1>5, <1>6, <1>7, LinedOrders

LEMMA SettleOrders == ASSUME Inv, Ordered, NEW u \in Undos, Settle(u) PROVE Ordered'
  <1> DEFINE x == undo[u]
             y == [x EXCEPT !.same = TRUE]
  <1>1. target' = target /\ landing' = landing
    BY DEF Settle, world
  <1>2. CASE log' = log
    BY <1>1, <1>2, OrderedStill
  <1>3. CASE in_target(u) /\ log_undo(u, y)
    <2>1. x # None /\ FileOf(seen, u, x) /\ tip \in Nat
      BY DEF Inv, One, Settle, in_progress, Target, tip
    <2>2. x \in UndoState /\ Sound(seen, u, x) /\ x.tip \in Nat
      BY <2>1 DEF FileOf, Sound, UndoState
    <2>3. /\ y \in UndoState /\ y.checked = x.checked /\ y.undoes = x.undoes /\ y.tip = x.tip
      BY <2>2, Samed
    <2> HIDE DEF y
    <2>4. tip > x.tip /\ target[x.tip + 1] = [tree |-> x.revert, by |-> u]
      BY <1>3 DEF in_target
    <2>5. y.tip + 1 \in revs[u] /\ target[y.tip + 1].tree = x.revert
      <3>1. x.tip + 1 \in 1..tip
        BY <2>1, <2>2, <2>4
      <3> QED
        BY <2>3, <2>4, <3>1 DEF revs, Reverts
    <2>6. y.checked => target[y.tip + 1].tree \cap Bad = {}
      BY <2>2, <2>3, <2>5 DEF Sound
    <2> QED
      BY <1>1, <1>3, <2>1, <2>3, <2>5, <2>6, LinedOrders
  <1> QED
    BY <1>2, <1>3 DEF Settle

LEMMA LandLoggedOrders == ASSUME Inv, Ordered, LandLogged PROVE Ordered'
  <1> DEFINE b == up = "settling" \/ tree(tip) = tree(landing.at)
             e == Line(landing.who, "land", None, landing.at, landing.check, b)
  <1>1. Target /\ Logged /\ Landing
    BY DEF Inv
  <1>2. /\ landing # None /\ landing.who \in Lands /\ landing.at \in 2..tip /\ landing.check \in {"passed", ""}
        /\ landing.who \notin ids
    BY <1>1 DEF Landing, LandLogged
  <1>3. log' = Append(log, e) /\ target' = target /\ landing' = None
    BY DEF LandLogged
  <1>4. b \in BOOLEAN
    OBVIOUS
  <1> HIDE DEF b
  <1>5. e = [id |-> landing.who, kind |-> "land", undoes |-> None, at |-> landing.at,
             check |-> landing.check, same |-> b]
    BY DEF Line
  <1> HIDE DEF e
  <1>6. landing.at \in 1..tip /\ landing.at \in Nat
    <2>1. tip \in Nat
      BY <1>1, Trees
    <2>2. landing.at \in 2..tip
      BY <1>2
    <2> QED
      BY <2>1, <2>2
  <1>7. e \in Line1
    <2>1. landing.at \in Nat /\ landing.check \in {"passed", "failed", ""}
          /\ landing.who \in Lands \cup Undos \cup {None} /\ None \in Lands \cup {None}
          /\ "land" \in {"land", "undo", "base_check"}
      BY <1>2, <1>6
    <2> QED
      BY <1>4, <1>5, <2>1, IsLine
  <1>8. target[landing.at].by = landing.who /\ (landing.check = "passed" => target[landing.at].tree \cap Bad = {})
    BY <1>2 DEF Ordered
  <1>9. landing.at \in Pending
    BY <1>2, <1>6, <1>8, UndoAssumption DEF Pending
  <1>10. e.id = landing.who /\ e.at = landing.at /\ e.check = landing.check /\ e.kind = "land"
    BY <1>5
  <1>11. passed(e) => target[e.at].tree \cap Bad = {}
    BY <1>8, <1>10 DEF passed, proves_target
  <1> QED
    BY <1>2, <1>3, <1>6, <1>7, <1>8, <1>9, <1>10, <1>11, OrderedWrites

\* A check of the target alone that ends, and what its line says of the tip.
LEMMA BaseLine ==
  ASSUME Inv, BaseEnds, Timely, log' # log
  PROVE  \E e \in Line1 :
           /\ log' = Append(log, e) /\ e.id = None /\ e.kind = "base_check" /\ e.at = tip
           /\ tip \in 1..tip /\ (e.check = "passed" => target[tip].tree \cap Bad = {})
           /\ e.check \in {"passed", "failed"}
  <1> DEFINE ck == IF tree(RUNNING) \cap Bad = {} THEN "passed" ELSE "failed"
             e == Line(None, "base_check", None, RUNNING, ck, TRUE)
  <1>1. log' = Append(log, e) /\ RUNNING = tip
    BY Zenon DEF BaseEnds, Timely
  <1>2. tip \in Nat /\ tip \in 1..tip
    <2>1. tip \in Nat /\ tip >= 1
      BY Trees DEF Inv
    <2> QED
      BY <2>1
  <1>3. ck \in {"passed", "failed"} /\ (ck = "passed" => target[tip].tree \cap Bad = {})
    BY <1>1 DEF tree
  <1> HIDE DEF ck
  <1>4. e = [id |-> None, kind |-> "base_check", undoes |-> None, at |-> tip, check |-> ck, same |-> TRUE]
    BY <1>1 DEF Line
  <1> HIDE DEF e
  <1>5. e \in Line1
    <2>1. ck \in {"passed", "failed", ""} /\ None \in Lands \cup Undos \cup {None} /\ None \in Lands \cup {None}
          /\ "base_check" \in {"land", "undo", "base_check"} /\ TRUE \in BOOLEAN
      BY <1>3
    <2> QED
      BY <1>2, <1>4, <2>1, IsLine
  <1> QED
    BY <1>1, <1>2, <1>3, <1>4, <1>5

LEMMA BaseEndsOrders == ASSUME Inv, Ordered, BaseEnds, Timely PROVE Ordered'
  <1>1. target' = target /\ landing' = landing
    BY DEF BaseEnds, rest
  <1>2. CASE log' = log
    BY <1>1, <1>2, OrderedStill
  <1>3. CASE log' # log
    <2>1. PICK e \in Line1 :
            /\ log' = Append(log, e) /\ e.id = None /\ e.kind = "base_check" /\ e.at = tip
            /\ tip \in 1..tip /\ (e.check = "passed" => target[tip].tree \cap Bad = {})
      BY <1>3, BaseLine
    <2>2. passed(e) => target[e.at].tree \cap Bad = {}
      BY <2>1 DEF passed, proves_target, moved_target
    <2> QED
      BY <1>1, <2>1, <2>2, OrderedWrites
  <1> QED
    BY <1>2, <1>3

LEMMA OrderedNext == ASSUME Inv, Ordered, Timely, [Next]_vars PROVE Ordered'
  <1>1. ASSUME NEW u \in Undos, Step(u) PROVE Ordered'
    <2>1. CASE Cas(u) \/ Log(u)
      BY <2>1, CasOrders, LogOrders
    <2>2. CASE ~Cas(u) /\ ~Log(u)
      <3>1. UNCHANGED <<target, log, landing>>
        BY <1>1, <2>2 DEF Step, Drive, Tip, Queue, Queued, Advance, Mark, Done, Post, Close, Ask, Asked, rest, world
      <3> QED
        BY <3>1, OrderedStill
    <2> QED
      BY <2>1, <2>2
  <1>2. ASSUME NEW u \in Undos, CheckEnds(u) \/ CheckHeard(u) \/ Approve(u) \/ Deny(u) PROVE Ordered'
    <2>1. UNCHANGED <<target, log, landing>>
      BY <1>2 DEF CheckEnds, CheckHeard, Approve, Deny, Answered, rest, world
    <2> QED
      BY <2>1, OrderedStill
  <1>3. ASSUME NEW u \in Undos, NEW l \in Lands, CoordinatorUndoes(u, l) \/ HumanUndoes(u, l) PROVE Ordered'
    <2>1. UNCHANGED <<target, log, landing>>
      BY <1>3 DEF CoordinatorUndoes, HumanUndoes, Begin, rest
    <2> QED
      BY <2>1, OrderedStill
  <1>4. ASSUME NEW l \in Lands, Preview(l) \/ LandMoves(l) \/ LandFails(l) PROVE Ordered'
    <2>1. CASE Preview(l) \/ LandFails(l)
      <3>1. UNCHANGED <<target, log, landing>>
        BY <2>1 DEF Preview, LandFails, world
      <3> QED
        BY <3>1, OrderedStill
    <2> QED
      BY <1>4, <2>1, LandMovesOrders
  <1>5. CASE SetCheck \/ Crash \/ Restart \/ Refile \/ UNCHANGED vars
    <2>1. UNCHANGED <<target, log, landing>>
      BY <1>5 DEF SetCheck, Crash, Restart, Refile, vars, world
    <2> QED
      BY <2>1, OrderedStill
  <1> QED
    BY <1>1, <1>2, <1>3, <1>4, <1>5, CommitOrders, SettleOrders, LandLoggedOrders, BaseEndsOrders DEF Next, Startup

\* Only a check of the target alone logs a failure.
LEMMA FailsAlone ==
  ASSUME Inv, [Next]_vars, Len(log') > Len(log), log'[Len(log')].check = "failed"
  PROVE  BaseEnds
  <1>1. Logged /\ Landing /\ Len(log) \in Nat
    BY DEF Inv, Logged
  <1>2. log' # log
    BY <1>1
  <1>3. ASSUME NEW e \in Line1, log' = Append(log, e) PROVE e.check = "failed"
    BY <1>1, <1>3 DEF Logged
  <1>4. ASSUME NEW u \in Undos, NEW y \in UndoState, log_undo(u, y) PROVE FALSE
    <2>1. log' = Append(log, undo_line(u, y))
      BY <1>2, <1>4 DEF log_undo
    <2>2. undo_line(u, y).check # "failed"
      BY DEF undo_line, Line
    <2>3. Len(log') = Len(log) + 1 /\ log'[Len(log) + 1] = undo_line(u, y)
      BY <1>1, <2>1 DEF Logged
    <2> QED
      BY <2>2, <2>3
  <1>5. ASSUME NEW u \in Undos, Step(u) PROVE FALSE
    <2>1. Log(u)
      BY <1>2, <1>5 DEF Step, Drive, Tip, Queue, Queued, Advance, Cas, Mark, Done, Post, Close, Ask, Asked, rest, world
    <2> DEFINE k == task[u].u
               b == tree(tip) = k.revert
    <2>2. CopyOf(seen, u, undo[u], "log", k, task[u].check)
      BY <2>1 DEF Inv, One, Log, At
    <2>3. k \in UndoState /\ b \in BOOLEAN
      BY <2>2 DEF CopyOf, Copied, Sound
    <2>4. log_undo(u, [k EXCEPT !.same = b])
      BY <2>1 DEF Log
    <2> HIDE DEF b
    <2>5. [k EXCEPT !.same = b] \in UndoState
      BY <2>3, Samed
    <2> QED
      BY <1>4, <2>4, <2>5
  <1>6. ASSUME NEW u \in Undos, Settle(u) PROVE FALSE
    <2>1. log_undo(u, [undo[u] EXCEPT !.same = TRUE])
      BY <1>2, <1>6 DEF Settle
    <2>2. undo[u] \in UndoState
      BY <1>6 DEF Settle, in_progress, Inv, Flags
    <2>3. [undo[u] EXCEPT !.same = TRUE] \in UndoState
      BY <2>2, Samed
    <2> QED
      BY <1>4, <2>1, <2>3
  <1>7. CASE LandLogged
    <2> DEFINE b == up = "settling" \/ tree(tip) = tree(landing.at)
               e == Line(landing.who, "land", None, landing.at, landing.check, b)
    <2>1. log' = Append(log, e)
      BY <1>7 DEF LandLogged
    <2>2. e.check # "failed"
      BY <1>1, <1>7 DEF Line, LandLogged, Landing
    <2> HIDE DEF e
    <2>3. Len(log') = Len(log) + 1 /\ log'[Len(log) + 1] = e
      BY <1>1, <2>1 DEF Logged
    <2> QED
      BY <2>2, <2>3
  <1>8. ASSUME NEW u \in Undos, CheckEnds(u) \/ CheckHeard(u) \/ Approve(u) \/ Deny(u) PROVE FALSE
    BY <1>2, <1>8 DEF CheckEnds, CheckHeard, Approve, Deny, Answered
  <1>9. ASSUME NEW u \in Undos, NEW l \in Lands, CoordinatorUndoes(u, l) \/ HumanUndoes(u, l) PROVE FALSE
    BY <1>2, <1>9 DEF CoordinatorUndoes, HumanUndoes, Begin
  <1>10. ASSUME NEW l \in Lands, Preview(l) \/ LandMoves(l) \/ LandFails(l) PROVE FALSE
    BY <1>2, <1>10 DEF Preview, LandMoves, LandFails
  <1>11. ASSUME NEW c \in Foreign, Commit(c) PROVE FALSE
    BY <1>2, <1>11 DEF Commit
  <1>12. CASE SetCheck \/ Crash \/ Restart \/ Refile \/ UNCHANGED vars
    BY <1>2, <1>12 DEF SetCheck, Crash, Restart, Refile, vars
  <1> QED
    BY <1>5, <1>6, <1>7, <1>8, <1>9, <1>10, <1>11, <1>12 DEF Next, Startup

LEMMA OrderedInit == ASSUME Init PROVE Ordered
  <1>1. tip = 1 /\ target[1].by = Human /\ DOMAIN log = {} /\ landing = None
    BY DEF Init, tip
  <1>2. Pending = {}
    <2>1. \A n \in 1..1 : n = 1
      OBVIOUS
    <2> QED
      BY <1>1, <2>1 DEF Pending
  <1> QED
    BY <1>1, <1>2 DEF Ordered

\* What brought what the tip fails with is not absolved, so it is a suspect.
LEMMA Unabsolved ==
  ASSUME Inv, Ordered, Timely, [Next]_vars, Len(log') > Len(log), log'[Len(log')].check = "failed",
         NEW i \in DOMAIN log, moved_target(log[i]), NEW c \in tree(log'[Len(log')].at) \cap Bad,
         log[i].at \in brought(c, log'[Len(log')].at)
  PROVE  log[i].id \in fold(log').suspect
  <1> DEFINE n == log'[Len(log')].at
  <1> HIDE DEF n
  <1>1. log \in Seq(Line1) /\ Len(log) \in Nat /\ DOMAIN log = 1..Len(log) /\ BaseEnds
    BY FailsAlone DEF Inv, Logged
  <1>2. PICK e \in Line1 : log' = Append(log, e) /\ e.kind = "base_check" /\ e.at = tip
    <2>1. log' # log
      BY <1>1
    <2> QED
      BY <1>1, <2>1, BaseLine
  <1>3. /\ log' \in Seq(Line1) /\ Len(log') = Len(log) + 1 /\ log'[Len(log) + 1] = e
        /\ DOMAIN log' = 1..(Len(log) + 1) /\ \A j \in DOMAIN log : log'[j] = log[j]
    BY <1>1, <1>2
  <1>4. n = tip /\ tip \in Nat
    <2>1. tip \in Nat
      BY Trees DEF Inv
    <2> QED
      BY <1>2, <1>3, <2>1 DEF n
  <1>5. target' = target
    BY <1>1 DEF BaseEnds
  <1>6. log[i].at \in 2..tip /\ \A m \in log[i].at..tip : c \in tree(m)
    <2>1. log[i].at \in brought(c, tip)
      BY <1>4 DEF n
    <2> QED
      BY <2>1, Zenon DEF brought
  <1>7. ASSUME NEW j \in i..Len(log) PROVE ~passed(log[j])
    <2>1. SUFFICES ASSUME passed(log[j]) PROVE FALSE
      OBVIOUS
    <2>2. j \in DOMAIN log /\ (i < j \/ i = j)
      BY <1>1
    <2>3. /\ target[log[j].at].tree \cap Bad = {}
          /\ i < j => log[i].at <= log[j].at
      BY <2>1, <2>2 DEF Ordered
    <2>4. log[j].at \in 1..tip
      BY <2>2 DEF Inv, Logged, LineOf
    <2>5. log[j].at \in log[i].at..tip
      BY <1>4, <1>6, <2>2, <2>3, <2>4
    <2> QED
      BY <1>6, <2>3, <2>5 DEF tree
  <1>8. i \in DOMAIN log' /\ moved_target(log'[i]) /\ log'[i].id = log[i].id
    BY <1>1, <1>3
  <1>9. /\ i < Len(log') /\ log'[Len(log')].kind = "base_check" /\ log'[Len(log')].check = "failed"
        /\ \A j \in i..(Len(log') - 1) : ~passed(log'[j])
    <2>1. \A j \in i..(Len(log') - 1) : j \in i..Len(log) /\ log'[j] = log[j]
      BY <1>1, <1>3
    <2> QED
      BY <1>1, <1>2, <1>3, <1>7, <2>1
  <1> QED
    BY <1>3, <1>8, <1>9, Suspected

\* With no verdict on a target that moved, when the target fails its check alone
\* each line that brought what it fails with is a suspect: the order of the log's
\* lines is that of the commits, so that nothing that passed after such a line
\* can clear it (base_check.rs: ended; log.rs: fold).
THEOREM CulpritIsNamed == ASSUME "late verdict" \notin Races PROVE Spec => CulpritNamed
  <1>1. Timely
    BY DEF Timely
  <1>2. Init => Ordered
    BY OrderedInit
  <1>3. Inv /\ Ordered /\ [Next]_vars => Ordered'
    BY <1>1, OrderedNext
  <1>4. Inv /\ Ordered /\ [Next]_vars =>
          [Len(log') > Len(log) /\ log'[Len(log')].check = "failed" =>
             LET n == log'[Len(log')].at IN
             \A i \in DOMAIN log : moved_target(log[i]) =>
               \A c \in tree(n) \cap Bad :
                 log[i].at \in brought(c, n) => log[i].id \in fold(log').suspect]_vars
    BY <1>1, Unabsolved
  <1> QED
    BY <1>2, <1>3, <1>4, AlwaysInv, PTL DEF Spec, CulpritNamed
=============================================================================
