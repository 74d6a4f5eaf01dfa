---------------------------- MODULE Batch_proofs ----------------------------
(***************************************************************************)
(* What Batch promises for any workers, commits, breaking sets and bounds:  *)
(* its types, that a land under way is in one pair of hands (OneDriver),    *)
(* that the land log agrees with Base (LogIsTrue), that nobody is blamed    *)
(* for another's change (Innocent), and that it implements Landings.        *)
(*                                                                         *)
(* None of these is inductive.  Inv says what the run knows at each of its  *)
(* steps (Stage), that what is said of a check is said of the chain in hand *)
(* (Verdict), that the sets still to land are disjoint and wait (Apart),    *)
(* and, of each worker, what its record says of Base and the log (Book),    *)
(* who drives it outside the batch (Away) and where it is in it (Within).   *)
(***************************************************************************)
EXTENDS Batch, FiniteSetTheorems, SequenceTheorems, TLAPS

(* Records, and what a step makes of them.                                  *)

Repos  == {"pending", "checking", "tested", "advancing", "landed"}
Record == [state : States, repo : Repos, tested : SUBSET Changes]
Records == [Workers -> Record]

\* Records put in state s, their chain fields cleared; marked s and p, the
\* tested commit theirs still; the others untouched.
Reset(S, s) ==
  /\ rec' \in Records
  /\ \A w \in Workers : IF w \in S THEN /\ rec'[w].state = s
                                        /\ rec'[w].repo = IF rec[w].repo = "landed" THEN "landed" ELSE "pending"
                        ELSE rec'[w] = rec[w]

Marked(S, s, p) ==
  /\ rec' \in Records
  /\ \A w \in Workers : IF w \in S THEN /\ rec'[w].state = s /\ rec'[w].repo = p
                                        /\ rec'[w].tested = rec[w].tested
                        ELSE rec'[w] = rec[w]

LEMMA PutOne ==
  ASSUME rec \in Records, NEW w \in Workers, NEW s \in States
  PROVE  /\ Put(w, s) \in Record /\ Put(w, s).state = s
         /\ Put(w, s).repo = IF rec[w].repo = "landed" THEN "landed" ELSE "pending"
  BY DEF Records, Record, Repos, Put, detach

LEMMA ResetOne ==
  ASSUME rec \in Records, NEW w \in Workers, NEW s \in States,
         rec' = [rec EXCEPT ![w] = Put(w, s)]
  PROVE  Reset({w}, s)
  BY PutOne DEF Reset, Records

LEMMA ResetMany ==
  ASSUME rec \in Records, NEW S \in SUBSET Workers, NEW s \in States,
         rec' = [w \in Workers |-> IF w \in S THEN Put(w, s) ELSE rec[w]]
  PROVE  Reset(S, s)
  <1>1. rec' \in Records
    BY PutOne DEF Records
  <1> QED
    BY <1>1, PutOne DEF Reset

LEMMA MarkOne ==
  ASSUME rec \in Records, NEW w \in Workers, NEW s \in States, NEW p \in Repos,
         rec' = [rec EXCEPT ![w].state = s, ![w].repo = p]
  PROVE  Marked({w}, s, p)
  BY DEF Marked, Records, Record

LEMMA MarkMany ==
  ASSUME rec \in Records, NEW S \in SUBSET Workers, NEW s \in States, NEW p \in Repos,
         rec' = [w \in Workers |-> IF w \in S THEN [rec[w] EXCEPT !.state = s, !.repo = p] ELSE rec[w]]
  PROVE  Marked(S, s, p)
  BY DEF Marked, Records, Record

LEMMA StateOne ==
  ASSUME rec \in Records, NEW w \in Workers, NEW s \in States, rec' = [rec EXCEPT ![w].state = s]
  PROVE  Marked({w}, s, rec[w].repo)
  BY DEF Marked, Records, Record

LEMMA RepoOne ==
  ASSUME rec \in Records, NEW w \in Workers, NEW p \in Repos, rec' = [rec EXCEPT ![w].repo = p]
  PROVE  Marked({w}, rec[w].state, p)
  BY DEF Marked, Records, Record

-----------------------------------------------------------------------------
(* The inductive invariant, in parts.                                       *)

\* Where the run has nothing in hand, and where it doesn't have the lock.
Quiet == {"off", "scan", "last", "gather", "release", "alone", "drive"}
Loose == {"off", "scan", "last", "alone", "drive"}

Disk ==
  /\ rec \in Records
  /\ base \subseteq Changes
  /\ log \in [Workers -> {0, 1}]

Sets ==
  /\ lock \in Workers \cup {Run, Other, None}
  /\ calling \subseteq Workers /\ solo \subseteq Workers
  /\ set \subseteq Workers /\ alone \subseteq Workers /\ outs \subseteq Workers
  /\ chain \in [base : SUBSET Changes, in : SUBSET Workers, left : SUBSET Workers]

Words ==
  /\ slot \in Ends \cup {"none", "waiting"}
  /\ job \in Ends \cup {"none", "queued"}
  /\ pc \in Quiet \cup Working \cup {"refuse", "hold"}
  /\ end \in Ends \cup {"none"}

Flags ==
  /\ RUNNERS \in BOOLEAN /\ ACTIVE \in BOOLEAN
  /\ RUNNERS <=> pc # "off"

Counts ==
  /\ lands \in 0 .. MaxLands /\ others \in 0 .. MaxOthers /\ crashes \in 0 .. MaxCrashes
  /\ attempts \in 0 .. MaxAttempts
  /\ pc \in Working \ {"pop", "land"} => attempts < MaxAttempts

\* The run's locals: it works under the lock, except to refuse all that wait;
\* a chain is of the set in hand.
Stage ==
  /\ pc \in Loose => lock # Run
  /\ pc \notin Loose /\ lock # Run =>
       pc = "refuse" /\ todo = <<>> /\ set = {} /\ alone = {} /\ end = "none"
  /\ pc \in Quiet => todo = <<>> /\ set = {} /\ end = "none"
  /\ pc \in {"off", "scan", "last", "gather"} => alone = {}
  /\ pc = "ended" => end \in Ends
  /\ pc = "advance" => end = "passed"
  /\ pc \in Chained => chain.in \cap chain.left = {} /\ chain.in \subseteq set /\ chain.left \subseteq set
  /\ pc \in {"land", "refuse", "hold"} => outs \subseteq set \/ todo = <<>>

\* What is said of a chain's check is true of the chain in hand.
tip == chain.base \cup chain.in
Verdict ==
  /\ job = "queued" \/ slot \in Ends => pc \in {"mark", "await", "rx"}
  /\ slot \in Ends => job # "queued"
  /\ slot = "failed" => Fails(tip)
  /\ slot = "passed" => ~Fails(tip)
  /\ pc = "ended" /\ end = "failed" => Fails(tip)
  /\ pc = "ended" /\ end = "passed" => ~Fails(tip)
  /\ pc = "advance" => ~Fails(tip)

\* The sets still to land are apart from each other and from the one in hand,
\* and all of them wait.
Disjoint(s) == \A i, j \in DOMAIN s : i # j => s[i] \cap s[j] = {}
Apart ==
  /\ todo \in Seq(SUBSET Workers)
  /\ Disjoint(todo)
  /\ InSets(todo) \cap set = {}
  /\ \A w \in Workers : w \in InSets(todo) => rec[w].state = "queued_batch"

\* A worker's record, Base and the land log agree.
Book(w) ==
  LET s == rec[w].state  r == rec[w].repo  landing == pc = "land" /\ w \in outs IN
  /\ s = "reported" => r = "pending"
  /\ s = "retired" => r = "landed"
  /\ s = "queued_batch" => r = "pending"
  /\ s = "checking" => r = "checking"
  /\ s = "advancing" => w \in rec[w].tested /\ (r = "advancing" \/ (r = "landed" /\ landing))
  /\ s \in {"held", "locking"} => r \in {"pending", "tested", "landed"}
  /\ landing => s = "advancing" /\ w \in base /\ rec[w].tested \subseteq base
  /\ r = "landed" => log[w] = 1
  /\ log[w] = 1 => w \in base
  /\ w \in base => r = "landed" \/ (r = "advancing" /\ landing)

\* A land's hands outside the batch.
Away(w) ==
  LET s == rec[w].state IN
  /\ w \in calling => s = "locking" /\ w \notin solo \cup alone
  /\ w \in solo => w \notin alone /\ s = IF lock = w THEN "checking" ELSE "locking"
  /\ lock = w => w \in solo
  /\ w \in alone => s = "locking" \/ (s = "queued_batch" /\ pc \in {"release", "alone", "drive"})
  /\ s = "locking" => w \in calling \cup solo \cup alone

\* And in it.
Within(w) ==
  LET s == rec[w].state IN
  /\ s = "queued_batch" => pc # "off"
  /\ s = "checking" => \/ lock = w
                       \/ w \in chain.in /\ pc \in {"await", "rx", "ended"}
                       \/ w \in outs /\ pc = "refuse"
  /\ s = "advancing" => \/ w \in chain.in /\ pc = "advance"
                        \/ w \in set /\ pc = "again"
                        \/ w \in outs /\ pc \in {"land", "refuse", "hold"}
  /\ w \in chain.left /\ pc = "leave" => s = "queued_batch"
  /\ w \in chain.in =>
       /\ pc \in {"leave", "start", "mark"} => s = "queued_batch"
       /\ pc \in {"await", "rx"} => s = "checking"
       /\ pc = "ended" => s = "checking" \/ (s = "queued_batch" /\ end = "unfinished")
       /\ pc = "advance" => s = "advancing"
       /\ pc \in Chained \ {"leave"} => rec[w].tested = tip
  /\ w \in outs =>
       /\ pc = "refuse" => s \in {"queued_batch", "checking", "advancing"}
       /\ pc = "refuse" /\ lock # Run => s = "queued_batch"
       /\ pc = "hold" => s \in {"queued_batch", "advancing"}

Types == Disk /\ Sets /\ Words /\ Flags /\ Counts
Workings == Stage /\ Verdict /\ Apart /\ Innocent
Inv == Types /\ Workings /\ \A w \in Workers : Book(w) /\ Away(w) /\ Within(w)

LEMMA InvTypes == Inv => TypeOK
  <1> SUFFICES ASSUME Inv PROVE TypeOK
    OBVIOUS
  <1>1. /\ rec \in [Workers -> [state : States,
                          repo : {"pending", "checking", "tested", "advancing", "landed"},
                          tested : SUBSET Changes]]
        /\ base \subseteq Changes
    BY DEF Inv, Types, Disk, Records, Record, Repos
  <1>2. log \in [Workers -> Nat]
    BY DEF Inv, Types, Disk
  <1>3. pc \in {"off", "scan", "last", "gather", "pop", "again", "build", "leave", "start",
             "mark", "await", "rx", "ended", "advance", "land", "refuse", "hold", "release",
             "alone", "drive"}
    BY DEF Inv, Types, Words, Quiet, Working
  <1> QED
    BY <1>1, <1>2, <1>3 DEF Inv, Types, Workings, Sets, Words, Flags, Counts, Apart, TypeOK

LEMMA InitInv == Init => Inv
  <1> SUFFICES ASSUME Init PROVE Inv
    OBVIOUS
  <1> USE BatchAssumption DEF Init
  <1>1. Disk /\ \A w \in Workers : rec[w] = [state |-> "reported", repo |-> "pending", tested |-> {}] /\ log[w] = 0
    BY DEF Disk, Records, Record, Repos, States
  <1>2. Sets /\ Words /\ Flags
    BY DEF Sets, Words, Flags, NoChain, Quiet, Working
  <1>3. Counts
    BY DEF Counts, Working
  <1>4. InSets(todo) = {} /\ Apart
    BY DEF Apart, Disjoint, InSets
  <1>5. Stage /\ Verdict /\ Innocent
    BY DEF Stage, Verdict, Innocent, Quiet, Loose, Chained, Ends
  <1>6. ASSUME NEW w \in Workers PROVE Book(w) /\ Away(w) /\ Within(w)
    BY <1>1, <1>6 DEF Book, Away, Within, NoChain, Chained
  <1> QED
    BY <1>1, <1>2, <1>3, <1>4, <1>5, <1>6 DEF Inv, Types, Workings

-----------------------------------------------------------------------------
(* Sequences of sets apart from each other.                                 *)

LEMMA SetsTail ==
  ASSUME NEW s \in Seq(SUBSET Workers), s # <<>>, Disjoint(s)
  PROVE  /\ Tail(s) \in Seq(SUBSET Workers) /\ Disjoint(Tail(s))
         /\ Head(s) \in SUBSET Workers
         /\ InSets(s) = Head(s) \cup InSets(Tail(s))
         /\ Head(s) \cap InSets(Tail(s)) = {}
  <1>1. /\ Tail(s) \in Seq(SUBSET Workers) /\ Len(s) \in Nat \ {0} /\ Len(Tail(s)) = Len(s) - 1
        /\ \A i \in 1..Len(Tail(s)) : Tail(s)[i] = s[i + 1]
        /\ Head(s) = s[1] /\ Head(s) \in SUBSET Workers
    BY HeadTailProperties, LenProperties, EmptySeq
  <1>2. DOMAIN s = 1..Len(s) /\ DOMAIN Tail(s) = 1..Len(Tail(s))
    BY <1>1
  <1>3. Disjoint(Tail(s))
    BY <1>1, <1>2 DEF Disjoint
  <1>4. \A i \in DOMAIN s : i = 1 \/ (i - 1 \in DOMAIN Tail(s) /\ Tail(s)[i - 1] = s[i])
    BY <1>1, <1>2
  <1>5. \A i \in DOMAIN Tail(s) : i + 1 \in DOMAIN s /\ i + 1 # 1 /\ Tail(s)[i] = s[i + 1]
    BY <1>1, <1>2
  <1>6. 1 \in DOMAIN s
    BY <1>1, <1>2
  <1>7. InSets(s) = Head(s) \cup InSets(Tail(s))
    BY <1>1, <1>4, <1>5, <1>6 DEF InSets
  <1>8. Head(s) \cap InSets(Tail(s)) = {}
    BY <1>1, <1>5, <1>6 DEF Disjoint, InSets
  <1> QED
    BY <1>1, <1>3, <1>7, <1>8

LEMMA SetsTwo ==
  ASSUME NEW s \in Seq(SUBSET Workers), Disjoint(s),
         NEW p \in SUBSET Workers, NEW q \in SUBSET Workers, p \cap q = {},
         (p \cup q) \cap InSets(s) = {}
  PROVE  /\ <<p, q>> \o s \in Seq(SUBSET Workers)
         /\ Disjoint(<<p, q>> \o s)
         /\ InSets(<<p, q>> \o s) = p \cup q \cup InSets(s)
  <1> DEFINE t == <<p, q>> \o s
  <1>1. /\ t \in Seq(SUBSET Workers) /\ Len(t) = Len(s) + 2 /\ Len(s) \in Nat
        /\ t[1] = p /\ t[2] = q /\ \A i \in 1..Len(s) : t[i + 2] = s[i]
    OBVIOUS
  <1>2. DOMAIN t = 1..Len(t) /\ DOMAIN s = 1..Len(s)
    BY <1>1
  <1> HIDE DEF t
  <1>3. \A i \in DOMAIN t : \/ i = 1 /\ t[i] = p
                            \/ i = 2 /\ t[i] = q
                            \/ i - 2 \in DOMAIN s /\ t[i] = s[i - 2] /\ s[i - 2] \subseteq InSets(s)
    BY <1>1, <1>2 DEF InSets
  <1>4. \A i \in DOMAIN s : i + 2 \in DOMAIN t /\ t[i + 2] = s[i]
    BY <1>1, <1>2
  <1>5. 1 \in DOMAIN t /\ 2 \in DOMAIN t
    BY <1>1, <1>2
  <1>6. Disjoint(t)
    <2> SUFFICES ASSUME NEW i \in DOMAIN t, NEW j \in DOMAIN t, i # j PROVE t[i] \cap t[j] = {}
      BY DEF Disjoint
    <2>1. i - 2 # j - 2
      BY <1>2
    <2> QED
      BY <1>3, <2>1 DEF Disjoint
  <1>7. InSets(t) = p \cup q \cup InSets(s)
    <2>1. InSets(t) \subseteq p \cup q \cup InSets(s)
      BY <1>3 DEF InSets
    <2>2. p \cup q \subseteq InSets(t)
      BY <1>1, <1>5 DEF InSets
    <2>3. ASSUME NEW i \in DOMAIN s PROVE s[i] \subseteq InSets(t)
      BY <1>4, <2>3 DEF InSets
    <2> QED
      BY <2>1, <2>2, <2>3 DEF InSets
  <1> QED
    BY <1>1, <1>6, <1>7 DEF t

LEMMA SetsOne ==
  ASSUME NEW p \in SUBSET Workers
  PROVE  <<p>> \in Seq(SUBSET Workers) /\ Disjoint(<<p>>) /\ InSets(<<p>>) = p
  BY DEF Disjoint, InSets

LEMMA SetsNone == <<>> \in Seq(SUBSET Workers) /\ Disjoint(<<>>) /\ InSets(<<>>) = {}
  BY DEF Disjoint, InSets

LEMMA SetsAll ==
  ASSUME NEW s \in Seq(SUBSET Workers)
  PROVE  InSets(s) \in SUBSET Workers
  BY DEF InSets

-----------------------------------------------------------------------------
(* The steps, in groups.  The run looks for who waits, takes the lock, lands *)
(* those alone that are to, and ends.                                        *)

Looks == Scan \/ Last \/ TakeLock \/ LockFails \/ Gather \/ Release \/ Driven \/ NoneAlone

LEMMA LooksInv == ASSUME Inv, Looks PROVE Inv'
  <1> USE BatchAssumption
      DEF Inv, Types, Workings, Looks, Scan, Last, TakeLock, LockFails, Gather, Release, Driven, NoneAlone,
          disk, check, calls, counts, Goto
  <1>1. Disk'
    BY DEF Disk
  <1>2. Sets'
    BY DEF Sets, queued
  <1>3. Words'
    BY DEF Words, Quiet, Working
  <1>4. Flags'
    BY DEF Flags
  <1>5. Counts'
    BY DEF Counts, Working
  <1>6. Stage'
    BY DEF Stage, Quiet, Loose, Chained, Working
  <1>7. Verdict' /\ Innocent'
    BY DEF Verdict, Innocent, tip, Stage, Quiet
  <1>8. Apart'
    <2>1. CASE Gather
      <3>1. todo = <<>> /\ set = {} /\ queued \in SUBSET Workers /\ UNCHANGED <<rec, set>>
        BY <2>1 DEF Stage, Quiet, queued
      <3>2. todo' = <<queued>> \/ todo' = todo
        BY <2>1
      <3>3. \A w \in queued : rec[w].state = "queued_batch"
        BY DEF queued
      <3>4. CASE todo' = <<queued>>
        BY <3>1, <3>3, <3>4, SetsOne DEF Apart
      <3>5. CASE todo' = todo
        BY <3>1, <3>5, SetsNone DEF Apart
      <3> QED
        BY <3>2, <3>4, <3>5
    <2>2. CASE ~Gather
      <3>1. UNCHANGED <<rec, set, todo>>
        BY <2>2
      <3> QED
        BY <3>1 DEF Apart, InSets, Disjoint
    <2> QED
      BY <2>1, <2>2
  <1>9. ASSUME NEW w \in Workers PROVE Book(w)'
    BY DEF Book
  <1>10. ASSUME NEW w \in Workers PROVE Away(w)'
    <2>1. Away(w) /\ Sets
      OBVIOUS
    <2>2. CASE Gather
      BY <2>1, <2>2 DEF Away, Stage, queued
    <2>3. CASE TakeLock \/ Release
      <3>1. lock # w /\ lock' # w /\ UNCHANGED <<rec, calling, solo, alone>>
        BY <2>3 DEF Stage, Loose
      <3>2. pc' \in {"gather", "alone"} /\ pc \in {"scan", "release"}
        BY <2>3
      <3>3. pc = "scan" => alone = {}
        BY DEF Stage
      <3> QED
        BY <2>1, <2>3, <3>1, <3>2, <3>3 DEF Away
    <2>4. CASE Scan \/ Last \/ LockFails \/ Driven \/ NoneAlone
      BY <2>1, <2>4 DEF Away, Stage
    <2> QED
      BY <2>2, <2>3, <2>4
  <1>11. ASSUME NEW w \in Workers PROVE Within(w)'
    <2>1. Within(w) /\ Away(w)
      OBVIOUS
    <2>2. CASE Gather
      BY <2>1, <2>2 DEF Within, Chained
    <2>3. CASE TakeLock \/ Release
      <3>1. lock # w /\ lock' # w /\ UNCHANGED <<rec, chain, set, outs, end>>
        BY <2>3 DEF Stage, Loose
      <3>2. pc' \in {"gather", "alone"} /\ pc \in {"scan", "release"}
        BY <2>3
      <3> QED
        BY <2>1, <3>1, <3>2 DEF Within, Chained
    <2>4. CASE Scan \/ Last
      BY <2>1, <2>4 DEF Within, Chained, queued
    <2>5. CASE LockFails
      BY <2>1, <2>5 DEF Within, Chained, queued
    <2>6. CASE Driven \/ NoneAlone
      BY <2>1, <2>6 DEF Within, Chained
    <2> QED
      BY <2>2, <2>3, <2>4, <2>5, <2>6
  <1> QED
    BY <1>1, <1>2, <1>3, <1>4, <1>5, <1>6, <1>7, <1>8, <1>9, <1>10, <1>11

-----------------------------------------------------------------------------
(* The run takes the next set, or the one in hand again, and builds a chain. *)

\* Only waiting members, and those the last chain marked, are taken.
LEMMA TakenStep ==
  ASSUME Inv, NEW s \in SUBSET Workers, rec' = Taken(s)
  PROVE  /\ Reset(members(s), "queued_batch") /\ members(s) \in SUBSET Workers
         /\ \A w \in members(s) : w \in s /\ w \notin alone /\ rec[w].state \in {"queued_batch", "advancing"}
  <1>1. members(s) \in SUBSET Workers
    BY DEF members
  <1> QED
    BY <1>1, ResetMany DEF Taken, members, Inv, Types, Disk, States

LEMMA PopInv == ASSUME Inv, Pop \/ Again PROVE Inv'
  <1> DEFINE s == IF pc = "again" THEN set ELSE Head(todo)
             m == members(s)
  <1>1. /\ rec' = Taken(s) /\ set' = s /\ lock = Run
        /\ pc \in {"again", "pop", "land", "refuse", "hold"} /\ pc' \in {"pop", "build"}
        /\ pc # "again" => todo # <<>> /\ todo' = Tail(todo)
        /\ pc = "again" => UNCHANGED <<todo, chain, attempts, end>>
        /\ pc \in {"land", "refuse", "hold"} => outs = {}
        /\ pc # "again" => chain' = NoChain /\ attempts' = 0 /\ end' = "none"
        /\ m = {} => pc' = "pop"
        /\ UNCHANGED <<base, log, lock, RUNNERS, ACTIVE, slot, job, calling, solo, alone, outs,
                       lands, others, crashes>>
    BY DEF Pop, Again, Free, Goto, check, calls, counts, Inv, Workings, Stage, Loose
  <1>2. /\ s \in SUBSET Workers /\ todo' \in Seq(SUBSET Workers) /\ Disjoint(todo')
        /\ InSets(todo') \subseteq InSets(todo) /\ InSets(todo') \cap s = {}
    <2>1. todo \in Seq(SUBSET Workers) /\ Disjoint(todo) /\ InSets(todo) \cap set = {} /\ set \subseteq Workers
      BY DEF Inv, Types, Workings, Apart, Sets
    <2>2. CASE pc = "again"
      BY <1>1, <2>1, <2>2
    <2>3. CASE pc # "again"
      <3>1. todo # <<>> /\ todo' = Tail(todo) /\ s = Head(todo)
        BY <1>1, <2>3
      <3> QED
        BY <2>1, <3>1, SetsTail
    <2> QED
      BY <2>2, <2>3
  <1> HIDE DEF s, m
  <1>3. /\ Reset(m, "queued_batch") /\ m \in SUBSET Workers
        /\ \A w \in m : w \in s /\ w \notin alone /\ rec[w].state \in {"queued_batch", "advancing"}
    BY <1>1, <1>2, TakenStep DEF m
  <1> USE BatchAssumption DEF Inv, Types, Workings
  <1>4. Disk' /\ Sets' /\ Words' /\ Flags'
    <2>1. Disk'
      BY <1>1, <1>3 DEF Disk, Reset
    <2>2. Sets'
      BY <1>1, <1>2 DEF Sets, NoChain
    <2>3. Words' /\ Flags'
      BY <1>1 DEF Words, Flags, Quiet, Working
    <2> QED
      BY <2>1, <2>2, <2>3
  <1>5. Counts'
    BY <1>1 DEF Counts, Working
  <1>6. Stage' /\ Innocent'
    BY <1>1 DEF Stage, Innocent, Quiet, Loose, Chained
  <1>7. Verdict'
    BY <1>1 DEF Verdict, tip, Ends
  <1>8. Apart'
    BY <1>1, <1>2, <1>3 DEF Apart, Reset
  <1>9. ASSUME NEW w \in Workers PROVE Book(w)' /\ Away(w)' /\ Within(w)'
    <2>1. Book(w) /\ Away(w) /\ Within(w)
      OBVIOUS
    <2>2. CASE w \in m
      <3>1. rec'[w].state = "queued_batch" /\ rec'[w].repo = "pending"
        BY <1>1, <1>3, <2>1, <2>2 DEF Reset, Book
      <3>2. w \notin base /\ log[w] # 1
        BY <1>1, <1>3, <2>1, <2>2 DEF Book
      <3>3. w \notin calling \cup solo \cup alone /\ lock # w
        BY <1>1, <1>3, <2>1, <2>2 DEF Away
      <3> QED
        BY <1>1, <3>1, <3>2, <3>3 DEF Book, Away, Within, Chained
    <2>3. CASE w \notin m
      <3>1. rec'[w] = rec[w]
        BY <1>3, <2>3 DEF Reset
      <3>2. Book(w)'
        BY <1>1, <2>1, <3>1 DEF Book
      <3>3. Away(w)'
        BY <1>1, <2>1, <3>1 DEF Away
      <3>4. Within(w)'
        BY <1>1, <2>1, <2>3, <3>1 DEF Within, Away, Chained, members, m, s
      <3> QED
        BY <3>2, <3>3, <3>4
    <2> QED
      BY <2>2, <2>3
  <1> QED
    BY <1>4, <1>5, <1>6, <1>7, <1>8, <1>9

Builds == BatchDone \/ Build \/ BuildFails

LEMMA BuildsInv == ASSUME Inv, Builds PROVE Inv'
  <1> USE BatchAssumption
      DEF Inv, Types, Workings, Builds, BatchDone, Build, BuildFails, Free, disk, check, calls, counts, Goto
  <1>1. Disk'
    BY DEF Disk
  <1>2. members(set) \in SUBSET set /\ members(set) \in SUBSET Workers /\ Sets'
    BY DEF Sets, members, NoChain, Disk, Changes
  <1>3. Words'
    BY DEF Words, Quiet, Working
  <1>4. Flags'
    BY DEF Flags
  <1>5. Counts'
    BY DEF Counts, Working
  <1>6. Stage'
    BY <1>2 DEF Stage, Quiet, Loose, Chained, Working
  <1>7. Verdict' /\ Innocent'
    BY DEF Verdict, Innocent, tip, Stage, Quiet, Ends
  <1>8. Apart'
    BY DEF Apart
  <1>9. ASSUME NEW w \in Workers PROVE Book(w)'
    BY DEF Book
  <1>10. ASSUME NEW w \in Workers PROVE Away(w)'
    <2>1. Away(w)
      OBVIOUS
    <2> QED
      BY <2>1 DEF Away, Stage, Loose
  <1>11. ASSUME NEW w \in Workers PROVE Within(w)'
    <2>1. Within(w)
      OBVIOUS
    <2>2. CASE BatchDone
      BY <2>1, <2>2 DEF Within, Chained, NoChain
    <2>3. CASE Build \/ BuildFails
      BY <2>1, <2>3 DEF Within, Chained, members, Stage, Loose
    <2> QED
      BY <2>2, <2>3
  <1> QED
    BY <1>1, <1>2, <1>3, <1>4, <1>5, <1>6, <1>7, <1>8, <1>9, <1>10, <1>11

-----------------------------------------------------------------------------
(* The chain: who leaves it, its check, and what the end says.              *)

LEMMA LeaveInv == ASSUME Inv, Leave PROVE Inv'
  <1> USE BatchAssumption DEF Inv, Types, Workings
  <1>1. /\ pc = "leave" /\ pc' \in {"pop", "start"} /\ lock = Run /\ alone' = alone \cup chain.left
        /\ chain.left \in SUBSET Workers /\ chain.in \in SUBSET Workers /\ tip \in SUBSET Changes
        /\ chain.in \cap chain.left = {}
        /\ UNCHANGED <<base, log, lock, RUNNERS, ACTIVE, slot, job, calling, solo, set, todo, chain,
                       attempts, outs, end, lands, others, crashes>>
    BY DEF Leave, Goto, check, calls, counts, Sets, Stage, Loose, Chained, tip, Changes
  <1>2. /\ rec' \in Records
        /\ \A w \in chain.left : rec'[w].state = "locking" /\ rec'[w].repo \in {"pending", "landed"}
                                 /\ (rec'[w].repo = "landed" <=> rec[w].repo = "landed")
        /\ \A w \in chain.in : rec'[w] = [rec[w] EXCEPT !.tested = tip]
        /\ \A w \in Workers \ (chain.in \cup chain.left) : rec'[w] = rec[w]
    <2>1. \A w \in Workers : /\ Left(w) \in Record /\ Left(w).state = "locking"
                             /\ Left(w).repo = IF rec[w].repo = "landed" THEN "landed" ELSE "pending"
      BY PutOne DEF Left, Disk, States
    <2>2. \A w \in Workers : [rec[w] EXCEPT !.tested = tip] \in Record
      BY <1>1 DEF Disk, Records, Record
    <2>3. rec' = [w \in Workers |-> CASE w \in chain.left -> Left(w)
                                      [] w \in chain.in -> [rec[w] EXCEPT !.tested = tip]
                                      [] OTHER -> rec[w]]
      BY DEF Leave, tip
    <2>4. \A w \in Workers : rec[w] \in Record
      BY DEF Disk, Records
    <2>5. \A w \in Workers : rec'[w] = IF w \in chain.left THEN Left(w)
                                       ELSE IF w \in chain.in THEN [rec[w] EXCEPT !.tested = tip] ELSE rec[w]
      BY <1>1, <2>3
    <2>6. rec' \in Records
      BY <2>1, <2>2, <2>3, <2>4, <2>5 DEF Records
    <2> QED
      BY <1>1, <2>1, <2>5, <2>6
  <1>3. Disk' /\ Sets'
    BY <1>1, <1>2 DEF Disk, Sets
  <1>4. Words' /\ Flags' /\ Counts'
    BY <1>1 DEF Words, Flags, Counts, Quiet, Working
  <1>5. Stage' /\ Innocent'
    BY <1>1 DEF Stage, Innocent, Quiet, Loose, Chained
  <1>6. Verdict'
    BY <1>1 DEF Verdict, tip, Ends
  <1>7. Apart'
    <2>1. \A w \in InSets(todo) : w \notin chain.in \cup chain.left
      BY <1>1 DEF Apart, Stage, Chained
    <2> QED
      BY <1>1, <1>2, <2>1 DEF Apart
  <1>8. ASSUME NEW w \in Workers PROVE Book(w)' /\ Away(w)' /\ Within(w)'
    <2>1. Book(w) /\ Away(w) /\ Within(w)
      OBVIOUS
    <2>2. rec[w] \in Record
      BY DEF Disk, Records
    <2>3. chain.in \cap chain.left = {}
      BY <1>1 DEF Stage, Chained
    <2>4. CASE w \in chain.left
      <3>1. rec[w].state = "queued_batch" /\ rec[w].repo = "pending"
        BY <1>1, <2>1, <2>4 DEF Within, Book
      <3>2. rec'[w].state = "locking" /\ rec'[w].repo = "pending"
        BY <1>2, <2>4, <3>1
      <3> QED
        BY <1>1, <2>1, <2>3, <2>4, <3>1, <3>2 DEF Book, Away, Within, Chained
    <2>5. CASE w \in chain.in
      <3>1. rec[w].state = "queued_batch" /\ rec[w].repo = "pending"
        BY <1>1, <2>1, <2>5 DEF Within, Book
      <3>2. rec'[w] = [rec[w] EXCEPT !.tested = tip]
        BY <1>2, <2>5
      <3>3. rec'[w].state = "queued_batch" /\ rec'[w].repo = "pending" /\ rec'[w].tested = tip
        BY <2>2, <3>1, <3>2 DEF Record
      <3>4. tip' = tip
        BY <1>1 DEF tip
      <3> QED
        BY <1>1, <2>1, <2>3, <2>5, <3>1, <3>3, <3>4 DEF Book, Away, Within, Chained
    <2>6. CASE w \notin chain.in \cup chain.left
      BY <1>1, <1>2, <2>1, <2>6 DEF Book, Away, Within, Chained
    <2> QED
      BY <2>4, <2>5, <2>6
  <1> QED
    BY <1>3, <1>4, <1>5, <1>6, <1>7, <1>8

Checks == Start \/ StartFails \/ AwaitCheck \/ Hear \/ OnCheckEnd

LEMMA ChecksInv == ASSUME Inv, Checks PROVE Inv'
  <1> USE BatchAssumption
      DEF Inv, Types, Workings, Checks, Start, StartFails, AwaitCheck, Hear, OnCheckEnd, disk, calls, run,
          counts, check, Goto
  <1>1. Disk' /\ Apart'
    BY DEF Disk, Apart
  <1>2. Sets'
    BY DEF Sets
  <1>3. Words'
    BY DEF Words, Quiet, Working, Ends, Kept
  <1>4. Flags' /\ Counts'
    BY DEF Flags, Counts, Working
  <1>5. Stage' /\ Innocent'
    BY DEF Stage, Innocent, Quiet, Loose, Chained, Ends
  <1>6. Verdict'
    BY DEF Verdict, Words, tip, Ends, Kept
  <1>7. ASSUME NEW w \in Workers PROVE Book(w)' /\ Away(w)'
    BY DEF Book, Away
  <1>8. ASSUME NEW w \in Workers PROVE Within(w)'
    <2>1. Within(w)
      OBVIOUS
    <2> QED
      BY <2>1 DEF Within, Chained, tip
  <1> QED
    BY <1>1, <1>2, <1>3, <1>4, <1>5, <1>6, <1>7, <1>8

\* The chain's records marked with the check's job, or as advancing.
Marks == Mark \/ (CheckEnded /\ end # "unfinished")

LEMMA MarksInv == ASSUME Inv, Marks PROVE Inv'
  <1> USE BatchAssumption DEF Inv, Types, Workings
  <1> DEFINE s == IF pc = "mark" THEN "checking" ELSE "advancing"
  <1>1. /\ (pc = "mark" /\ pc' = "await") \/ (pc = "ended" /\ pc' = "advance" /\ end = "passed")
        /\ chain.in \in SUBSET Workers /\ lock = Run
        /\ UNCHANGED <<base, log, lock, RUNNERS, ACTIVE, slot, job, calling, solo, set, todo, alone, chain,
                       attempts, outs, end, lands, others, crashes>>
    BY DEF Marks, Mark, CheckEnded, Goto, check, calls, counts, Sets, Stage, Loose, Ends, Failed
  <1>2. Marked(chain.in, s, s)
    BY <1>1, MarkMany DEF Marks, Mark, CheckEnded, Disk, States, Repos
  <1>3. Disk' /\ Sets' /\ Words'
    BY <1>1, <1>2 DEF Disk, Sets, Words, Marked, Quiet, Working
  <1>4. Flags' /\ Counts'
    BY <1>1 DEF Flags, Counts, Working
  <1>5. Stage' /\ Innocent'
    BY <1>1 DEF Stage, Innocent, Quiet, Loose, Chained, Ends
  <1>6. Verdict'
    BY <1>1 DEF Verdict, tip, Ends
  <1>7. Apart'
    <2>1. \A w \in InSets(todo) : w \notin chain.in
      BY <1>1 DEF Apart, Stage, Chained
    <2> QED
      BY <1>1, <1>2, <2>1 DEF Apart, Marked
  <1>8. ASSUME NEW w \in Workers PROVE Book(w)' /\ Away(w)' /\ Within(w)'
    <2>1. Book(w) /\ Away(w) /\ Within(w) /\ tip' = tip
      BY <1>1 DEF tip
    <2>2. CASE w \in chain.in
      <3>0. rec'[w].state = s /\ rec'[w].repo = s /\ rec'[w].tested = rec[w].tested
        BY <1>2, <2>2 DEF Marked
      <3>1. /\ rec'[w].state = s /\ rec'[w].repo = s /\ rec'[w].tested = tip
            /\ w \in tip /\ rec[w].state \in {"queued_batch", "checking"}
        <4>1. w \in tip
          BY <2>2 DEF tip
        <4>2. rec[w].tested = tip
          BY <1>1, <2>1, <2>2 DEF Within, Chained
        <4>3. rec[w].state \in {"queued_batch", "checking"}
          BY <1>1, <2>1, <2>2 DEF Within
        <4> QED
          BY <3>0, <4>1, <4>2, <4>3
      <3>2. w \notin base /\ log[w] # 1
        BY <1>1, <2>1, <3>1 DEF Book
      <3>3. w \notin calling \cup solo \cup alone /\ lock # w
        BY <1>1, <2>1, <3>1 DEF Away
      <3> QED
        BY <1>1, <2>1, <2>2, <3>1, <3>2, <3>3 DEF Book, Away, Within, Chained
    <2>3. CASE w \notin chain.in
      <3>1. rec'[w] = rec[w]
        BY <1>2, <2>3 DEF Marked
      <3>2. Book(w)' /\ Away(w)'
        BY <1>1, <2>1, <3>1 DEF Book, Away
      <3>3. Within(w)'
        BY <1>1, <2>1, <2>3, <3>1 DEF Within, Chained
      <3> QED
        BY <3>2, <3>3
    <2> QED
      BY <2>2, <2>3
  <1> QED
    BY <1>3, <1>4, <1>5, <1>6, <1>7, <1>8

-----------------------------------------------------------------------------
(* What comes of a chain: refused, held or built again, split, or landed.   *)

Fates == (CheckEnded /\ end = "unfinished") \/ Culprit \/ BaseMoved \/ AdvanceHeld \/ AdvanceFails

LEMMA FatesInv == ASSUME Inv, Fates PROVE Inv'
  <1> USE BatchAssumption DEF Inv, Types, Workings
  <1>1. /\ pc \in {"ended", "advance"} /\ pc' \in {"refuse", "hold", "again"} /\ lock = Run
        /\ pc = "ended" => pc' = "refuse"
        /\ pc' # "again" => outs' = chain.in
        /\ pc' = "again" => pc = "advance" /\ outs' = outs
        /\ UNCHANGED <<rec, base, log, lock, RUNNERS, ACTIVE, slot, job, calling, solo, set, todo, alone,
                       chain, lands, others, crashes>>
        /\ tip' = tip /\ chain.in \subseteq set /\ set \subseteq Workers
    BY DEF Fates, CheckEnded, Culprit, BaseMoved, AdvanceHeld, AdvanceFails, Goto, disk, check, calls,
           counts, Sets, Stage, Loose, Chained, tip
  <1>2. Disk' /\ Sets' /\ Words' /\ Flags'
    <2>1. end' \in {end, "none"}
      BY DEF Fates, CheckEnded, Culprit, BaseMoved, AdvanceHeld, AdvanceFails
    <2> QED
      BY <1>1, <2>1 DEF Disk, Sets, Words, Flags, Quiet, Working
  <1>3. Counts'
    <2>1. attempts < MaxAttempts /\ attempts \in 0..MaxAttempts
      BY <1>1 DEF Counts, Working
    <2>2. \/ attempts' = attempts /\ pc' \in {"refuse", "hold"}
          \/ attempts' = attempts + 1 /\ (attempts' >= MaxAttempts => pc' = "hold")
      BY DEF Fates, CheckEnded, Culprit, BaseMoved, AdvanceHeld, AdvanceFails, GivesUp, Goto
    <2> QED
      BY <1>1, <2>1, <2>2 DEF Counts, Working
  <1>4. Stage'
    BY <1>1 DEF Stage, Quiet, Loose, Chained
  <1>5. Verdict'
    BY <1>1 DEF Verdict, tip
  <1>6. Innocent'
    <2>1. CASE Culprit
      <3>1. IsFiniteSet(chain.in) /\ Cardinality(chain.in) = 1 /\ (end = "failed" => Fails(tip))
        BY <1>1, <2>1, FS_Subset DEF Culprit, Lone, Verdict
      <3>2. \A w \in chain.in : chain.in = {w}
        BY <3>1, FS_Singleton
      <3> QED
        BY <1>1, <2>1, <3>1, <3>2 DEF Culprit, Innocent, tip
    <2>2. CASE ~Culprit
      BY <1>1, <2>2 DEF Fates, CheckEnded, BaseMoved, AdvanceHeld, AdvanceFails, Innocent, Stage, Goto
    <2> QED
      BY <2>1, <2>2
  <1>7. Apart'
    BY <1>1 DEF Apart, InSets, Disjoint
  <1>8. ASSUME NEW w \in Workers PROVE Book(w)' /\ Away(w)' /\ Within(w)'
    <2>1. Book(w) /\ Away(w) /\ Within(w)
      OBVIOUS
    <2>2. Book(w)' /\ Away(w)'
      BY <1>1, <2>1 DEF Book, Away
    <2>3. Within(w)'
      BY <1>1, <2>1 DEF Within, Chained
    <2> QED
      BY <2>2, <2>3
  <1> QED
    BY <1>2, <1>3, <1>4, <1>5, <1>6, <1>7, <1>8

LEMMA SplitInv == ASSUME Inv, Split PROVE Inv'
  <1> USE BatchAssumption DEF Inv, Types, Workings
  <1>1. /\ pc = "ended" /\ pc' = "pop" /\ lock = Run /\ chain' = NoChain /\ set' = {} /\ end' = "none"
        /\ attempts' = 0 /\ chain.in \subseteq set /\ set \subseteq Workers
        /\ UNCHANGED <<base, log, lock, RUNNERS, ACTIVE, slot, job, calling, solo, alone, outs,
                       lands, others, crashes>>
    BY DEF Split, Goto, check, calls, counts, Sets, Stage, Loose, Chained
  <1>2. Reset(chain.in, "queued_batch")
    BY <1>1, ResetMany DEF Split, Disk, States
  <1>3. /\ todo' \in Seq(SUBSET Workers) /\ Disjoint(todo') /\ InSets(todo') = chain.in \cup InSets(todo)
    <2>1. PICK p \in Halves(chain.in) : todo' = <<p[1], p[2]>> \o todo
      BY DEF Split
    <2>2. p[1] \cup p[2] = chain.in /\ p[1] \cap p[2] = {}
      BY <2>1 DEF Halves
    <2> DEFINE a == p[1]  b == p[2]
    <2>3. a \in SUBSET Workers /\ b \in SUBSET Workers /\ a \cap b = {} /\ a \cup b = chain.in
      BY <1>1, <2>2
    <2>4. (a \cup b) \cap InSets(todo) = {}
      BY <1>1, <2>3 DEF Apart
    <2>5. todo' = <<a, b>> \o todo
      BY <2>1
    <2> HIDE DEF a, b
    <2>6. todo \in Seq(SUBSET Workers) /\ Disjoint(todo)
      BY DEF Apart
    <2>7. /\ <<a, b>> \o todo \in Seq(SUBSET Workers) /\ Disjoint(<<a, b>> \o todo)
          /\ InSets(<<a, b>> \o todo) = a \cup b \cup InSets(todo)
      BY <2>3, <2>4, <2>6, SetsTwo
    <2> QED
      BY <2>3, <2>5, <2>7
  <1>4. Disk' /\ Sets' /\ Words' /\ Flags'
    <2>1. Disk'
      BY <1>1, <1>2 DEF Disk, Reset
    <2>2. Sets' /\ Words' /\ Flags'
      BY <1>1 DEF Sets, Words, Flags, NoChain, Quiet, Working
    <2> QED
      BY <2>1, <2>2
  <1>5. Counts'
    BY <1>1 DEF Counts, Working
  <1>6. Stage' /\ Innocent'
    BY <1>1 DEF Stage, Innocent, Quiet, Loose, Chained
  <1>7. Verdict'
    BY <1>1 DEF Verdict, tip, Ends
  <1>8. Apart'
    BY <1>1, <1>2, <1>3 DEF Apart, Reset
  <1>9. ASSUME NEW w \in Workers PROVE Book(w)' /\ Away(w)' /\ Within(w)'
    <2>1. Book(w) /\ Away(w) /\ Within(w)
      OBVIOUS
    <2>2. CASE w \in chain.in
      <3>1. rec[w].state \in {"queued_batch", "checking"} /\ rec[w].repo \in {"pending", "checking"}
        BY <1>1, <2>1, <2>2 DEF Within, Book
      <3>2. rec'[w].state = "queued_batch" /\ rec'[w].repo = "pending"
        BY <1>2, <2>2, <3>1 DEF Reset
      <3>3. w \notin base /\ log[w] # 1
        BY <1>1, <2>1, <3>1 DEF Book
      <3>4. w \notin calling \cup solo \cup alone /\ lock # w
        BY <1>1, <2>1, <3>1 DEF Away
      <3> QED
        BY <1>1, <3>2, <3>3, <3>4 DEF Book, Away, Within, Chained, NoChain
    <2>3. CASE w \notin chain.in
      <3>1. rec'[w] = rec[w]
        BY <1>2, <2>3 DEF Reset
      <3> QED
        BY <1>1, <2>1, <2>3, <3>1 DEF Book, Away, Within, Chained, NoChain
    <2> QED
      BY <2>2, <2>3
  <1> QED
    BY <1>4, <1>5, <1>6, <1>7, <1>8, <1>9

LEMMA AdvanceInv == ASSUME Inv, Advance PROVE Inv'
  <1> USE BatchAssumption DEF Inv, Types, Workings
  <1>1. /\ pc = "advance" /\ pc' = "land" /\ lock = Run /\ base = chain.base /\ base' = base \cup chain.in
        /\ base' = tip /\ outs' = chain.in /\ chain.in \subseteq set /\ set \subseteq Workers
        /\ UNCHANGED <<rec, log, lock, RUNNERS, ACTIVE, slot, job, calling, solo, set, todo, alone,
                       chain, attempts, end, lands, others, crashes>>
    BY DEF Advance, FastForwards, Goto, check, calls, counts, Sets, Stage, Loose, Chained, tip
  <1>2. Disk' /\ Sets' /\ Words' /\ Flags' /\ Counts'
    BY <1>1 DEF Disk, Sets, Words, Flags, Counts, Quiet, Working, Changes
  <1>3. Stage' /\ Innocent' /\ Verdict'
    BY <1>1 DEF Stage, Innocent, Verdict, tip, Quiet, Loose, Chained
  <1>4. Apart'
    BY <1>1 DEF Apart, InSets, Disjoint
  <1>5. ASSUME NEW w \in Workers PROVE Book(w)' /\ Away(w)' /\ Within(w)'
    <2>1. Book(w) /\ Away(w) /\ Within(w)
      OBVIOUS
    <2>2. w \in chain.in => rec[w].state = "advancing" /\ rec[w].tested = tip
      BY <1>1, <2>1 DEF Within, Chained
    <2>3. Book(w)'
      BY <1>1, <2>1, <2>2 DEF Book
    <2>4. Away(w)' /\ Within(w)'
      BY <1>1, <2>1, <2>2 DEF Away, Within, Chained
    <2> QED
      BY <2>3, <2>4
  <1> QED
    BY <1>2, <1>3, <1>4, <1>5

LEMMA HoldRestInv == ASSUME Inv, HoldRest PROVE Inv'
  <1> USE BatchAssumption DEF Inv, Types, Workings
  <1>1. /\ pc = "hold" /\ lock = Run /\ outs = {} /\ outs' = InSets(todo) /\ todo' = <<>>
        /\ UNCHANGED <<rec, base, log, lock, RUNNERS, ACTIVE, slot, job, calling, solo, pc, set, alone,
                       chain, attempts, end, lands, others, crashes>>
        /\ InSets(todo) \in SUBSET Workers
    BY SetsAll DEF HoldRest, Stage, Loose, Apart, disk, check, calls, counts
  <1>2. Disk' /\ Sets' /\ Words' /\ Flags' /\ Counts'
    BY <1>1 DEF Disk, Sets, Words, Flags, Counts
  <1>3. Stage' /\ Innocent' /\ Verdict'
    BY <1>1 DEF Stage, Innocent, Verdict, tip, Quiet, Loose, Chained
  <1>4. Apart'
    BY <1>1, SetsNone DEF Apart
  <1>5. ASSUME NEW w \in Workers PROVE Book(w)' /\ Away(w)' /\ Within(w)'
    <2>1. Book(w) /\ Away(w) /\ Within(w) /\ (w \in outs' => rec[w].state = "queued_batch")
      BY <1>1 DEF Apart
    <2> QED
      BY <1>1, <2>1 DEF Book, Away, Within, tip
  <1> QED
    BY <1>2, <1>3, <1>4, <1>5

-----------------------------------------------------------------------------
(* The members, one by one: landed, refused, held, or driven alone.         *)

LEMMA RefuseInv == ASSUME Inv, NEW w \in Workers, Refuse(w) \/ Hold(w) PROVE Inv'
  <1> USE BatchAssumption DEF Inv, Types, Workings
  <1> DEFINE s == IF pc = "refuse" THEN "reported" ELSE "held"
  <1>1. /\ pc \in {"refuse", "hold"} /\ w \in outs /\ outs' = outs \ {w} /\ pc' = pc
        /\ UNCHANGED <<base, log, lock, RUNNERS, ACTIVE, slot, job, calling, solo, set, todo, alone,
                       chain, attempts, end, lands, others, crashes>>
    BY DEF Refuse, Hold, check, calls, counts
  <1>2. Reset({w}, s)
    BY <1>1, ResetOne DEF Refuse, Hold, Disk, States
  <1>3. rec[w].state \in {"queued_batch", "checking", "advancing"} /\ (lock # Run => rec[w].state = "queued_batch")
    <2>1. Within(w) /\ Stage
      OBVIOUS
    <2>2. CASE pc = "refuse"
      BY <1>1, <2>1, <2>2 DEF Within
    <2>3. CASE pc = "hold"
      BY <1>1, <2>1, <2>3 DEF Within, Stage, Loose
    <2> QED
      BY <1>1, <2>2, <2>3
  <1>4. rec[w].repo # "landed" /\ w \notin base /\ log[w] # 1
    BY <1>1, <1>3 DEF Book
  <1>5. w \notin calling \cup solo \cup alone /\ lock # w
    BY <1>1, <1>3 DEF Away
  <1>6. Disk' /\ Sets' /\ Words' /\ Flags' /\ Counts'
    <2>1. Disk'
      BY <1>1, <1>2 DEF Disk, Reset
    <2> QED
      BY <1>1, <2>1 DEF Sets, Words, Flags, Counts
  <1>7. Stage' /\ Innocent' /\ Verdict'
    BY <1>1 DEF Stage, Innocent, Verdict, tip
  <1>8. Apart'
    <2>1. w \notin InSets(todo)
      BY <1>1, SetsNone DEF Stage, Apart
    <2> QED
      BY <1>1, <1>2, <2>1 DEF Apart, Reset
  <1>9. ASSUME NEW v \in Workers PROVE Book(v)' /\ Away(v)' /\ Within(v)'
    <2>1. Book(v) /\ Away(v) /\ Within(v)
      OBVIOUS
    <2>2. CASE v = w
      <3>1. rec'[v].state \in {"reported", "held"} /\ rec'[v].repo = "pending"
        BY <1>2, <1>4, <2>2 DEF Reset
      <3>2. (rec'[v].state = "held" => pc = "hold")
        BY <1>2, <2>2, <1>1 DEF Reset
      <3> QED
        BY <1>1, <1>4, <1>5, <2>2, <3>1 DEF Book, Away, Within, Chained
    <2>3. CASE v # w
      <3>1. rec'[v] = rec[v]
        BY <1>2, <2>3 DEF Reset
      <3> QED
        BY <1>1, <2>1, <2>3, <3>1 DEF Book, Away, Within, tip
    <2> QED
      BY <2>2, <2>3
  <1> QED
    BY <1>6, <1>7, <1>8, <1>9

LEMMA LandAloneInv == ASSUME Inv, NEW w \in Workers, LandAlone(w) PROVE Inv'
  <1> USE BatchAssumption DEF Inv, Types, Workings
  <1>0. pc = "alone" /\ w \in alone /\ lock # Run /\ rec[w].state \in {"queued_batch", "locking"}
    <2>1. pc = "alone" /\ w \in alone
      BY DEF LandAlone
    <2> QED
      BY <2>1 DEF Away, Stage, Loose
  <1>1. /\ pc = "alone" /\ pc' = "drive" /\ w \in alone /\ alone' = alone \ {w} /\ solo' = solo \cup {w}
        /\ outs' = {w} /\ lock # Run
        /\ UNCHANGED <<base, log, lock, RUNNERS, ACTIVE, slot, job, calling, set, todo,
                       chain, attempts, end, lands, others, crashes>>
    BY <1>0 DEF LandAlone, Goto, check, calls, counts
  <1>2. Reset({w}, "locking")
    BY <1>0, ResetOne DEF LandAlone, Disk, States
  <1>3. rec[w].state \in {"queued_batch", "locking"} /\ w \notin calling \cup solo /\ lock # w
    BY <1>1 DEF Away
  <1>4. Disk' /\ Sets' /\ Words' /\ Flags' /\ Counts'
    <2>1. Disk'
      BY <1>1, <1>2 DEF Disk, Reset
    <2> QED
      BY <1>1, <2>1 DEF Sets, Words, Flags, Counts, Quiet, Working
  <1>5. Stage' /\ Innocent' /\ Verdict'
    BY <1>1 DEF Stage, Innocent, Verdict, tip, Quiet, Loose, Chained
  <1>6. Apart'
    BY <1>1, SetsNone DEF Apart, Stage, Quiet
  <1>7. ASSUME NEW v \in Workers PROVE Book(v)' /\ Away(v)' /\ Within(v)'
    <2>1. Book(v) /\ Away(v) /\ Within(v)
      OBVIOUS
    <2>2. CASE v = w
      <3>1. /\ rec'[v].state = "locking"
            /\ rec'[v].repo = IF rec[w].repo = "landed" THEN "landed" ELSE "pending"
        BY <1>2, <2>2 DEF Reset
      <3> QED
        BY <1>1, <1>3, <2>1, <2>2, <3>1 DEF Book, Away, Within, Chained
    <2>3. CASE v # w
      <3>1. rec'[v] = rec[v]
        BY <1>2, <2>3 DEF Reset
      <3> QED
        BY <1>1, <2>1, <2>3, <3>1 DEF Book, Away, Within, Chained
    <2> QED
      BY <2>2, <2>3
  <1> QED
    BY <1>4, <1>5, <1>6, <1>7

\* A member of a chain in Base is logged, saved as landed, and retired.
LEMMA LandInv == ASSUME Inv, NEW w \in Workers, LandLog(w) \/ LandSave(w) \/ LandRetire(w) PROVE Inv'
  <1> USE BatchAssumption DEF Inv, Types, Workings
  <1>1. /\ pc = "land" /\ pc' = "land" /\ w \in outs /\ outs' \in {outs, outs \ {w}} /\ lock = Run
        /\ UNCHANGED <<base, lock, RUNNERS, ACTIVE, slot, job, calling, solo, set, todo, alone,
                       chain, attempts, end, lands, others, crashes>>
    BY DEF LandLog, LandSave, LandRetire, run, check, calls, counts, Stage, Loose
  <1>2. rec[w].state = "advancing" /\ w \in base /\ rec[w].tested \subseteq base /\ w \in rec[w].tested
    BY <1>1 DEF Book
  <1>3. w \notin calling \cup solo \cup alone /\ lock # w
    BY <1>1, <1>2 DEF Away
  <1>4. /\ rec' \in Records /\ log' \in [Workers -> {0, 1}]
        /\ \A v \in Workers \ {w} : rec'[v] = rec[v] /\ log'[v] = log[v]
        /\ log'[w] \in {0, 1} /\ (log[w] = 1 => log'[w] = 1)
        /\ \/ rec'[w] = rec[w] /\ outs' = outs
           \/ /\ rec'[w].state = "advancing" /\ rec'[w].repo = "landed" /\ log'[w] = 1 /\ outs' = outs
              /\ rec'[w].tested = rec[w].tested
           \/ rec'[w].state \in {"retired", "held"} /\ rec'[w].repo = "landed" /\ outs' = outs \ {w} /\ log'[w] = 1
    <2>1. CASE LandLog(w)
      <3>1. log' = [log EXCEPT ![w] = LogRepo(log[w])] /\ rec' = rec /\ outs' = outs /\ LogRepo(log[w]) = 1
        BY <2>1 DEF LandLog, run, LogRepo, Disk
      <3> QED
        BY <3>1 DEF Disk
    <2>2. CASE LandSave(w)
      <3>1. Marked({w}, "advancing", "landed") /\ log' = log /\ outs' = outs /\ log[w] = 1
        BY <1>2, <2>2, RepoOne DEF LandSave, run, Disk, Repos
      <3> QED
        BY <3>1 DEF Marked, Disk
    <2>3. CASE LandRetire(w)
      <3>1. PICK s \in {"retired", "held"} : rec' = [rec EXCEPT ![w].state = s]
        BY <2>3 DEF LandRetire
      <3>2. Marked({w}, s, "landed") /\ log' = log /\ outs' = outs \ {w} /\ rec[w].repo = "landed"
        BY <2>3, <3>1, StateOne DEF LandRetire, Disk, States
      <3>3. log[w] = 1
        BY <3>2 DEF Book
      <3> QED
        BY <3>1, <3>2, <3>3 DEF Marked, Disk
    <2> QED
      BY <2>1, <2>2, <2>3
  <1>5. Disk' /\ Sets' /\ Words' /\ Flags' /\ Counts'
    <2>1. Disk'
      BY <1>1, <1>4 DEF Disk
    <2> QED
      BY <1>1, <2>1 DEF Sets, Words, Flags, Counts, Working
  <1>6. Stage' /\ Innocent' /\ Verdict'
    BY <1>1 DEF Stage, Innocent, Verdict, tip, Quiet, Loose, Chained
  <1>7. Apart'
    <2>1. w \notin InSets(todo)
      BY <1>2 DEF Apart
    <2> QED
      BY <1>1, <1>4, <2>1 DEF Apart
  <1>8. ASSUME NEW v \in Workers PROVE Book(v)' /\ Away(v)' /\ Within(v)'
    <2>1. Book(v) /\ Away(v) /\ Within(v)
      OBVIOUS
    <2>2. CASE v = w
      <3>1. Book(v)'
        BY <1>1, <1>2, <1>4, <2>1, <2>2 DEF Book
      <3>2. Away(v)' /\ Within(v)'
        BY <1>1, <1>2, <1>3, <1>4, <2>1, <2>2 DEF Away, Within, Chained
      <3> QED
        BY <3>1, <3>2
    <2>3. CASE v # w
      <3>1. rec'[v] = rec[v] /\ log'[v] = log[v]
        BY <1>4, <2>3
      <3> QED
        BY <1>1, <2>1, <2>3, <3>1 DEF Book, Away, Within, Chained
    <2> QED
      BY <2>2, <2>3
  <1> QED
    BY <1>5, <1>6, <1>7, <1>8

-----------------------------------------------------------------------------
(* The calls, the lands alone, and what others do.                          *)

\* A call waits for the queue, joins it, or goes on alone.
LEMMA CallsInv == ASSUME Inv, NEW w \in Workers, Call(w) \/ Join(w) \/ Straight(w) PROVE Inv'
  <1> USE BatchAssumption DEF Inv, Types, Workings
  <1>1. /\ UNCHANGED <<base, log, lock, ACTIVE, slot, job, set, todo, alone, chain, attempts, outs, end,
                       others, crashes>>
        /\ lands' \in 0 .. MaxLands
        /\ (Call(w) \/ Straight(w)) => pc' = pc /\ RUNNERS' = RUNNERS
        /\ Join(w) => RUNNERS' = TRUE /\ pc' = IF RUNNERS THEN pc ELSE "scan"
    BY DEF Call, Join, Straight, disk, run, check, calls, counts, Counts
  <1>0. Flags' /\ (pc' = pc \/ (pc = "off" /\ pc' = "scan"))
    <2>1. CASE Join(w) /\ RUNNERS
      BY <1>1, <2>1 DEF Flags
    <2>2. CASE Join(w) /\ ~RUNNERS
      BY <1>1, <2>2 DEF Flags
    <2>3. CASE Call(w) \/ Straight(w)
      BY <1>1, <2>3 DEF Flags
    <2> QED
      BY <2>1, <2>2, <2>3
  <1>2. /\ rec' \in Records
        /\ \A v \in Workers \ {w} : rec'[v] = rec[v]
        /\ rec'[w].repo = rec[w].repo /\ rec'[w].tested = rec[w].tested
        /\ rec[w].state \in {"reported", "held", "locking"}
        /\ w \notin solo /\ (w \in calling => rec[w].state = "locking")
        /\ (rec[w].state = "locking" => w \in calling /\ w \notin alone)
        /\ \/ rec'[w].state = "locking" /\ rec[w].state # "locking" /\ calling' = calling \cup {w} /\ solo' = solo /\ pc' = pc
           \/ /\ rec'[w].state = "queued_batch" /\ rec[w].repo = "pending" /\ calling' = calling \ {w} /\ solo' = solo
              /\ pc' # "off"
           \/ rec'[w].state = "locking" /\ calling' = calling \ {w} /\ solo' = solo \cup {w} /\ pc' = pc
    <2>1. Away(w) /\ Disk /\ Flags
      OBVIOUS
    <2>2. CASE Call(w)
      <3>1. Marked({w}, "locking", rec[w].repo)
        BY <2>1, <2>2, StateOne DEF Call, Disk, States
      <3> QED
        BY <2>1, <2>2, <3>1 DEF Call, Marked, Away, run
    <2>3. CASE Join(w)
      <3>1. Marked({w}, "queued_batch", rec[w].repo)
        BY <2>1, <2>3, StateOne DEF Join, Disk, States
      <3> QED
        BY <2>1, <2>3, <3>1 DEF Join, Marked, Away, Flags
    <2>4. CASE Straight(w)
      BY <2>1, <2>4 DEF Straight, disk, run, Away, Disk
    <2> QED
      BY <2>2, <2>3, <2>4
  <1>3. lock # w /\ (pc \notin {"release", "alone", "drive"} => w \notin alone) /\ w \notin alone
    BY <1>2 DEF Away
  <1>4. Disk' /\ Sets' /\ Words' /\ Flags' /\ Counts'
    <2>1. Disk'
      BY <1>1, <1>2 DEF Disk
    <2>2. Sets' /\ Words'
      BY <1>0, <1>1, <1>2 DEF Sets, Words, Quiet
    <2>3. Counts'
      BY <1>0, <1>1 DEF Counts, Working
    <2> QED
      BY <1>0, <2>1, <2>2, <2>3
  <1>5. Stage' /\ Innocent' /\ Verdict'
    BY <1>0, <1>1 DEF Stage, Innocent, Verdict, tip, Quiet, Loose, Chained
  <1>6. Apart'
    <2>1. w \notin InSets(todo)
      BY <1>2 DEF Apart
    <2> QED
      BY <1>1, <1>2, <2>1 DEF Apart
  <1>7. ASSUME NEW v \in Workers PROVE Book(v)' /\ Away(v)' /\ Within(v)'
    <2>1. Book(v) /\ Away(v) /\ Within(v)
      OBVIOUS
    <2>2. CASE v = w
      <3>1. Book(v)'
        BY <1>0, <1>1, <1>2, <2>1, <2>2 DEF Book
      <3>2. Away(v)'
        BY <1>0, <1>1, <1>2, <1>3, <2>1, <2>2 DEF Away
      <3>3. Within(v)'
        BY <1>0, <1>1, <1>2, <2>1, <2>2 DEF Within, Chained
      <3> QED
        BY <3>1, <3>2, <3>3
    <2>3. CASE v # w
      <3>1. rec'[v] = rec[v]
        BY <1>2, <2>3
      <3>2. (v \in calling' <=> v \in calling) /\ (v \in solo' <=> v \in solo)
        BY <1>2, <2>3
      <3> QED
        BY <1>0, <1>1, <2>1, <3>1, <3>2 DEF Book, Away, Within, Chained, tip
    <2> QED
      BY <2>2, <2>3
  <1> QED
    BY <1>4, <1>5, <1>6, <1>7

LEMMA SoloInv == ASSUME Inv, NEW w \in Workers, Solo(w) PROVE Inv'
  <1> USE BatchAssumption DEF Inv, Types, Workings
  <1>1. /\ w \in solo /\ calling' = calling
        /\ UNCHANGED <<RUNNERS, ACTIVE, slot, job, pc, set, todo, alone, chain, attempts, outs, end,
                       lands, others, crashes>>
    BY DEF Solo, SoloLocks, SoloLands, SoloStops, SoloRetires, run, check, calls, counts
  <1>2. w \notin alone \cup calling /\ rec[w].state \in {"checking", "locking"}
    BY <1>1 DEF Away
  <1>3. /\ rec' \in Records
        /\ \A v \in Workers \ {w} : rec'[v] = rec[v] /\ log'[v] = log[v] /\ (v \in base' <=> v \in base)
        /\ log' \in [Workers -> {0, 1}] /\ base' \subseteq Changes /\ base \subseteq base'
        /\ lock \in {w, None} \/ lock' = lock
        /\ \/ /\ rec'[w].state = "checking" /\ rec'[w].repo = "checking" /\ lock = None /\ lock' = w /\ solo' = solo
              /\ rec[w].repo # "landed" /\ log' = log /\ base' = base
           \/ /\ rec'[w].state = "retired" /\ rec'[w].repo = "landed" /\ lock = w /\ lock' = None /\ solo' = solo \ {w}
              /\ log'[w] = 1 /\ w \in base'
           \/ /\ rec'[w].state = "reported" /\ rec'[w].repo = "pending" /\ lock = w /\ lock' = None /\ solo' = solo \ {w}
              /\ log' = log /\ base' = base
           \/ /\ rec'[w].state = "held" /\ rec'[w].repo = "tested" /\ lock = w /\ lock' = None /\ solo' = solo \ {w}
              /\ log' = log /\ base' = base
           \/ /\ rec'[w].state = "retired" /\ rec'[w].repo = "landed" /\ lock' = lock /\ solo' = solo \ {w} /\ lock # w
              /\ rec[w].repo = "landed" /\ log' = log /\ base' = base
    <2>1. Away(w) /\ Book(w) /\ Disk /\ rec \in Records
      BY DEF Disk
    <2>2. CASE SoloLocks(w)
      <3>1. Marked({w}, "checking", "checking")
        BY <2>1, <2>2, MarkOne DEF SoloLocks, States, Repos
      <3> QED
        BY <2>1, <2>2, <3>1 DEF SoloLocks, Marked, Disk, calls
    <2>3. CASE SoloLands(w)
      <3>1. Marked({w}, "retired", "landed")
        BY <2>1, <2>3, MarkOne DEF SoloLands, States, Repos
      <3>2. /\ log' \in [Workers -> {0, 1}] /\ log'[w] = 1 /\ \A v \in Workers \ {w} : log'[v] = log[v]
        BY <2>1, <2>3 DEF SoloLands, LogRepo, Disk
      <3>3. base' = base \cup {w} /\ lock = w /\ lock' = None /\ solo' = solo \ {w}
        BY <2>3 DEF SoloLands
      <3> QED
        BY <2>1, <3>1, <3>2, <3>3 DEF Marked, Disk, Changes
    <2>4. CASE SoloStops(w)
      <3>1. base' = base /\ log' = log /\ lock = w /\ lock' = None /\ solo' = solo \ {w} /\ rec[w].state = "checking"
        BY <1>1, <2>1, <2>4 DEF SoloStops, Away
      <3>2. rec[w].repo = "checking"
        BY <2>1, <3>1 DEF Book
      <3>3. CASE rec' = [rec EXCEPT ![w] = Put(w, "reported")]
        <4>1. Reset({w}, "reported")
          BY <2>1, <3>3, ResetOne DEF States
        <4> QED
          BY <2>1, <3>1, <3>2, <4>1 DEF Reset, Disk
      <3>4. CASE rec' = [rec EXCEPT ![w].state = "held", ![w].repo = "tested"]
        <4>1. Marked({w}, "held", "tested")
          BY <2>1, <3>4, MarkOne DEF States, Repos
        <4> QED
          BY <2>1, <3>1, <3>2, <4>1 DEF Marked, Disk
      <3> QED
        BY <2>4, <3>3, <3>4 DEF SoloStops
    <2>5. CASE SoloRetires(w)
      <3>1. Marked({w}, "retired", "landed") /\ rec[w].repo = "landed"
        BY <2>1, <2>5, StateOne DEF SoloRetires, States
      <3>2. base' = base /\ log' = log /\ lock' = lock /\ solo' = solo \ {w}
        BY <2>5 DEF SoloRetires
      <3>3. lock # w
        BY <1>1, <2>1, <3>1 DEF Away, Book
      <3> QED
        BY <2>1, <3>1, <3>2, <3>3 DEF Marked, Disk
    <2> QED
      BY <2>2, <2>3, <2>4, <2>5 DEF Solo
  <1>4. Disk' /\ Sets' /\ Words' /\ Flags' /\ Counts'
    <2>1. Disk'
      BY <1>3 DEF Disk
    <2>2. Sets'
      BY <1>1, <1>3 DEF Sets
    <2> QED
      BY <1>1, <2>1, <2>2 DEF Words, Flags, Counts
  <1>5. Stage' /\ Innocent' /\ Verdict'
    <2>1. lock' = Run <=> lock = Run
      BY <1>3
    <2> QED
      BY <1>1, <2>1 DEF Stage, Innocent, Verdict, tip
  <1>6. Apart'
    <2>1. w \notin InSets(todo)
      BY <1>2 DEF Apart
    <2> QED
      BY <1>1, <1>3, <2>1 DEF Apart
  <1>7. ASSUME NEW v \in Workers PROVE Book(v)' /\ Away(v)' /\ Within(v)'
    <2>1. Book(v) /\ Away(v) /\ Within(v)
      OBVIOUS
    <2>2. CASE v = w
      <3>0. /\ ~(pc = "land" /\ w \in outs)
            /\ w \in base <=> rec[w].repo = "landed"
            /\ log[w] = 1 <=> rec[w].repo = "landed"
        BY <1>2, <2>1, <2>2 DEF Book
      <3>5. lock = w => rec[w].repo = "checking"
        BY <1>1, <2>1, <2>2 DEF Away, Book
      <3>1. Book(v)'
        BY <1>1, <1>3, <2>2, <3>0, <3>5 DEF Book
      <3>2. Away(v)'
        BY <1>1, <1>2, <1>3, <2>1, <2>2 DEF Away
      <3>3. Within(v)'
        <4>1. rec[w].state = "checking" <=> lock = w
          BY <1>1, <2>1, <2>2 DEF Away
        <4>2. rec'[w].state \in {"checking", "retired", "reported", "held"} /\ (rec'[w].state = "checking" => lock' = w)
          BY <1>3
        <4>3. ~(w \in chain.in /\ pc \in Chained) /\ ~(w \in chain.left /\ pc = "leave") /\ ~(w \in outs /\ pc \in {"refuse", "hold"})
          <5>1. CASE lock = w
            <6>1. lock # Run /\ Stage
              BY <5>1
            <6> QED
              BY <4>1, <5>1, <6>1, <2>1, <2>2 DEF Within, Chained, Stage, Loose
          <5>2. CASE lock # w
            <6>1. rec[w].state = "locking"
              BY <1>2, <4>1, <5>2
            <6> QED
              BY <2>1, <2>2, <6>1 DEF Within, Chained
          <5> QED
            BY <5>1, <5>2
        <4> QED
          BY <1>1, <2>2, <4>2, <4>3 DEF Within, Chained
      <3> QED
        BY <3>1, <3>2, <3>3
    <2>3. CASE v # w
      <3>1. rec'[v] = rec[v] /\ log'[v] = log[v] /\ (v \in base' <=> v \in base) /\ base \subseteq base'
            /\ (v \in solo' <=> v \in solo)
        BY <1>3, <2>3
      <3>2. Book(v)'
        BY <1>1, <2>1, <3>1 DEF Book
      <3>3. (lock' = v <=> lock = v) /\ (lock' = Run <=> lock = Run)
        BY <1>3, <2>3
      <3>4. Away(v)'
        BY <1>1, <2>1, <3>1, <3>3 DEF Away
      <3>5. Within(v)'
        BY <1>1, <2>1, <3>1, <3>3 DEF Within, tip
      <3> QED
        BY <3>2, <3>4, <3>5
    <2> QED
      BY <2>2, <2>3
  <1> QED
    BY <1>4, <1>5, <1>6, <1>7

\* Lands of other Hives hold the lock for a while; the human's commits come and
\* go in Base, a worker's stay.
LEMMA OthersInv ==
  ASSUME Inv, OtherTakes \/ OtherReleases \/ \E f \in Foreign : HumanCommits(f) \/ HumanResets(f)
  PROVE  Inv'
  <1> USE BatchAssumption DEF Inv, Types, Workings
  <1>1. /\ UNCHANGED <<rec, log, RUNNERS, ACTIVE, slot, job, calling, solo, pc, set, todo, alone, chain,
                       attempts, outs, end, lands, crashes>>
        /\ others' \in 0 .. MaxOthers
    BY DEF OtherTakes, OtherReleases, HumanCommits, HumanResets, disk, run, check, calls, counts, Counts
  <1>2. lock' = lock \/ {lock, lock'} = {Other, None}
    BY DEF OtherTakes, OtherReleases, HumanCommits, HumanResets
  <1>3. /\ base' \subseteq Changes /\ base' \cap Workers = base \cap Workers
        /\ base \subseteq base' \/ base \cap Workers = {}
    <2>1. CASE \E f \in Foreign : HumanCommits(f) \/ HumanResets(f)
      BY <2>1 DEF HumanCommits, HumanResets, Disk, Changes
    <2>2. CASE OtherTakes \/ OtherReleases
      BY <2>2 DEF OtherTakes, OtherReleases, disk, Disk
    <2> QED
      BY <2>1, <2>2
  <1>4. Disk' /\ Sets' /\ Words' /\ Flags' /\ Counts'
    BY <1>1, <1>2, <1>3 DEF Disk, Sets, Words, Flags, Counts
  <1>5. Stage' /\ Innocent' /\ Verdict' /\ Apart'
    BY <1>1, <1>2 DEF Stage, Innocent, Verdict, tip, Apart
  <1>6. ASSUME NEW v \in Workers PROVE Book(v)' /\ Away(v)' /\ Within(v)'
    <2>1. Book(v) /\ Away(v) /\ Within(v)
      OBVIOUS
    <2>2. lock' = v <=> lock = v
      BY <1>2
    <2>3. v \in base' <=> v \in base
      BY <1>3
    <2>4. Book(v)'
      BY <1>1, <1>3, <2>1, <2>3 DEF Book
    <2>5. Away(v)' /\ Within(v)'
      BY <1>1, <1>2, <2>1, <2>2 DEF Away, Within, tip
    <2> QED
      BY <2>4, <2>5
  <1> QED
    BY <1>4, <1>5, <1>6

\* A restart settles each land under way from its record and Base.
LEMMA RestartInv == ASSUME Inv, Restart PROVE Inv'
  <1> USE BatchAssumption DEF Inv, Types, Workings
  <1>1. /\ lock' \in {None, Other} /\ RUNNERS' = FALSE /\ ACTIVE' = FALSE /\ slot' = "none" /\ job' = "none"
        /\ calling' = {} /\ solo' = {} /\ pc' = "off" /\ set' = {} /\ todo' = <<>> /\ alone' = {}
        /\ chain' = NoChain /\ attempts' = 0 /\ outs' = {} /\ end' = "none"
        /\ base' = base /\ lands' = lands /\ others' = others /\ crashes' \in 0 .. MaxCrashes
    BY DEF Restart, Counts
  <1>2. ASSUME NEW w \in Workers
        PROVE  /\ rec'[w] \in Record /\ log'[w] \in {0, 1}
               /\ IF rec[w].state \in InProgress
                    THEN /\ rec'[w].state = "held"
                         /\ rec'[w].repo \in {"pending", "tested", "landed"}
                         /\ rec'[w].repo = "landed" <=> w \in base
                         /\ log'[w] = 1 <=> w \in base
                    ELSE rec'[w] = rec[w] /\ log'[w] = log[w]
    <2>1. Book(w) /\ Disk /\ rec[w] \in Record
      BY DEF Disk, Records
    <2>2. CASE rec[w].state \in InProgress
      <3>1. rec'[w] = reconciled(w) /\ log'[w] = IF rec[w].repo = "advancing" /\ landed(w) THEN LogRepo(log[w]) ELSE log[w]
        BY <2>2 DEF Restart
      <3>2. landed(w) <=> w \in base
        BY <2>1, <2>2 DEF Book, landed, InProgress
      <3>3. reconciled(w) \in Record
        BY <2>1 DEF reconciled, Record, States, Repos
      <3>4. log[w] \in {0, 1}
        BY <2>1 DEF Disk
      <3>5. log'[w] \in {0, 1} /\ (log'[w] = 1 <=> w \in base)
        BY <2>1, <2>2, <3>1, <3>2, <3>4 DEF Book, LogRepo, InProgress
      <3> QED
        BY <2>2, <3>1, <3>2, <3>3, <3>5 DEF reconciled
    <2>3. CASE rec[w].state \notin InProgress
      BY <2>1, <2>3 DEF Restart, Disk
    <2> QED
      BY <2>2, <2>3
  <1>3. Disk'
    <2>1. rec' \in Records
      BY <1>2 DEF Restart, Records
    <2>2. log' \in [Workers -> {0, 1}]
      BY <1>2 DEF Restart
    <2> QED
      BY <1>1, <2>1, <2>2 DEF Disk
  <1>4. Sets' /\ Words' /\ Flags' /\ Counts'
    <2>1. Sets' /\ Words'
      BY <1>1 DEF Sets, Words, NoChain, Quiet
    <2>2. Flags'
      BY <1>1 DEF Flags
    <2>3. Counts'
      BY <1>1 DEF Counts, Working
    <2> QED
      BY <2>1, <2>2, <2>3
  <1>5. Stage' /\ Innocent' /\ Verdict'
    BY <1>1 DEF Stage, Innocent, Verdict, Quiet, Loose, Chained, Ends
  <1>6. Apart'
    BY <1>1, SetsNone DEF Apart
  <1>7. ASSUME NEW w \in Workers PROVE Book(w)' /\ Away(w)' /\ Within(w)'
    <2>1. Book(w) /\ rec[w].state \in States
      BY DEF Disk, Records, Record
    <2>2. rec'[w].state \in {"reported", "held", "retired"}
      BY <1>2, <2>1 DEF InProgress, States
    <2>3. Book(w)'
      BY <1>1, <1>2, <2>1, <2>2 DEF Book, InProgress
    <2>4. Away(w)' /\ Within(w)'
      BY <1>1, <2>2 DEF Away, Within, NoChain
    <2> QED
      BY <2>3, <2>4
  <1> QED
    BY <1>3, <1>4, <1>5, <1>6, <1>7

-----------------------------------------------------------------------------
(* Every step, and so every state.                                          *)

LEMMA NextInv == ASSUME Inv, [Next]_vars PROVE Inv'
  <1>1. CASE UNCHANGED vars
    <2>1. /\ UNCHANGED <<rec, base, log, lock, RUNNERS, ACTIVE, slot, job, calling, solo, pc, set, todo, alone>>
          /\ UNCHANGED <<chain, attempts, outs, end, lands, others, crashes>>
      BY <1>1 DEF vars, disk, check, calls, run, counts
    <2>2. Types'
      BY <2>1 DEF Inv, Types, Disk, Sets, Words, Flags, Counts
    <2>3. Workings'
      BY <2>1 DEF Inv, Workings, Stage, Verdict, tip, Apart, Innocent
    <2>4. ASSUME NEW w \in Workers PROVE Book(w)' /\ Away(w)' /\ Within(w)'
      <3>1. Book(w) /\ Away(w) /\ Within(w)
        BY DEF Inv
      <3> QED
        BY <2>1, <3>1 DEF Book, Away, Within, tip
    <2> QED
      BY <2>2, <2>3, <2>4 DEF Inv
  <1>2. CASE RunSteps
    <2>1. \/ Looks \/ Pop \/ Again \/ Builds \/ Leave \/ Checks \/ Marks \/ Fates \/ Split \/ Advance \/ HoldRest
          \/ \E w \in Workers : \/ LandAlone(w) \/ Refuse(w) \/ Hold(w)
                                \/ LandLog(w) \/ LandSave(w) \/ LandRetire(w)
      BY <1>2 DEF RunSteps, Looks, Builds, Checks, Marks, Fates
    <2> QED
      BY <2>1, LooksInv, PopInv, BuildsInv, LeaveInv, ChecksInv, MarksInv, FatesInv, SplitInv, AdvanceInv,
         HoldRestInv, LandAloneInv, RefuseInv, LandInv
  <1>3. CASE OnCheckEnd
    BY <1>3, ChecksInv DEF Checks
  <1>4. CASE \E w \in Workers : Call(w) \/ Join(w) \/ Straight(w) \/ Solo(w)
    BY <1>4, CallsInv, SoloInv
  <1>5. CASE OtherTakes \/ OtherReleases \/ \E f \in Foreign : HumanCommits(f) \/ HumanResets(f)
    BY <1>5, OthersInv
  <1>6. CASE Restart
    BY <1>6, RestartInv
  <1> QED
    BY <1>1, <1>2, <1>3, <1>4, <1>5, <1>6 DEF Next

LEMMA AlwaysInv == Spec => []Inv
  BY InitInv, NextInv, PTL DEF Spec

\* The records, the lock, the run's locals and the check's slot stay of their
\* types through every join, batch, land alone and restart, for any workers.
THEOREM BatchTypes == Spec => []TypeOK
  BY AlwaysInv, InvTypes, PTL

\* A land under way is always in hands that will end it, and never in two: a
\* join that races the run's last look is queued for a run that goes on or
\* starts one, and no member the batch lands is driven alone.
THEOREM AlwaysInHand == Spec => []OneDriver
  <1>1. Inv => OneDriver
    <2> SUFFICES ASSUME Inv PROVE OneDriver
      OBVIOUS
    <2> USE BatchAssumption
    <2>1. ASSUME NEW w \in Workers
          PROVE  /\ rec[w].state \in InProgress =>
                      \/ w \in calling \cup solo \cup alone
                      \/ rec[w].state = "queued_batch" /\ RUNNERS
                      \/ w \in chain.in \cup chain.left /\ pc \in Chained
                      \/ rec[w].state = "advancing" /\ w \in set /\ pc = "again"
                      \/ w \in outs /\ pc \in {"land", "refuse", "hold"}
                 /\ w \in solo => w \notin calling \cup alone /\ rec[w].state # "queued_batch"
                 /\ w \in alone /\ pc \notin {"release", "alone", "drive"} => rec[w].state = "locking"
                 /\ w \in chain.in /\ pc \in Chained \ {"leave"} => w \notin solo \cup calling \cup alone
      <3>1. Away(w) /\ Within(w) /\ Stage /\ (pc # "off" => RUNNERS)
        BY DEF Inv, Types, Flags, Workings
      <3>2. rec[w].state \in InProgress =>
                      \/ w \in calling \cup solo \cup alone
                      \/ rec[w].state = "queued_batch" /\ pc # "off"
                      \/ w \in chain.in \cup chain.left /\ pc \in Chained
                      \/ rec[w].state = "advancing" /\ w \in set /\ pc = "again"
                      \/ w \in outs /\ pc \in {"land", "refuse", "hold"}
        BY <3>1 DEF Away, Within, InProgress, Chained
      <3>3. /\ w \in solo => w \notin calling \cup alone /\ rec[w].state # "queued_batch"
            /\ w \in alone /\ pc \notin {"release", "alone", "drive"} => rec[w].state = "locking"
        BY <3>1 DEF Away
      <3>4. ASSUME w \in chain.in, pc \in Chained \ {"leave"} PROVE w \notin solo \cup calling \cup alone
        <4>1. lock = Run
          BY <3>1, <3>4 DEF Stage, Loose, Chained
        <4>2. rec[w].state # "locking"
          BY <3>1, <3>4 DEF Within, Chained
        <4> QED
          BY <3>1, <3>4, <4>1, <4>2 DEF Away, Chained
      <3> QED
        BY <3>1, <3>2, <3>3, <3>4
    <2> QED
      BY <2>1 DEF OneDriver, InHand
  <1> QED
    BY <1>1, AlwaysInv, PTL

\* The land log never has a second line for a land, nor one for work that isn't
\* in Base, and a land that has ended in Base has its line, however many times
\* maiTerm restarts between Base's move and the record.
THEOREM LogAgrees == Spec => []LogIsTrue
  <1>1. Inv => LogIsTrue
    BY DEF Inv, Types, Disk, Book, LogIsTrue, InProgress
  <1> QED
    BY <1>1, AlwaysInv, PTL

\* A member refused for a failed check fails it without the others of its chain:
\* a chain is split until its culprit is alone.
THEOREM OnlyTheCulprit == Spec => []Innocent
  <1>1. Inv => Innocent
    BY DEF Inv, Workings
  <1> QED
    BY <1>1, AlwaysInv, PTL

-----------------------------------------------------------------------------
(* The queue implements Landings.                                           *)

Stand(s) == CASE s = "reported" -> "out"
              [] s = "held" -> "held"
              [] s = "retired" -> "done"
              [] OTHER -> "in"

whose == [w \in Workers |-> CASE rec[w].state = "reported" -> "out"
                              [] rec[w].state = "held" -> "held"
                              [] rec[w].state = "retired" -> "done"
                              [] OTHER -> "in"]

LEMMA Stands ==
  ASSUME NEW w \in Workers
  PROVE  /\ whose[w] = Stand(rec[w].state)
         /\ whose'[w] = Stand(rec'[w].state)
         /\ \A s \in InProgress : Stand(s) = "in"
         /\ Stand("reported") = "out" /\ Stand("held") = "held" /\ Stand("retired") = "done"
  BY DEF whose, Stand, InProgress

\* Steps that leave Base and everyone's standing as they were.
LEMMA Stutters ==
  ASSUME base' = base,
         \A w \in Workers : \/ rec'[w].state = rec[w].state
                            \/ {rec[w].state, rec'[w].state} \subseteq InProgress
  PROVE  UNCHANGED L!vars
  <1>1. \A w \in Workers : whose'[w] = whose[w]
    BY Stands
  <1>2. whose' = whose
    BY <1>1 DEF whose
  <1> QED
    BY <1>2 DEF L!vars, whose

\* One land whose standing changes, or some that are held; the others as they were.
LEMMA MoveOne ==
  ASSUME NEW w \in Workers, NEW s, rec'[w].state = s,
         \A v \in Workers \ {w} : rec'[v] = rec[v]
  PROVE  whose' = [whose EXCEPT ![w] = Stand(s)]
  <1>1. \A v \in Workers : whose'[v] = IF v = w THEN Stand(s) ELSE whose[v]
    BY Stands
  <1>2. whose' = [v \in Workers |-> whose'[v]] /\ whose = [v \in Workers |-> whose[v]]
    BY DEF whose
  <1> HIDE DEF whose
  <1> QED
    BY <1>1, <1>2

LEMMA HoldMany ==
  ASSUME NEW S \in SUBSET Workers, \A w \in S : rec'[w].state = "held",
         \A w \in Workers \ S : rec'[w] = rec[w]
  PROVE  whose' = [w \in Workers |-> IF w \in S THEN "held" ELSE whose[w]]
  <1>1. \A v \in Workers : whose'[v] = IF v \in S THEN "held" ELSE whose[v]
    BY Stands
  <1>2. whose' = [v \in Workers |-> whose'[v]]
    BY DEF whose
  <1> HIDE DEF whose
  <1> QED
    BY <1>1, <1>2

\* The run's steps that answer nobody: whoever they touch stays under way.
LEMMA QuietLands ==
  ASSUME Inv,
         \/ Looks \/ Pop \/ Again \/ Builds \/ Leave \/ Checks \/ Marks \/ Fates \/ Split \/ HoldRest
         \/ \E w \in Workers : LandAlone(w) \/ LandLog(w) \/ LandSave(w)
  PROVE  UNCHANGED L!vars
  <1> USE DEF Inv, Types, Workings
  <1>1. CASE Looks \/ Builds \/ Checks \/ Fates \/ HoldRest \/ \E w \in Workers : LandLog(w)
    <2>1. base' = base /\ rec' = rec
      BY <1>1 DEF Looks, Scan, Last, TakeLock, LockFails, Gather, Release, Driven, NoneAlone,
         Builds, BatchDone, Build, BuildFails, Checks, Start, StartFails, AwaitCheck, Hear, OnCheckEnd,
         Fates, CheckEnded, Culprit, BaseMoved, AdvanceHeld, AdvanceFails, HoldRest, LandLog, disk
    <2> QED
      BY <2>1, Stutters
  <1>2. CASE Pop \/ Again
    <2> DEFINE s == IF pc = "again" THEN set ELSE Head(todo)
    <2>1. base' = base /\ rec' = Taken(s) /\ (pc # "again" => todo # <<>>)
      BY <1>2 DEF Pop, Again, Free
    <2>2. s \in SUBSET Workers
      BY <2>1, SetsTail DEF Apart, Sets
    <2> HIDE DEF s
    <2>3. \A w \in Workers : IF w \in members(s)
                             THEN rec[w].state \in InProgress /\ rec'[w].state \in InProgress
                             ELSE rec'[w] = rec[w]
      BY <2>1, <2>2, TakenStep DEF Reset, InProgress
    <2> QED
      BY <2>1, <2>3, Stutters
  <1>3. CASE Leave
    <2>1. base' = base /\ pc = "leave" /\ chain.left \subseteq Workers /\ chain.in \subseteq Workers
      BY <1>3 DEF Leave, Sets
    <2>3. chain.left \cap chain.in = {}
      BY <2>1 DEF Stage, Chained
    <2>2. ASSUME NEW w \in Workers
          PROVE  \/ rec'[w].state = rec[w].state
                 \/ {rec[w].state, rec'[w].state} \subseteq InProgress
      <3>1. Within(w) /\ rec[w] \in Record
        BY DEF Disk, Records
      <3>2. CASE w \in chain.left
        <4>1. rec'[w].state = "locking"
          <5>1. rec'[w] = Left(w)
            BY <1>3, <2>1, <2>3, <3>2 DEF Leave
          <5> QED
            BY <5>1, PutOne DEF Left, Disk, States
        <4> QED
          BY <2>1, <3>1, <3>2, <4>1 DEF Within, InProgress
      <3>3. CASE w \notin chain.left /\ w \in chain.in
        BY <1>3, <3>1, <3>3 DEF Leave, Record
      <3>4. CASE w \notin chain.left /\ w \notin chain.in
        BY <1>3, <3>4 DEF Leave
      <3> QED
        BY <3>2, <3>3, <3>4
    <2> QED
      BY <2>1, <2>2, Stutters
  <1>4. CASE Marks
    <2> DEFINE s == IF pc = "mark" THEN "checking" ELSE "advancing"
    <2>1. (pc = "mark" \/ (pc = "ended" /\ end # "unfinished")) /\ base' = base /\ chain.in \in SUBSET Workers
      BY <1>4 DEF Marks, Mark, CheckEnded, Sets
    <2>2. Marked(chain.in, s, s)
      BY <1>4, <2>1, MarkMany DEF Marks, Mark, CheckEnded, Disk, States, Repos
    <2>3. ASSUME NEW w \in Workers
          PROVE  \/ rec'[w].state = rec[w].state
                 \/ {rec[w].state, rec'[w].state} \subseteq InProgress
      <3>1. Within(w)
        OBVIOUS
      <3> QED
        BY <2>1, <2>2, <3>1 DEF Marked, Within, InProgress
    <2> QED
      BY <2>1, <2>3, Stutters
  <1>5. CASE Split
    <2>1. Reset(chain.in, "queued_batch") /\ pc = "ended" /\ base' = base
      BY <1>5, ResetMany DEF Split, Disk, States, Sets
    <2>2. ASSUME NEW w \in Workers
          PROVE  \/ rec'[w].state = rec[w].state
                 \/ {rec[w].state, rec'[w].state} \subseteq InProgress
      <3>1. Within(w)
        OBVIOUS
      <3> QED
        BY <2>1, <3>1 DEF Reset, Within, InProgress
    <2> QED
      BY <2>1, <2>2, Stutters
  <1>6. CASE \E w \in Workers : LandAlone(w)
    <2>1. PICK w \in Workers : LandAlone(w)
      BY <1>6
    <2>2. base' = base /\ (Reset({w}, "locking") \/ rec' = rec) /\ w \in alone
      BY <2>1, ResetOne DEF LandAlone, Disk, States
    <2>3. Away(w)
      OBVIOUS
    <2>4. rec[w].state \in InProgress
      BY <2>2, <2>3 DEF Away, InProgress
    <2> QED
      BY <2>2, <2>4, Stutters DEF Reset, InProgress
  <1>7. CASE \E w \in Workers : LandSave(w)
    <2>1. PICK w \in Workers : LandSave(w)
      BY <1>7
    <2>2. Marked({w}, rec[w].state, "landed") /\ base' = base
      BY <2>1, RepoOne DEF LandSave, Disk, Repos
    <2> QED
      BY <2>2, Stutters DEF Marked
  <1> QED
    BY <1>1, <1>2, <1>3, <1>4, <1>5, <1>6, <1>7

\* A member refused or held, or landed: answered, for a land under way, as its
\* place in Base allows.
LEMMA MemberLands ==
  ASSUME Inv, NEW w \in Workers, Refuse(w) \/ Hold(w) \/ LandRetire(w)
  PROVE  L!Next
  <1> USE DEF Inv, Types, Workings
  <1>1. Book(w) /\ Within(w) /\ base' = base /\ w \in outs /\ pc \in {"refuse", "hold", "land"}
    BY DEF Refuse, Hold, LandRetire
  <1>2. rec[w].state \in InProgress
    BY <1>1 DEF Within, Book, InProgress
  <1>3. whose[w] = "in"
    BY <1>2, Stands
  <1>4. CASE Refuse(w)
    <2>1. Reset({w}, "reported") /\ pc = "refuse"
      BY <1>4, ResetOne DEF Refuse, Disk, States
    <2>5. rec'[w].state = "reported" /\ \A v \in Workers \ {w} : rec'[v] = rec[v]
      BY <2>1 DEF Reset
    <2>2. whose' = [whose EXCEPT ![w] = "out"]
      BY <2>5, MoveOne, Stands
    <2>3. w \notin base
      BY <1>1, <1>2, <2>1 DEF Book, Within, InProgress
    <2>4. L!Back(w)
      BY <1>1, <1>3, <2>2, <2>3 DEF L!Back, whose
    <2> QED
      BY <2>4 DEF L!Next
  <1>5. CASE Hold(w)
    <2>1. Reset({w}, "held")
      BY <1>5, ResetOne DEF Hold, Disk, States
    <2>2. whose' = [v \in Workers |-> IF v \in {w} THEN "held" ELSE whose[v]]
      BY <2>1, HoldMany DEF Reset
    <2>3. L!Hold({w})
      BY <1>1, <1>3, <2>2 DEF L!Hold, whose
    <2> QED
      BY <2>3 DEF L!Next
  <1>6. CASE LandRetire(w)
    <2>1. PICK s \in {"retired", "held"} : rec' = [rec EXCEPT ![w].state = s]
      BY <1>6 DEF LandRetire
    <2>2. Marked({w}, s, rec[w].repo)
      BY <2>1, StateOne DEF Disk, States
    <2>3. w \in base
      BY <1>1, <1>6 DEF Book, LandRetire
    <2>4. CASE s = "held"
      <3>1. whose' = [v \in Workers |-> IF v \in {w} THEN "held" ELSE whose[v]]
        BY <2>2, <2>4, HoldMany DEF Marked
      <3>2. L!Hold({w})
        BY <1>1, <1>3, <3>1 DEF L!Hold, whose
      <3> QED
        BY <3>2 DEF L!Next
    <2>5. CASE s = "retired"
      <3>3. rec'[w].state = "retired" /\ \A v \in Workers \ {w} : rec'[v] = rec[v]
        BY <2>2, <2>5 DEF Marked
      <3>1. whose' = [whose EXCEPT ![w] = "done"]
        BY <3>3, MoveOne, Stands
      <3>2. L!Done(w)
        BY <1>1, <1>3, <2>3, <3>1 DEF L!Done, whose
      <3> QED
        BY <3>2 DEF L!Next
    <2> QED
      BY <2>4, <2>5
  <1> QED
    BY <1>4, <1>5, <1>6

\* Base takes a whole chain, whose check passed on the Base it still is.
LEMMA AdvanceLands == ASSUME Inv, Advance PROVE L!Next
  <1> USE DEF Inv, Types, Workings
  <1>1. /\ pc = "advance" /\ base = chain.base /\ base' = base \cup chain.in /\ rec' = rec
        /\ chain.in \in SUBSET Workers /\ ~Fails(base \cup chain.in)
    BY DEF Advance, FastForwards, Sets, Verdict, tip
  <1>2. ASSUME NEW w \in chain.in PROVE whose[w] = "in" /\ w \notin base
    <2>1. Book(w) /\ Within(w) /\ w \in Workers
      BY <1>1
    <2>2. rec[w].state = "advancing"
      BY <1>1, <2>1 DEF Within
    <2> QED
      BY <1>1, <2>1, <2>2, Stands DEF Book, InProgress
  <1>3. whose' = whose
    BY <1>1 DEF whose
  <1>4. L!Move(chain.in)
    BY <1>1, <1>2, <1>3 DEF L!Move, L!Fails, Fails, whose
  <1> QED
    BY <1>1, <1>4 DEF L!Next

\* A call asks, joins or goes on alone.
LEMMA CallLands ==
  ASSUME Inv, NEW w \in Workers, Call(w) \/ Join(w) \/ Straight(w)
  PROVE  L!Next \/ UNCHANGED L!vars
  <1> USE DEF Inv, Types, Workings
  <1>1. CASE Call(w)
    <2>1. Marked({w}, "locking", rec[w].repo) /\ base' = base /\ rec[w].state \in {"reported", "held"}
      BY <1>1, StateOne DEF Call, Disk, States
    <2>2. "locking" \in InProgress
      BY DEF InProgress
    <2>6. rec'[w].state = "locking" /\ \A v \in Workers \ {w} : rec'[v] = rec[v]
      BY <2>1 DEF Marked
    <2>3. whose' = [whose EXCEPT ![w] = "in"]
      BY <2>2, <2>6, MoveOne, Stands
    <2>4. whose[w] \in {"out", "held"}
      BY <2>1, Stands
    <2>5. L!Ask(w)
      BY <2>1, <2>3, <2>4 DEF L!Ask, whose
    <2> QED
      BY <2>5 DEF L!Next
  <1>2. CASE Join(w)
    <2>1. Marked({w}, "queued_batch", rec[w].repo) /\ base' = base /\ Away(w) /\ w \in calling
      BY <1>2, StateOne DEF Join, Disk, States
    <2>2. {rec[w].state, rec'[w].state} \subseteq InProgress
      BY <2>1 DEF Marked, Away, InProgress
    <2> QED
      BY <2>1, <2>2, Stutters DEF Marked
  <1>3. CASE Straight(w)
    BY <1>3, Stutters DEF Straight, disk
  <1> QED
    BY <1>1, <1>2, <1>3

\* A land alone moves Base and is done, is answered as refused or held, or is
\* done for what landed before.
LEMMA SoloSteps ==
  ASSUME Inv, NEW w \in Workers, Solo(w)
  PROVE  L!Next \/ UNCHANGED L!vars
  <1> USE DEF Inv, Types, Workings
  <1>1. Book(w) /\ Away(w) /\ w \in solo
    BY DEF Solo, SoloLocks, SoloLands, SoloStops, SoloRetires
  <1>2. rec[w].state = (IF lock = w THEN "checking" ELSE "locking") /\ rec[w].state \in InProgress
    BY <1>1 DEF Away, InProgress
  <1>3. whose[w] = "in" /\ (lock = w => w \notin base)
    BY <1>1, <1>2, Stands DEF Book
  <1>4. CASE SoloLocks(w)
    <2>1. Marked({w}, "checking", "checking") /\ base' = base
      BY <1>4, MarkOne DEF SoloLocks, Disk, States, Repos
    <2> QED
      BY <1>2, <2>1, Stutters DEF Marked, InProgress
  <1>5. CASE SoloLands(w)
    <2>1. Marked({w}, "retired", "landed") /\ base' = base \cup {w} /\ lock = w /\ ~Fails(base \cup {w})
      BY <1>5, MarkOne DEF SoloLands, Disk, States, Repos
    <2>4. rec'[w].state = "retired" /\ \A v \in Workers \ {w} : rec'[v] = rec[v]
      BY <2>1 DEF Marked
    <2>2. whose' = [whose EXCEPT ![w] = "done"]
      BY <2>4, MoveOne, Stands
    <2>3. L!MoveDone(w)
      BY <1>3, <2>1, <2>2 DEF L!MoveDone, L!Fails, Fails, whose
    <2> QED
      BY <2>3 DEF L!Next
  <1>6. CASE SoloStops(w)
    <2>1. base' = base /\ lock = w
      BY <1>6 DEF SoloStops
    <2>2. CASE rec' = [rec EXCEPT ![w] = Put(w, "reported")]
      <3>1. Reset({w}, "reported")
        BY <2>2, ResetOne DEF Disk, States
      <3>4. rec'[w].state = "reported" /\ \A v \in Workers \ {w} : rec'[v] = rec[v]
        BY <3>1 DEF Reset
      <3>2. whose' = [whose EXCEPT ![w] = "out"]
        BY <3>4, MoveOne, Stands
      <3>3. L!Back(w)
        BY <1>3, <2>1, <3>2 DEF L!Back, whose
      <3> QED
        BY <3>3 DEF L!Next
    <2>3. CASE rec' = [rec EXCEPT ![w].state = "held", ![w].repo = "tested"]
      <3>1. Marked({w}, "held", "tested")
        BY <2>3, MarkOne DEF Disk, States, Repos
      <3>2. whose' = [v \in Workers |-> IF v \in {w} THEN "held" ELSE whose[v]]
        BY <3>1, HoldMany DEF Marked
      <3>3. L!Hold({w})
        BY <1>3, <2>1, <3>2 DEF L!Hold, whose
      <3> QED
        BY <3>3 DEF L!Next
    <2> QED
      BY <1>6, <2>2, <2>3 DEF SoloStops
  <1>7. CASE SoloRetires(w)
    <2>1. Marked({w}, "retired", rec[w].repo) /\ base' = base /\ rec[w].repo = "landed"
      BY <1>7, StateOne DEF SoloRetires, Disk, States
    <2>4. rec'[w].state = "retired" /\ w \in base /\ \A v \in Workers \ {w} : rec'[v] = rec[v]
      BY <1>1, <2>1 DEF Marked, Book
    <2>2. whose' = [whose EXCEPT ![w] = "done"]
      BY <2>4, MoveOne, Stands
    <2>3. L!Done(w)
      BY <1>3, <2>1, <2>2, <2>4 DEF L!Done, whose
    <2> QED
      BY <2>3 DEF L!Next
  <1> QED
    BY <1>4, <1>5, <1>6, <1>7 DEF Solo

\* Others leave the lands as they are; a restart holds all under way.
LEMMA OtherSteps ==
  ASSUME Inv, \/ OtherTakes \/ OtherReleases \/ \E f \in Foreign : HumanCommits(f) \/ HumanResets(f)
              \/ Restart
  PROVE  L!Next \/ UNCHANGED L!vars
  <1> USE DEF Inv, Types, Workings
  <1>1. CASE OtherTakes \/ OtherReleases
    BY <1>1, Stutters DEF OtherTakes, OtherReleases, disk
  <1>2. CASE \E f \in Foreign : HumanCommits(f) \/ HumanResets(f)
    <2>1. PICK f \in Foreign : HumanCommits(f) \/ HumanResets(f)
      BY <1>2
    <2>2. base \subseteq Workers \cup Foreign /\ Workers \cap Foreign = {} /\ rec' = rec
      BY <2>1, BatchAssumption DEF HumanCommits, HumanResets, Disk, Changes
    <2>3. base' = (base \cap Workers) \cup (base' \cap Foreign)
      BY <2>1, <2>2 DEF HumanCommits, HumanResets
    <2>4. whose' = whose
      BY <2>2 DEF whose
    <2>5. L!Commits(base' \cap Foreign)
      BY <2>3, <2>4 DEF L!Commits, whose
    <2> QED
      BY <2>5 DEF L!Next
  <1>3. CASE Restart
    <2>4. PICK S \in SUBSET Workers : S = {w \in Workers : rec[w].state \in InProgress}
      OBVIOUS
    <2>1. base' = base /\ \A w \in Workers : rec'[w] = IF w \in S THEN reconciled(w) ELSE rec[w]
      BY <1>3, <2>4 DEF Restart
    <2>6. \A w \in S : w \in Workers /\ rec[w].state \in InProgress
      BY <2>4
    <2>8. \A w \in Workers : reconciled(w).state = "held"
      BY DEF reconciled
    <2>2. \A w \in S : rec'[w].state = "held"
      BY <2>1, <2>6, <2>8
    <2>7. \A w \in S : whose[w] = "in"
      BY <2>6, Stands
    <2>3. whose' = [w \in Workers |-> IF w \in S THEN "held" ELSE whose[w]]
      BY <2>1, <2>2, HoldMany
    <2>5. L!Hold(S)
      BY <2>1, <2>3, <2>7 DEF L!Hold, whose
    <2> QED
      BY <2>5 DEF L!Next
  <1> QED
    BY <1>1, <1>2, <1>3

\* Whether lands are batched, split, driven alone, retried on a moved Base or
\* cut short by a restart, Base only gains work that passed the land check with
\* all it holds, no worker's work leaves it, and a land whose work is in Base is
\* never answered as refused: the queue implements Landings.
THEOREM QueueLands == Spec => Lands
  <1>1. Init => L!Init
    BY DEF Init, L!Init
  <1>2. ASSUME Inv, [Next]_vars PROVE [L!Next]_(L!vars)
    <2>1. CASE UNCHANGED vars
      BY <1>2, <2>1 DEF vars, disk, L!vars
    <2>2. CASE RunSteps
      <3>1. \/ Looks \/ Pop \/ Again \/ Builds \/ Leave \/ Checks \/ Marks \/ Fates \/ Split \/ Advance \/ HoldRest
            \/ \E w \in Workers : \/ LandAlone(w) \/ LandLog(w) \/ LandSave(w)
                                  \/ Refuse(w) \/ Hold(w) \/ LandRetire(w)
        BY <2>2 DEF RunSteps, Looks, Builds, Checks, Marks, Fates
      <3> QED
        BY <1>2, <3>1, QuietLands, AdvanceLands, MemberLands
    <2>3. CASE OnCheckEnd
      BY <1>2, <2>3, QuietLands DEF Checks
    <2>4. CASE \E w \in Workers : Call(w) \/ Join(w) \/ Straight(w) \/ Solo(w)
      BY <1>2, <2>4, CallLands, SoloSteps
    <2>5. CASE OtherTakes \/ OtherReleases \/ (\E f \in Foreign : HumanCommits(f) \/ HumanResets(f)) \/ Restart
      BY <1>2, <2>5, OtherSteps
    <2> QED
      BY <1>2, <2>1, <2>2, <2>3, <2>4, <2>5 DEF Next
  <1> QED
    BY <1>1, <1>2, AlwaysInv, PTL DEF Spec, Lands, L!Spec
=============================================================================
