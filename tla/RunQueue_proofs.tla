----------------------------- MODULE RunQueue_proofs ----------------------------
(***************************************************************************)
(* What RunQueue promises for any jobs, needs, shares, pools, copies and    *)
(* tickers: its types, that resources and leases are exactly what started   *)
(* jobs need (Possession), and that no pool is overcommitted (Capacity).    *)
(* The three together are inductive: Offer adds only what has_room found    *)
(* room for, to a job that is queued (TypeOK's todo) and so holds nothing,  *)
(* and end takes from every holder what the ended jobs had.                 *)
(***************************************************************************)
EXTENDS RunQueue, FiniteSetTheorems, TLAPS

Safe == TypeOK /\ Possession /\ Capacity

(* What the holders of a pool cannot exceed, and what giving back leaves.   *)
LEMMA HoldersFinite ==
    ASSUME TypeOK, NEW k \in Keys
    PROVE  IsFiniteSet(holders[k]) /\ Cardinality(holders[k]) \in Nat
  BY RunQueueAssumption, FS_Subset, FS_CardinalityType DEF TypeOK

(* Init.                                                                    *)
LEMMA InitSafe == Init => Safe
  <1> SUFFICES ASSUME Init PROVE Safe
    OBVIOUS
  <1>1. TypeOK
    BY DEF Init, TypeOK
  <1>2. Possession
    BY RunQueueAssumption DEF Init, Possession, holds
  <1>3. Capacity
    BY RunQueueAssumption, FS_EmptySet DEF Init, Capacity
  <1> QED
    BY <1>1, <1>2, <1>3 DEF Safe

(* end, for jobs of any set, with an override or none.                      *)
LEMMA EndSafe ==
    ASSUME Safe, todo = {}, NEW S \in SUBSET Jobs, NEW now \in SUBSET (Copies \X {"override"}),
           end(S, now), UNCHANGED <<kickvars, todo, caller>>
    PROVE  Safe'
  <1> DEFINE freed == {h \in held : h[1] \in Freed(S)}
  <1>1. /\ state' \in [Jobs -> {"new", "queued", "waiting_window", "running", "ending", "over"}]
        /\ \A j \in Jobs : state'[j] = IF j \in S THEN "ending" ELSE state[j]
    BY DEF end, Safe, TypeOK
  <1>2. /\ holders' \in [Keys -> SUBSET Jobs]
        /\ \A k \in Keys : holders'[k] = holders[k] \ S
    BY DEF end, give_back, Safe, TypeOK
  <1>3. /\ leases' \in [Copies -> SUBSET Jobs]
        /\ \A c \in Copies : leases'[c] = leases[c] \ S
    BY DEF end, give_back, Safe, TypeOK
  <1>4. held' \subseteq Copies \X Acts /\ handoff' \subseteq Copies
    BY DEF end, Safe, TypeOK
  <1>5. acting' \subseteq (Copies \X Acts \X {"sent", "again", "over"})
                            \cup (Copies \X {"override"} \X {"over"})
    <2> SUFFICES ASSUME NEW x \in acting'
                 PROVE  x \in (Copies \X Acts \X {"sent", "again", "over"})
                                \cup (Copies \X {"override"} \X {"over"})
      OBVIOUS
    <2>1. CASE x \in acting
      BY <2>1 DEF Safe, TypeOK
    <2>2. CASE x \notin acting
      <3>1. PICK h \in freed \cup now :
                x = <<h[1], h[2], IF h \in now THEN "over" ELSE "sent">>
        BY <2>2 DEF end
      <3>2. (h \in Copies \X {"override"} /\ h \in now) \/ h \in Copies \X Acts
        BY DEF Safe, TypeOK
      <3> QED
        BY <3>1, <3>2
    <2> QED
      BY <2>1, <2>2
  <1>6. TypeOK'
    <2>1. /\ todo' = {} /\ caller' \subseteq Jobs
          /\ kicked' \in BOOLEAN /\ TICKING' \in BOOLEAN
          /\ ticker' \in [Tickers -> {"off", "sleep", "tick", "store", "look", "swap"}]
      BY DEF Safe, TypeOK, kickvars
    <2> QED
      BY <1>1, <1>2, <1>3, <1>4, <1>5, <2>1 DEF TypeOK
  <1>7. \A j \in Jobs : holds(j)' <=> holds(j) /\ j \notin S
    BY <1>1 DEF holds
  <1>8. Possession'
    BY <1>2, <1>3, <1>7 DEF Safe, Possession
  <1>9. Capacity'
    <2> SUFFICES ASSUME NEW k \in Pools PROVE Cardinality(holders'[k]) <= Cap[k]
      BY DEF Capacity
    <2>1. k \in Keys /\ Cap[k] \in Nat
      BY RunQueueAssumption
    <2>2. Cardinality(holders'[k]) <= Cardinality(holders[k]) /\ Cardinality(holders'[k]) \in Nat
      BY <1>2, <2>1, HoldersFinite, FS_Subset, FS_CardinalityType DEF Safe
    <2> QED
      BY <2>1, <2>2, HoldersFinite DEF Safe, Capacity
  <1> QED
    BY <1>6, <1>8, <1>9 DEF Safe

(* An offered start: the only step that takes resources and leases.         *)
LEMMA OfferSafe ==
    ASSUME Safe, NEW j \in todo, Offer(j)
    PROVE  Safe'
  <1> DEFINE Refused == Hive[j] \in parked \/ ~has_room(j) \/ \E c \in Leases[j] : lease_blocked(c)
  <1>1. j \in Jobs /\ state[j] = "queued"
    BY DEF Safe, TypeOK
  <1>2. CASE Refused
    <2>1. UNCHANGED <<state, holders, leases, held, handoff, acting, kicked, TICKING, ticker, caller>>
          /\ todo' \subseteq todo
      BY <1>2 DEF Offer, resvars, actvars, kickvars
    <2>2. TypeOK'
      BY <2>1 DEF Safe, TypeOK
    <2> QED
      BY <2>1, <2>2 DEF Safe, Possession, Capacity, holds
  <1>3. CASE ~Refused
    <2>1. /\ state' = [state EXCEPT ![j] = "waiting_window"]
          /\ holders' = [k \in Keys |-> IF k \in Needs[j] THEN holders[k] \cup {j} ELSE holders[k]]
          /\ leases' = [c \in Copies |-> IF c \in Leases[j] THEN leases[c] \cup {j} ELSE leases[c]]
          /\ todo' = todo \ {j}
          /\ UNCHANGED <<held, handoff, acting, kicked, TICKING, ticker, caller>>
      BY <1>3 DEF Offer, actvars, kickvars
    <2>2. TypeOK'
      BY <1>1, <2>1 DEF Safe, TypeOK
    <2>3. \A o \in Jobs : holds(o)' <=> holds(o) \/ o = j
      BY <1>1, <2>1 DEF Safe, TypeOK, holds
    <2>4. Possession'
      BY <1>1, <2>1, <2>3 DEF Safe, Possession
    <2>5. Capacity'
      <3> SUFFICES ASSUME NEW k \in Pools PROVE Cardinality(holders'[k]) <= Cap[k]
        BY DEF Capacity
      <3>1. k \in Keys /\ Cap[k] \in Nat
        BY RunQueueAssumption
      <3>2. CASE k \notin Needs[j]
        BY <2>1, <3>1, <3>2 DEF Safe, Capacity
      <3>3. CASE k \in Needs[j]
        <4>1. Cardinality(holders[k]) < Cap[k]
          BY <1>3, <3>3 DEF has_room
        <4>2. IsFiniteSet(holders[k]) /\ Cardinality(holders[k]) \in Nat
          BY <3>1, HoldersFinite DEF Safe
        <4>3. Cardinality(holders[k] \cup {j}) \in
                {Cardinality(holders[k]), Cardinality(holders[k]) + 1}
          BY <4>2, FS_AddElement
        <4>4. holders'[k] = holders[k] \cup {j}
          BY <2>1, <3>1, <3>3
        <4> QED
          BY <3>1, <4>1, <4>2, <4>3, <4>4
      <3> QED
        BY <3>2, <3>3
    <2> QED
      BY <2>2, <2>4, <2>5 DEF Safe
  <1> QED
    BY <1>2, <1>3

(* Steps that leave the resources, the leases and who holds alone.          *)
LEMMA OtherSafe ==
    ASSUME Safe, UNCHANGED <<holders, leases>>, TypeOK',
           \A j \in Jobs : holds(j)' <=> holds(j)
    PROVE  Safe'
  <1>1. Possession'
    BY DEF Safe, Possession
  <1>2. Capacity'
    BY DEF Safe, Capacity
  <1> QED
    BY <1>1, <1>2 DEF Safe

(* kick: types only.                                                        *)
LEMMA KickTypes ==
    ASSUME TypeOK, kick
    PROVE  /\ kicked' \in BOOLEAN /\ TICKING' \in BOOLEAN
           /\ ticker' \in [Tickers -> {"off", "sleep", "tick", "store", "look", "swap"}]
  BY DEF TypeOK, kick

(* A job's own steps: being queued, running, ending, finishing.             *)
LEMMA JobSafe ==
    ASSUME Safe, todo = {}, NEW j \in Jobs, JobStep(j)
    PROVE  Safe'
  <1>1. CASE Enqueue(j)
    <2>1. TypeOK'
      BY <1>1 DEF Enqueue, Safe, TypeOK, resvars, actvars, kickvars
    <2>2. UNCHANGED <<holders, leases>> /\ \A o \in Jobs : holds(o)' <=> holds(o)
      BY <1>1 DEF Enqueue, Safe, TypeOK, resvars, holds
    <2> QED
      BY <2>1, <2>2, OtherSafe
  <1>2. CASE EnqueueKick(j)
    <2>1. TypeOK'
      BY <1>2, KickTypes DEF EnqueueKick, Safe, TypeOK, endvars, resvars, actvars
    <2>2. UNCHANGED <<holders, leases>> /\ \A o \in Jobs : holds(o)' <=> holds(o)
      BY <1>2 DEF EnqueueKick, endvars, resvars, holds
    <2> QED
      BY <2>1, <2>2, OtherSafe
  <1>3. CASE Begin(j)
    <2>1. TypeOK'
      BY <1>3 DEF Begin, Safe, TypeOK, resvars, actvars, kickvars
    <2>2. UNCHANGED <<holders, leases>> /\ \A o \in Jobs : holds(o)' <=> holds(o)
      BY <1>3 DEF Begin, Safe, TypeOK, resvars, holds
    <2> QED
      BY <2>1, <2>2, OtherSafe
  <1>4. CASE FailStart(j) \/ Exit(j)
    <2>1. end({j}, {}) /\ UNCHANGED <<kickvars, todo, caller>>
      BY <1>4 DEF FailStart, Exit
    <2> QED
      BY <2>1, EndSafe
  <1>5. CASE Finish(j)
    <2>1. TypeOK'
      BY <1>5, KickTypes DEF Finish, Safe, TypeOK, resvars, actvars
    <2>2. UNCHANGED <<holders, leases>> /\ \A o \in Jobs : holds(o)' <=> holds(o)
      BY <1>5 DEF Finish, Safe, TypeOK, resvars, holds
    <2> QED
      BY <2>1, <2>2, OtherSafe
  <1> QED
    BY <1>1, <1>2, <1>3, <1>4, <1>5 DEF JobStep, StartStep

(* Stops of a job, or of a Hive.                                            *)
LEMMA StopsSafe ==
    ASSUME Safe, todo = {}, NEW j \in Jobs, Stops(j)
    PROVE  Safe'
  <1>1. CASE Interrupt(j) \/ TimeOut(j)
    <2>1. end({j}, {}) /\ UNCHANGED <<kickvars, todo, caller>>
      BY <1>1 DEF Interrupt, TimeOut
    <2> QED
      BY <2>1, EndSafe
  <1>2. CASE Suspend(Hive[j])
    <2> DEFINE S == {o \in Jobs : Hive[o] = Hive[j] /\ is_active(o)}
    <2>1. end(S, {}) /\ UNCHANGED <<kickvars, todo, caller>> /\ S \in SUBSET Jobs
      BY <1>2 DEF Suspend
    <2> HIDE DEF S
    <2> QED
      BY <2>1, EndSafe
  <1>3. CASE Resume(Hive[j])
    <2>1. TypeOK' /\ UNCHANGED <<state, holders, leases>>
      BY <1>3 DEF Resume, Safe, TypeOK, endvars, resvars, actvars, kickvars
    <2> QED
      BY <2>1, OtherSafe DEF holds
  <1> QED
    BY <1>1, <1>2, <1>3 DEF Stops

(* Leases: only an overridden one changes who holds what.                   *)
LEMMA CopySafe ==
    ASSUME Safe, todo = {}, NEW c \in Copies, CopyStep(c)
    PROVE  Safe'
  <1>1. CASE override_lease(c)
    <2>1. end(leases[c], {<<c, "override">>}) /\ UNCHANGED <<kickvars, todo, caller>>
      BY <1>1 DEF override_lease
    <2>2. leases[c] \in SUBSET Jobs
      BY DEF Safe, TypeOK
    <2> QED
      BY <2>1, <2>2, EndSafe
  <1>2. CASE (\E a \in Acts : hold(c, a)) \/ HandoffExpires(c)
    <2>1. TypeOK' /\ UNCHANGED <<state, holders, leases>>
      BY <1>2 DEF hold, HandoffExpires, Safe, TypeOK, leasesame, resvars, kickvars
    <2> QED
      BY <2>1, OtherSafe DEF holds
  <1> QED
    BY <1>1, <1>2 DEF CopyStep

LEMMA ActSafe ==
    ASSUME Safe, todo = {}, NEW x \in acting, ActStep(x)
    PROVE  Safe'
  <1>1. /\ x[1] \in Copies /\ x[2] \in Acts \cup {"override"}
        /\ x[3] = "over" \/ x[2] \in Acts
        /\ x = <<x[1], x[2], x[3]>>
    BY DEF Safe, TypeOK
  <1>2. UNCHANGED <<state, holders, leases>>
    BY DEF ActStep, act, hold_again, lease_done, leasesame, resvars
  <1>3. CASE act(x)
    <2>1. TypeOK'
      BY <1>1, <1>3 DEF act, Goes, Safe, TypeOK, leasesame, resvars, kickvars
    <2> QED
      BY <1>2, <2>1, OtherSafe DEF holds
  <1>4. CASE hold_again(x)
    <2>1. TypeOK'
      BY <1>1, <1>4 DEF hold_again, Goes, Safe, TypeOK, leasesame, resvars, kickvars
    <2> QED
      BY <1>2, <2>1, OtherSafe DEF holds
  <1>5. CASE lease_done(x)
    <2>1. TypeOK'
      BY <1>5, KickTypes DEF lease_done, Safe, TypeOK, leasesame, resvars
    <2> QED
      BY <1>2, <2>1, OtherSafe DEF holds
  <1> QED
    BY <1>3, <1>4, <1>5 DEF ActStep

(* Every step of the specification.                                         *)
LEMMA StepSafe == Safe /\ [Next]_vars => Safe'
  <1> SUFFICES ASSUME Safe, [Next]_vars PROVE Safe'
    OBVIOUS
  <1>1. CASE \E j \in todo : Offer(j)
    BY <1>1, OfferSafe
  <1>2. CASE todo = {} /\ Others
    <2>1. CASE \E j \in Jobs : JobStep(j) \/ Stops(j)
      BY <1>2, <2>1, JobSafe, StopsSafe
    <2>2. CASE \E open \in BOOLEAN : Schedule(open)
      <3>1. TypeOK' /\ UNCHANGED <<state, holders, leases>>
        BY <2>2 DEF Schedule, offered, Safe, TypeOK, endvars, resvars, actvars
      <3> QED
        BY <3>1, OtherSafe DEF holds
    <2>3. CASE \E c \in Copies : CopyStep(c)
      BY <1>2, <2>3, CopySafe
    <2>4. CASE \E x \in acting : ActStep(x)
      BY <1>2, <2>4, ActSafe
    <2>5. CASE \E t \in Tickers : TickerStep(t)
      <3>1. TypeOK' /\ UNCHANGED <<state, holders, leases>>
        BY <2>5 DEF TickerStep, Sleep, Store, Look, Swap, Tick, TickTo, Safe, TypeOK, endvars,
                    resvars, actvars
      <3> QED
        BY <3>1, OtherSafe DEF holds
    <2> QED
      BY <1>2, <2>1, <2>2, <2>3, <2>4, <2>5 DEF Others
  <1>3. CASE UNCHANGED vars
    <2>1. TypeOK' /\ UNCHANGED <<state, holders, leases>>
      BY <1>3 DEF vars, endvars, resvars, actvars, kickvars, Safe, TypeOK
    <2> QED
      BY <2>1, OtherSafe DEF holds
  <1> QED
    BY <1>1, <1>2, <1>3 DEF Next

LEMMA AlwaysSafe == Spec => []Safe
  BY InitSafe, StepSafe, PTL DEF Spec

(* The types of RunQueue, for any jobs and tickers.                         *)
THEOREM Types == Spec => []TypeOK
  BY AlwaysSafe, PTL DEF Safe

(* Resources and leases are exactly what starting and running jobs need:    *)
(* none leaks on any of the ways to end, none is given back early.          *)
THEOREM Held == Spec => []Possession
  BY AlwaysSafe, PTL DEF Safe

(* No pool is ever given out beyond its capacity.                           *)
THEOREM WithinCapacity == Spec => []Capacity
  BY AlwaysSafe, PTL DEF Safe

-------------------------------------------------------------------------------
(* The ticker.  A task that sleeps, ticks or is about to store FALSE is the *)
(* one the flag stands for: while the flag is set there is exactly one of   *)
(* them, and while it is not there is none.                                 *)
Up(t) == ticker[t] \in {"sleep", "tick", "store"}

TickInv ==
    /\ \A t, u \in Tickers : Up(t) /\ Up(u) => t = u
    /\ TICKING <=> \E t \in Tickers : Up(t)
    /\ Ticked

(* kick leaves exactly one ticker that ticks.                               *)
LEMMA KickTicks ==
    ASSUME TypeOK, TickInv, kick
    PROVE  /\ \A t, u \in Tickers : Up(t)' /\ Up(u)' => t = u
           /\ TICKING' /\ \E t \in Tickers : Up(t)'
  <1>1. CASE TICKING
    BY <1>1 DEF TickInv, kick, Up
  <1>2. CASE ~TICKING
    <2>1. PICK t \in Tickers : ticker[t] = "off" /\ ticker' = [ticker EXCEPT ![t] = "sleep"]
      BY <1>2 DEF kick
    <2>2. TICKING' = TRUE
      BY <1>2 DEF kick
    <2>3. \A u \in Tickers : Up(u)' <=> u = t
      BY <1>2, <2>1 DEF TickInv, Up, TypeOK
    <2> QED
      BY <2>2, <2>3
  <1> QED
    BY <1>1, <1>2 DEF TypeOK

(* Steps that leave the tickers alone and activate no job, but one whose    *)
(* caller has still to kick.                                                *)
LEMMA SameTicks ==
    ASSUME TickInv, UNCHANGED <<TICKING, ticker>>,
           active' /\ caller' = {} => active /\ caller = {}
    PROVE  TickInv'
  BY DEF TickInv, Ticked, Up

LEMMA TickerTicks ==
    ASSUME TypeOK, TickInv, NEW t \in Tickers, TickerStep(t)
    PROVE  TickInv'
  <1>1. active' = active /\ caller' = caller
    BY DEF TickerStep, Sleep, Store, Look, Swap, Tick, TickTo, endvars, active, is_active
  <1>2. PICK to \in {"off", "sleep", "tick", "store", "look", "swap"} :
            ticker' = [ticker EXCEPT ![t] = to]
    BY DEF TickerStep, Sleep, Store, Look, Swap, Tick, TickTo
  <1>3. \A u \in Tickers : u # t => ticker'[u] = ticker[u]
    BY <1>2 DEF TypeOK
  <1>4. CASE Sleep(t) \/ Tick(t)
    <2>1. Up(t) /\ Up(t)' /\ TICKING' = TICKING
      BY <1>2, <1>4 DEF Sleep, Tick, TickTo, Up, TypeOK
    <2> QED
      BY <1>1, <1>3, <2>1 DEF TickInv, Ticked, Up
  <1>5. CASE Store(t)
    <2>1. Up(t) /\ ticker'[t] = "look" /\ TICKING' = FALSE
      BY <1>5 DEF Store, TickTo, Up, TypeOK
    <2> QED
      BY <1>1, <1>3, <2>1 DEF TickInv, Ticked, Up
  <1>6. CASE Look(t)
    <2>1. ticker[t] = "look" /\ ticker'[t] = (IF active THEN "swap" ELSE "off") /\ TICKING' = TICKING
      BY <1>6 DEF Look, TickTo, TypeOK
    <2> QED
      BY <1>1, <1>3, <2>1 DEF TickInv, Ticked, Up
  <1>7. CASE Swap(t)
    <2>1. ticker[t] = "swap" /\ ticker'[t] = (IF TICKING THEN "off" ELSE "tick") /\ TICKING' = TRUE
      BY <1>7 DEF Swap, TickTo, TypeOK
    <2> QED
      BY <1>1, <1>3, <2>1 DEF TickInv, Ticked, Up
  <1> QED
    BY <1>4, <1>5, <1>6, <1>7 DEF TickerStep

LEMMA StepTicks == Safe /\ TickInv /\ [Next]_vars => TickInv'
  <1> SUFFICES ASSUME Safe, TickInv, [Next]_vars PROVE TickInv'
    OBVIOUS
  <1> USE DEF Safe
  <1>1. CASE \E j \in todo : Offer(j)
    <2>1. PICK j \in todo : Offer(j)
      BY <1>1
    <2>2. UNCHANGED <<TICKING, ticker, caller>>
      BY <2>1 DEF Offer, kickvars
    <2>3. active' => active
      BY <2>1 DEF Offer, active, is_active, TypeOK
    <2> QED
      BY <2>2, <2>3, SameTicks
  <1>2. CASE todo = {} /\ Others
    <2>1. ASSUME NEW j \in Jobs, JobStep(j) PROVE TickInv'
      <3>1. CASE Enqueue(j)
        BY <3>1, SameTicks DEF Enqueue, kickvars, TypeOK
      <3>2. CASE EnqueueKick(j) \/ Finish(j)
        BY <3>2, KickTicks DEF EnqueueKick, Finish, TickInv, Ticked, Up
      <3>3. CASE Begin(j)
        BY <3>3, SameTicks DEF Begin, kickvars, active, is_active, TypeOK
      <3>4. CASE FailStart(j) \/ Exit(j)
        BY <3>4, SameTicks DEF FailStart, Exit, end, kickvars, active, is_active, TypeOK
      <3> QED
        BY <2>1, <3>1, <3>2, <3>3, <3>4 DEF JobStep, StartStep
    <2>2. ASSUME NEW j \in Jobs, Stops(j) PROVE TickInv'
      BY <2>2, SameTicks
         DEF Stops, Interrupt, TimeOut, Suspend, Resume, end, endvars, kickvars, active, is_active, TypeOK
    <2>3. CASE \E open \in BOOLEAN : Schedule(open)
      BY <2>3, SameTicks DEF Schedule, endvars, active, is_active
    <2>4. ASSUME NEW c \in Copies, CopyStep(c) PROVE TickInv'
      BY <2>4, SameTicks
         DEF CopyStep, hold, override_lease, HandoffExpires, leasesame, end, kickvars, active,
             is_active, TypeOK
    <2>5. ASSUME NEW x \in acting, ActStep(x) PROVE TickInv'
      <3>1. CASE act(x) \/ hold_again(x)
        BY <3>1, SameTicks DEF act, hold_again, leasesame, kickvars, active, is_active
      <3>2. CASE lease_done(x)
        BY <3>2, KickTicks DEF lease_done, TickInv, Ticked, Up
      <3> QED
        BY <2>5, <3>1, <3>2 DEF ActStep
    <2> QED
      BY <1>2, <2>1, <2>2, <2>3, <2>4, <2>5, TickerTicks DEF Others
  <1>3. CASE UNCHANGED vars
    BY <1>3, SameTicks DEF vars, endvars, kickvars, active, is_active
  <1> QED
    BY <1>1, <1>2, <1>3 DEF Next

LEMMA AlwaysTicks == Spec => []TickInv
  <1>1. Init => TickInv
    BY DEF Init, TickInv, Ticked, Up, active, is_active
  <1> QED
    BY <1>1, AlwaysSafe, StepTicks, PTL DEF Spec

(* However many ticker tasks come and go, one at most ticks.                *)
THEOREM TicksOnce == Spec => []OneTicker
  <1>1. TypeOK /\ TickInv => OneTicker
    <2> SUFFICES ASSUME TypeOK, TickInv PROVE OneTicker
      OBVIOUS
    <2> DEFINE T == {t \in Tickers : ticker[t] \in {"sleep", "tick"}}
    <2>1. CASE T = {}
      BY <2>1, FS_EmptySet DEF OneTicker
    <2>2. CASE T # {}
      <3>1. PICK t \in Tickers : T = {t}
        BY <2>2 DEF TickInv, Up
      <3> QED
        BY <3>1, FS_Singleton DEF OneTicker
    <2> QED
      BY <2>1, <2>2
  <1> QED
    BY <1>1, AlwaysSafe, AlwaysTicks, PTL DEF Safe

(* No active job is left without a ticker, whoever was ending itself when   *)
(* the job was queued.                                                      *)
THEOREM AlwaysTicked == Spec => []Ticked
  BY AlwaysTicks, PTL DEF TickInv

(* So the queue is ticked while a job is active, and by one task.           *)
THEOREM AlwaysTicking == Spec => []Ticking
  BY TicksOnce, AlwaysTicked, PTL DEF Ticking

-------------------------------------------------------------------------------
(* Held actions: each waits for a copy some job leases.                     *)
Waits == \A h \in held : leases[h[1]] # {}

(* What a step does to what is held and to who leases it.                   *)
HeldStep ==
    /\ \A h \in held : h \in held' <=> leases'[h[1]] # {}
    /\ \A h \in held : leases'[h[1]] \subseteq leases[h[1]]

LEMMA EndHolds ==
    ASSUME Safe, Waits, NEW S \in SUBSET Jobs, NEW now, end(S, now)
    PROVE  HeldStep /\ Waits'
  <1>1. \A c \in Copies : leases'[c] = leases[c] \ S
    BY DEF end, give_back, Safe, TypeOK
  <1>2. held' = {h \in held : h[1] \notin Freed(S)}
    BY DEF end
  <1>3. \A h \in held : h[1] \in Copies
    BY DEF Safe, TypeOK
  <1>4. \A h \in held : h \in held' <=> leases'[h[1]] # {}
    BY <1>1, <1>2, <1>3 DEF Waits, Freed
  <1> QED
    BY <1>1, <1>2, <1>3, <1>4 DEF HeldStep, Waits

LEMMA SameHolds ==
    ASSUME Waits, UNCHANGED <<held, leases>>
    PROVE  HeldStep /\ Waits'
  BY DEF HeldStep, Waits

LEMMA StepHolds == Safe /\ Waits /\ [Next]_vars => HeldStep /\ Waits'
  <1> SUFFICES ASSUME Safe, Waits, [Next]_vars PROVE HeldStep /\ Waits'
    OBVIOUS
  <1>1. CASE \E j \in todo : Offer(j)
    <2>1. PICK j \in todo : Offer(j)
      BY <1>1
    <2>2. held' = held
      BY <2>1 DEF Offer, actvars
    <2>3. \A h \in held : leases'[h[1]] = leases[h[1]]
      <3> SUFFICES ASSUME NEW h \in held PROVE leases'[h[1]] = leases[h[1]]
        OBVIOUS
      <3>1. h[1] \in Copies
        BY DEF Safe, TypeOK
      <3> QED
        BY <2>1, <3>1 DEF Offer, lease_blocked, resvars
    <2> QED
      BY <2>2, <2>3 DEF HeldStep, Waits
  <1>2. CASE todo = {} /\ Others
    <2>1. ASSUME NEW j \in Jobs, JobStep(j) PROVE HeldStep /\ Waits'
      <3>1. CASE FailStart(j) \/ Exit(j)
        <4>1. end({j}, {})
          BY <3>1 DEF FailStart, Exit
        <4> QED
          BY <4>1, EndHolds
      <3>2. CASE Enqueue(j) \/ EnqueueKick(j) \/ Begin(j) \/ Finish(j)
        BY <3>2, SameHolds DEF Enqueue, EnqueueKick, Begin, Finish, endvars, resvars, actvars
      <3> QED
        BY <2>1, <3>1, <3>2 DEF JobStep, StartStep
    <2>2. ASSUME NEW j \in Jobs, Stops(j) PROVE HeldStep /\ Waits'
      <3>1. CASE Interrupt(j) \/ TimeOut(j)
        <4>1. end({j}, {})
          BY <3>1 DEF Interrupt, TimeOut
        <4> QED
          BY <4>1, EndHolds
      <3>2. CASE Suspend(Hive[j])
        <4> DEFINE S == {o \in Jobs : Hive[o] = Hive[j] /\ is_active(o)}
        <4>1. end(S, {}) /\ S \in SUBSET Jobs
          BY <3>2 DEF Suspend
        <4> HIDE DEF S
        <4> QED
          BY <4>1, EndHolds
      <3>3. CASE Resume(Hive[j])
        BY <3>3, SameHolds DEF Resume, endvars, resvars, actvars
      <3> QED
        BY <2>2, <3>1, <3>2, <3>3 DEF Stops
    <2>3. CASE \E open \in BOOLEAN : Schedule(open)
      BY <2>3, SameHolds DEF Schedule, endvars, resvars, actvars
    <2>4. ASSUME NEW c \in Copies, CopyStep(c) PROVE HeldStep /\ Waits'
      <3>1. CASE override_lease(c)
        <4>1. end(leases[c], {<<c, "override">>}) /\ leases[c] \in SUBSET Jobs
          BY <3>1 DEF override_lease, Safe, TypeOK
        <4> QED
          BY <4>1, EndHolds
      <3>2. CASE \E a \in Acts : hold(c, a)
        BY <3>2 DEF hold, leasesame, resvars, HeldStep, Waits
      <3>3. CASE HandoffExpires(c)
        BY <3>3, SameHolds DEF HandoffExpires, leasesame, resvars
      <3> QED
        BY <2>4, <3>1, <3>2, <3>3 DEF CopyStep
    <2>5. ASSUME NEW x \in acting, ActStep(x) PROVE HeldStep /\ Waits'
      <3>1. CASE act(x) \/ lease_done(x)
        BY <3>1, SameHolds DEF act, lease_done, leasesame, resvars
      <3>2. CASE hold_again(x)
        BY <3>2 DEF hold_again, leasesame, resvars, HeldStep, Waits
      <3> QED
        BY <2>5, <3>1, <3>2 DEF ActStep
    <2>6. CASE \E t \in Tickers : TickerStep(t)
      BY <2>6, SameHolds
         DEF TickerStep, Sleep, Store, Look, Swap, Tick, TickTo, endvars, resvars, actvars
    <2> QED
      BY <1>2, <2>1, <2>2, <2>3, <2>4, <2>5, <2>6 DEF Others
  <1>3. CASE UNCHANGED vars
    BY <1>3, SameHolds DEF vars, endvars, resvars, actvars
  <1> QED
    BY <1>1, <1>2, <1>3 DEF Next

LEMMA AlwaysHolds == Spec => [](Safe /\ Waits)
  <1>1. Init => Waits
    BY DEF Init, Waits
  <1> QED
    BY <1>1, AlwaysSafe, StepHolds, PTL DEF Spec

(* A held stop or move goes in the step that frees its copy: not earlier,   *)
(* not later, whichever way the last job on the copy ends.                  *)
THEOREM HeldInTime == Spec => HeldUntilFree
  <1>1. Safe /\ Waits /\ [Next]_vars => [\A h \in held : h \in held' <=> leases'[h[1]] # {}]_vars
    BY StepHolds DEF HeldStep
  <1> QED
    BY <1>1, AlwaysHolds, PTL DEF Spec, HeldUntilFree

(* What waits for a copy is never overtaken by another job's lease on it.   *)
THEOREM HeldNext == Spec => HeldGoesFirst
  <1>1. Safe /\ Waits /\ [Next]_vars => [\A h \in held : leases'[h[1]] \subseteq leases[h[1]]]_vars
    BY StepHolds DEF HeldStep
  <1> QED
    BY <1>1, AlwaysHolds, PTL DEF Spec, HeldGoesFirst
===============================================================================
