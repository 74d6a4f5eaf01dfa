-------------------------------- MODULE RunQueue --------------------------------
(***************************************************************************)
(* The Hive's run queue over all its jobs (src-tauri/src/hive/queue.rs):    *)
(* what they need and lease, when they are offered a start, what waits for  *)
(* their leases, and the ticker.  What the mutex of QUEUE guards is one     *)
(* step (schedule's loop: one step per job, with the queue held).  How one  *)
(* job starts, is heard, ends and finishes is RunJob's: here a started job  *)
(* runs, some end comes to it, and its finish kicks.                        *)
(*                                                                         *)
(* schedule offers the queued jobs a start in any order (priorities are     *)
(* left out); a pool's lower capacity under critical memory pressure shows  *)
(* nothing, since nothing starts then.                                      *)
(***************************************************************************)
EXTENDS Naturals, FiniteSets

CONSTANTS
    Jobs,       \* the jobs callers may queue
    Hive,       \* the Hive (its workspace) of each job
    Keys,       \* resource keys: machine-wide pools, a Hive's own resources
    Pools,      \* the keys that are pools
    Cap,        \* the capacity of each pool
    Needs,      \* the resource keys of each job
    Share,      \* what a job's Hive may hold of each key
    Copies,     \* copies of services that jobs lease
    Leases,     \* the copies each job leases
    Acts,       \* stops and moves of a copy that may wait for it
    Tickers     \* bound: ticker tasks there may be at once

ASSUME RunQueueAssumption ==
    /\ IsFiniteSet(Jobs) /\ Pools \subseteq Keys
    /\ Cap \in [Pools -> Nat] /\ Share \in [Jobs -> [Keys -> Nat]]
    /\ Needs \in [Jobs -> SUBSET Keys] /\ Leases \in [Jobs -> SUBSET Copies]
    /\ "override" \notin Acts

VARIABLES
    state,      \* per job: "new" before it is queued; once it ended, in whatever
                \* way, "ending" until its finish has kicked, then "over"
    holders,    \* per resource key: the jobs that hold it
    leases,     \* per copy: the jobs that lease it
    held,       \* stops and moves that wait for their copy, <<copy, act>>
    handoff,    \* copies that take no lease: their window acts on them
    acting,     \* what windows carry out: <<copy, act, how far it is>>
    parked,     \* Hives that are suspended
    todo,       \* the jobs schedule has still to offer a start
    kicked,     \* a schedule was asked for
    caller,     \* jobs whose enqueue has still to kick
    TICKING,    \* the flag of ensure_ticker
    ticker      \* per ticker task: where it stands

resvars  == <<holders, leases>>
actvars  == <<held, handoff, acting>>
endvars  == <<state, resvars, actvars>>
kickvars == <<kicked, TICKING, ticker>>
vars     == <<endvars, kickvars, parked, todo, caller>>

is_active(j) == state[j] \in {"queued", "waiting_window", "running"}
holds(j)     == state[j] \in {"waiting_window", "running"}
active       == \E j \in Jobs : is_active(j)

Init ==
    /\ state = [j \in Jobs |-> "new"]
    /\ holders = [k \in Keys |-> {}] /\ leases = [c \in Copies |-> {}]
    /\ held = {} /\ handoff = {} /\ acting = {} /\ parked = {} /\ todo = {} /\ kicked = FALSE
    /\ caller = {} /\ TICKING = FALSE /\ ticker = [t \in Tickers |-> "off"]

-------------------------------------------------------------------------------
(* What end does for the jobs of S: resources and leases go back, held      *)
(* actions whose copy no job leases any more go to their window (with       *)
(* those of now), and a finish is spawned for each job.                     *)
KeepAll(f, S)   == f             \* slip: nothing goes back
give_back(f, S) == [x \in DOMAIN f |-> f[x] \ S]

FreedAny(S) == {c \in Copies : leases[c] \cap S # {}}   \* slip: another may lease it still
Freed(S)    == {c \in Copies : leases[c] # {} /\ leases[c] \subseteq S}

end(S, now) ==
    LET freed == {h \in held : h[1] \in Freed(S)}
        sent  == freed \cup now
    IN  /\ state' = [j \in Jobs |-> IF j \in S THEN "ending" ELSE state[j]]
        /\ holders' = give_back(holders, S)
        /\ leases' = give_back(leases, S)
        /\ held' = held \ freed
        /\ acting' = acting \cup {<<h[1], h[2], IF h \in now THEN "over" ELSE "sent">> : h \in sent}
        /\ handoff' = handoff \cup {h[1] : h \in sent}

(* kick: ensure_ticker, then a schedule on a task of its own.               *)
kick ==
    /\ kicked' = TRUE
    /\ IF TICKING THEN UNCHANGED <<TICKING, ticker>>
       ELSE /\ TICKING' = TRUE
            /\ \E t \in Tickers : ticker[t] = "off" /\ ticker' = [ticker EXCEPT ![t] = "sleep"]

-------------------------------------------------------------------------------
(* enqueue, then its kick.                                                  *)
Enqueue(j) ==
    /\ state[j] = "new" /\ Hive[j] \notin parked
    /\ state' = [state EXCEPT ![j] = "queued"] /\ caller' = caller \cup {j}
    /\ UNCHANGED <<resvars, actvars, kickvars, parked, todo>>

EnqueueKick(j) ==
    /\ j \in caller /\ caller' = caller \ {j} /\ kick
    /\ UNCHANGED <<endvars, parked, todo>>

(* schedule_and_start: a fresh reading of memory pressure, then schedule.   *)
(* Under pressure nothing starts, else each queued job is offered a start.  *)
offered_active == {j \in Jobs : is_active(j)}        \* slip: what started is started again
offered        == {j \in Jobs : state[j] = "queued"}

Schedule(open) ==
    /\ kicked /\ kicked' = FALSE
    /\ todo' = IF open THEN offered ELSE {}
    /\ UNCHANGED <<endvars, TICKING, ticker, parked, caller>>

Mine(j, k) == {o \in holders[k] : Hive[o] = Hive[j]}

has_room_share(j) ==             \* slip: the machine's capacity is not asked for
    \A k \in Needs[j] : Cardinality(Mine(j, k)) < Share[j][k]
has_room(j) ==
    \A k \in Needs[j] :
        /\ k \in Pools => Cardinality(holders[k]) < Cap[k]
        /\ Cardinality(Mine(j, k)) < Share[j][k]

lease_blocked_handoff(c) == c \in handoff    \* slip: what waits does not block
lease_blocked(c)         == c \in handoff \/ \E h \in held : h[1] = c

Offer(j) ==
    /\ j \in todo /\ todo' = todo \ {j}
    /\ IF Hive[j] \in parked \/ ~has_room(j) \/ \E c \in Leases[j] : lease_blocked(c)
         THEN UNCHANGED <<state, resvars>>
         ELSE /\ state' = [state EXCEPT ![j] = "waiting_window"]
              /\ holders' = [k \in Keys |-> IF k \in Needs[j] THEN holders[k] \cup {j} ELSE holders[k]]
              /\ leases' = [c \in Copies |-> IF c \in Leases[j] THEN leases[c] \cup {j} ELSE leases[c]]
    /\ UNCHANGED <<actvars, kickvars, parked, caller>>

-------------------------------------------------------------------------------
(* What becomes of a started job (RunJob): its B is heard; its exit, its    *)
(* failed start or its closed PTY ends it; its finish gets to its kick.     *)
Begin(j) ==
    /\ state[j] = "waiting_window" /\ state' = [state EXCEPT ![j] = "running"]
    /\ UNCHANGED <<resvars, actvars, kickvars, parked, todo, caller>>

FailStart(j) ==
    /\ state[j] = "waiting_window" /\ end({j}, {})
    /\ UNCHANGED <<kickvars, parked, todo, caller>>

Exit(j) ==
    /\ state[j] = "running" /\ end({j}, {})
    /\ UNCHANGED <<kickvars, parked, todo, caller>>

Finish(j) ==
    /\ state[j] = "ending" /\ state' = [state EXCEPT ![j] = "over"] /\ kick
    /\ UNCHANGED <<resvars, actvars, parked, todo, caller>>

-------------------------------------------------------------------------------
(* Stops: by a human, its worker, a release, an exposed port, an idle app.  *)
Interrupt(j) ==
    /\ is_active(j) /\ end({j}, {})
    /\ UNCHANGED <<kickvars, parked, todo, caller>>

(* park_workspace: parked first, then its jobs are released.  Until a job's *)
(* release is reached it can only end, as it can one step before.           *)
Suspend(h) ==
    /\ h \notin parked /\ parked' = parked \cup {h}
    /\ end({j \in Jobs : Hive[j] = h /\ is_active(j)}, {})
    /\ UNCHANGED <<kickvars, todo, caller>>

Resume(h) ==
    /\ h \in parked /\ parked' = parked \ {h}
    /\ UNCHANGED <<endvars, kickvars, todo, caller>>

-------------------------------------------------------------------------------
(* Leases: a stop or move of a leased copy waits (hold), or the human stops *)
(* the jobs that lease it (override_lease).  Its window then carries it out *)
(* (act), unless it finds the copy leased again: what waited waits again.   *)
(* Last it hands the copy back (lease_done), or LEASE_HANDOFF_MS pass.      *)
leasesame == <<state, resvars, parked, todo, caller>>

hold(c, a) ==
    /\ leases[c] # {} /\ held' = held \cup {<<c, a>>}
    /\ UNCHANGED <<handoff, acting, leasesame, kickvars>>

override_lease(c) ==
    /\ end(leases[c], {<<c, "override">>})
    /\ UNCHANGED <<kickvars, parked, todo, caller>>

Goes(x, to) == x \in acting /\ acting' = (acting \ {x}) \cup {<<x[1], x[2], to>>}

act(x) ==
    /\ x[3] = "sent"
    /\ Goes(x, IF leases[x[1]] # {} THEN "again" ELSE "over")
    /\ UNCHANGED <<held, handoff, leasesame, kickvars>>

hold_again(x) ==
    /\ x[3] = "again" /\ Goes(x, "over")
    /\ held' = IF leases[x[1]] # {} THEN held \cup {<<x[1], x[2]>>} ELSE held
    /\ UNCHANGED <<handoff, leasesame, kickvars>>

lease_done(x) ==
    /\ x[3] = "over" /\ x \in acting /\ acting' = acting \ {x}
    /\ handoff' = handoff \ {x[1]} /\ kick
    /\ UNCHANGED <<held, leasesame>>

HandoffExpires(c) ==
    /\ c \in handoff /\ handoff' = handoff \ {c}
    /\ UNCHANGED <<held, acting, leasesame, kickvars>>

-------------------------------------------------------------------------------
(* The ticker: while a job is active, timeouts and a schedule on each tick; *)
(* it ends itself once the queue is empty, after a second look.             *)
TickTo(t, from, to) ==
    /\ ticker[t] = from /\ ticker' = [ticker EXCEPT ![t] = to]
    /\ UNCHANGED <<endvars, parked, todo, caller>>

Sleep(t) == TickTo(t, "sleep", IF active THEN "tick" ELSE "store") /\ UNCHANGED <<kicked, TICKING>>

Store(t) == TickTo(t, "store", "look") /\ TICKING' = FALSE /\ UNCHANGED kicked

LookNot(t) == TickTo(t, "look", "off") /\ UNCHANGED <<kicked, TICKING>>  \* slip: no second look
Look(t)    == TickTo(t, "look", IF active THEN "swap" ELSE "off") /\ UNCHANGED <<kicked, TICKING>>

SwapAlways(t) ==                 \* slip: it goes on whoever ticks by now
    TickTo(t, "swap", "tick") /\ TICKING' = TRUE /\ UNCHANGED kicked
Swap(t) ==
    TickTo(t, "swap", IF TICKING THEN "off" ELSE "tick") /\ TICKING' = TRUE /\ UNCHANGED kicked

TimeOut(j) ==
    /\ \E t \in Tickers : ticker[t] = "tick"
    /\ state[j] = "running" /\ end({j}, {})
    /\ UNCHANGED <<kickvars, parked, todo, caller>>

Tick(t) == TickTo(t, "tick", "sleep") /\ kicked' = TRUE /\ UNCHANGED TICKING

-------------------------------------------------------------------------------
StartStep(j)  == Begin(j) \/ FailStart(j)
JobStep(j)    == Enqueue(j) \/ EnqueueKick(j) \/ StartStep(j) \/ Exit(j) \/ Finish(j)
Stops(j)      == Interrupt(j) \/ TimeOut(j) \/ Suspend(Hive[j]) \/ Resume(Hive[j])
CopyStep(c)   == (\E a \in Acts : hold(c, a)) \/ override_lease(c) \/ HandoffExpires(c)
ActStep(x)    == act(x) \/ hold_again(x) \/ lease_done(x)
TickerStep(t) == Sleep(t) \/ Store(t) \/ Look(t) \/ Swap(t) \/ Tick(t)

Others ==
    \/ \E j \in Jobs : JobStep(j) \/ Stops(j)
    \/ \E open \in BOOLEAN : Schedule(open)
    \/ \E c \in Copies : CopyStep(c)
    \/ \E x \in acting : ActStep(x)
    \/ \E t \in Tickers : TickerStep(t)

(* schedule keeps the mutex: nothing comes between the jobs it offers.      *)
Next == (\E j \in todo : Offer(j)) \/ (todo = {} /\ Others)

Spec == Init /\ [][Next]_vars

-------------------------------------------------------------------------------
(* Properties                                                               *)

\* Types; and only a queued job is offered a start.
TypeOK ==
    /\ state \in [Jobs -> {"new", "queued", "waiting_window", "running", "ending", "over"}]
    /\ holders \in [Keys -> SUBSET Jobs] /\ leases \in [Copies -> SUBSET Jobs]
    /\ held \subseteq Copies \X Acts /\ handoff \subseteq Copies
    /\ acting \subseteq (Copies \X Acts \X {"sent", "again", "over"})
                         \cup (Copies \X {"override"} \X {"over"})
    /\ todo \subseteq {j \in Jobs : state[j] = "queued"} /\ caller \subseteq Jobs
    /\ kicked \in BOOLEAN /\ TICKING \in BOOLEAN
    /\ ticker \in [Tickers -> {"off", "sleep", "tick", "store", "look", "swap"}]

\* "Every queued job whose needs all have room takes them and its leases"
\* (queue.rs:489), and each of the ways to end gives back all of them: what is
\* taken is what the started jobs need, no more and no less.
Possession ==
    /\ \A k \in Keys : holders[k] = {j \in Jobs : holds(j) /\ k \in Needs[j]}
    /\ \A c \in Copies : leases[c] = {j \in Jobs : holds(j) /\ c \in Leases[j]}

\* No pool is given out beyond the machine's capacity, whatever Hives share it
\* and however starts and ends interleave.
Capacity == \A k \in Pools : Cardinality(holders[k]) <= Cap[k]

\* A stop that waits for a copy waits while a job leases it, and goes to its
\* window in the very step in which the last of them ends.
HeldUntilFree == [][\A h \in held : h \in held' <=> leases'[h[1]] # {}]_vars

\* "Run when free goes before the next run, never starved" (queue.rs:483): while
\* something waits for a copy, the jobs that lease it only get fewer.
HeldGoesFirst == [][\A h \in held : leases'[h[1]] \subseteq leases[h[1]]]_vars

\* One task at a time ticks, though tickers come and go with the queue.
OneTicker == Cardinality({t \in Tickers : ticker[t] \in {"sleep", "tick"}}) <= 1

\* "A job queued between the check and the store found TICKING set" (queue.rs:1299):
\* while a job is active and its caller has kicked, some ticker is up, so its
\* timeout and the next start come.
Ticked == active /\ caller = {} => \E t \in Tickers : ticker[t] # "off"

\* Both: the queue is ticked, and by one task.
Ticking == OneTicker /\ Ticked
===============================================================================
