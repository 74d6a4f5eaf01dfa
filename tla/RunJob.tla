--------------------------------- MODULE RunJob ---------------------------------
(***************************************************************************)
(* One job of the Hive's run queue from its start to its finish             *)
(* (src-tauri/src/hive/queue.rs): start_job, the window that makes its tab, *)
(* the tab's shell, the PTY reader and finish run at once, and each reaches *)
(* the job under the queue's mutex, one step here.  What the job needs and  *)
(* when it is offered a start is RunQueue's.                                *)
(***************************************************************************)
EXTENDS Naturals, FiniteSets

CONSTANT None

ASSUME NoneAssumption ==
    None \notin {0, 1, "prepare", "row", "ask", "over", "making", "armed", "begun", "runs", "ended",
                "prompt", "closed", "exited", "passed", "clean", "log", "stop"}

VARIABLES
    state,      \* Job::state, "new" before it is queued
    began,      \* its B was seen
    armed,      \* it has a tab and a PTY (pty_id)
    mapped,     \* by_pty maps its PTY to it
    code,       \* exit_code
    start,      \* where start_job stands
    shell,      \* its tab, then its tab's shell
    mark,       \* the marks its shell left in the run's folder
    reads,      \* the Ds heard whose marks are still to be read
    row, ports, \* it has a row on the stack, it has booked ports
    fin,        \* where finish stands
    stop,       \* finish has to ^C it
    logged      \* its lines in the run log

endvars == <<state, mapped, fin, stop>>
finvars == <<row, ports, logged>>
tabvars == <<armed, start, shell, mark, reads>>
vars    == <<endvars, finvars, tabvars, began, code>>

is_active == state \in {"queued", "waiting_window", "running"}
holds     == state \in {"waiting_window", "running"}
ended     == state \in {"done", "interrupted", "invalid"}

Init ==
    /\ state = "new" /\ began = FALSE /\ armed = FALSE /\ mapped = FALSE /\ code = None
    /\ start = None /\ shell = None /\ mark = None /\ reads = {}
    /\ row = FALSE /\ ports = FALSE /\ fin = None /\ stop = FALSE /\ logged = 0

(* What end leaves of a job: its finish is spawned, and the PTY of one that *)
(* has to be stopped stays mapped for its D.                                *)
end(to, stopped) ==
    /\ state' = to /\ fin' = "clean" /\ stop' = stopped
    /\ mapped' = (mapped /\ stopped)

(* The queue: the job is queued, and later offered a start.                 *)
Enqueue ==
    /\ state = "new" /\ state' = "queued"
    /\ UNCHANGED <<mapped, fin, stop, finvars, tabvars, began, code>>

Offer ==
    /\ state = "queued" /\ state' = "waiting_window" /\ start' = "prepare"
    /\ UNCHANGED <<mapped, fin, stop, finvars, armed, shell, mark, reads, began, code>>

(* A stop: by a human, its worker, a release, a suspend, an overridden      *)
(* lease, an exposed port, an idle app or its timeout.                      *)
stops_held == holds              \* slip: with no tab too
stops      == holds /\ armed

interrupt ==
    /\ is_active /\ end("interrupted", stops)
    /\ UNCHANGED <<finvars, tabvars, began, code>>

(* A start that failed: never once the job began or was ended by another.   *)
fail_start == IF holds /\ ~began THEN end("invalid", armed) ELSE UNCHANGED endvars

-------------------------------------------------------------------------------
(* start_job, off the lock: prepare books the job's ports, its row goes on  *)
(* the stack, its window is asked.                                          *)
Prepare ==
    /\ start = "prepare"
    /\ \/ start' = "row" /\ ports' = TRUE /\ UNCHANGED endvars
       \/ start' = "over" /\ fail_start /\ UNCHANGED ports
    /\ UNCHANGED <<row, logged, armed, shell, mark, reads, began, code>>

SetRow ==
    /\ start = "row"
    /\ \/ start' = "ask" /\ row' = TRUE /\ shell' = "making" /\ UNCHANGED endvars
       \/ start' = "over" /\ fail_start /\ UNCHANGED <<row, shell>>     \* no workspace
    /\ UNCHANGED <<ports, logged, armed, mark, reads, began, code>>

(* The window answered that it saw the job's B (this covers a reader that   *)
(* lost the race)...                                                        *)
confirms_armed == armed          \* slip: whatever became of the job meanwhile
confirms       == state = "waiting_window" /\ armed
Confirm ==
    /\ start = "ask" /\ shell \in {"begun", "runs", "ended", "prompt", "closed"}
    /\ start' = "over"
    /\ IF confirms THEN began' = TRUE /\ state' = "running" ELSE UNCHANGED <<began, state>>
    /\ UNCHANGED <<mapped, fin, stop, finvars, armed, shell, mark, reads, code>>

(* ... or it refused, never saw the line run, or did not answer in time.    *)
GiveUp ==
    /\ start = "ask" /\ start' = "over" /\ fail_start
    /\ UNCHANGED <<finvars, armed, shell, mark, reads, began, code>>

-------------------------------------------------------------------------------
(* The window (startJob): a tab whose shell is at its prompt, arm, the      *)
(* line.  A refused start closes its tab.                                   *)
arm ==
    /\ shell = "making"
    /\ IF state = "waiting_window" /\ ~armed
         THEN armed' = TRUE /\ mapped' = TRUE /\ shell' = "armed"
         ELSE shell' = "closed" /\ UNCHANGED <<armed, mapped>>
    /\ UNCHANGED <<state, fin, stop, finvars, start, mark, reads, began, code>>

Type ==
    /\ shell = "armed" /\ shell' = "begun"
    /\ UNCHANGED <<endvars, finvars, armed, start, mark, reads, began, code>>

(* The shell's B and D reach the PTY reader later than they happen, in      *)
(* order.                                                                   *)
osc_B ==
    /\ shell = "begun" /\ shell' = "runs"
    /\ IF mapped /\ state = "waiting_window" /\ ~began
         THEN began' = TRUE /\ state' = "running" ELSE UNCHANGED <<began, state>>
    /\ UNCHANGED <<mapped, fin, stop, finvars, armed, start, mark, reads, code>>

(* The line ends and leaves its marks: exited, with a pass mark or without. *)
LineEnds ==
    /\ shell = "runs" /\ shell' = "ended" /\ mark' \in {"exited", "passed"}
    /\ UNCHANGED <<endvars, finvars, armed, start, reads, began, code>>

(* A D: the shell's own (its exit may fail after a pass), or one the job    *)
(* prints while it runs.                                                    *)
Own(c)    == shell = "ended" /\ shell' = "prompt" /\ (c = 0 => mark = "passed")
Forged(c) == shell = "runs" /\ UNCHANGED shell

osc_D ==
    /\ \E c \in {0, 1} :
        /\ Own(c) \/ Forged(c)
        /\ reads' = IF mapped /\ began THEN reads \cup {c} ELSE reads
    /\ UNCHANGED <<endvars, finvars, armed, start, mark, began, code>>

(* complete: the marks are read off the reader's thread.  No exit mark: the *)
(* job printed the D.  D;0 with no pass mark is the job's too.              *)
exit_of_D(c)    == c             \* slip: the D is believed
exit_of_both(c) == IF mark = None \/ (c = 0) # (mark = "passed") THEN None ELSE c
                                 \* slip: D and marks must agree
exit_of(c) ==
    CASE mark = None              -> None
      [] mark = "exited" /\ c = 0 -> None
      [] mark = "exited" /\ c # 0 -> c
      [] mark = "passed"          -> 0

hears_no_more == state = "interrupted"

Complete ==
    /\ \E c \in reads :
        /\ reads' = reads \ {c}
        /\ IF state = "running" /\ exit_of(c) # None
             THEN end("done", FALSE) /\ code' = exit_of(c)
             ELSE /\ code' = IF state = "interrupted" /\ code = None THEN c ELSE code
                  /\ mapped' = (mapped /\ ~hears_no_more)
                  /\ UNCHANGED <<state, fin, stop>>
    /\ UNCHANGED <<finvars, armed, start, shell, mark, began>>

(* The PTY closed: a job that holds ends here, one already ended lets go.   *)
ends_mapped == mapped            \* slip: what was stopped ends again
ends_closed == mapped /\ holds

pty_closed ==
    /\ armed /\ shell # "closed" /\ shell' = "closed"
    /\ IF ends_closed THEN end(IF began THEN "interrupted" ELSE "invalid", FALSE)
                      ELSE mapped' = FALSE /\ UNCHANGED <<state, fin, stop>>
    /\ UNCHANGED <<finvars, armed, start, mark, reads, began, code>>

-------------------------------------------------------------------------------
(* finish: the row and ports go, the run log gets its line, a job still in  *)
(* its tab is ^C'd, and the queue looks for the next start.                 *)
FinClean ==
    /\ fin = "clean" /\ fin' = "log" /\ row' = FALSE /\ ports' = FALSE
    /\ UNCHANGED <<state, mapped, stop, logged, tabvars, began, code>>

FinLog ==
    /\ fin = "log" /\ fin' = (IF stop THEN "stop" ELSE "over") /\ logged' = logged + 1
    /\ UNCHANGED <<state, mapped, stop, row, ports, tabvars, began, code>>

(* stopJob: a ^C to what runs in the tab cuts the line before its marks; it *)
(* may not land.                                                            *)
FinStop ==
    /\ fin = "stop" /\ fin' = "over"
    /\ UNCHANGED shell \/ (shell \in {"begun", "runs"} /\ shell' = "ended")
    /\ UNCHANGED <<state, mapped, stop, finvars, armed, start, mark, reads, began, code>>

-------------------------------------------------------------------------------
StartStep  == Prepare \/ SetRow \/ Confirm \/ GiveUp
ShellStep  == arm \/ Type \/ osc_B \/ LineEnds \/ osc_D \/ pty_closed
FinishStep == FinClean \/ FinLog \/ FinStop

Next == Enqueue \/ Offer \/ interrupt \/ StartStep \/ ShellStep \/ Complete \/ FinishStep

(* Spawned tasks run, every rpc is answered or times out, and the PTY       *)
(* reader reads what an ended line leaves.  No line need end.               *)
Fairness ==
    /\ WF_vars(StartStep) /\ WF_vars(FinishStep) /\ WF_vars(Complete)
    /\ WF_vars(shell = "ended" /\ osc_D)

Spec == Init /\ [][Next]_vars
FairSpec == Spec /\ Fairness

-------------------------------------------------------------------------------
(* Properties                                                               *)

Flags ==
    /\ began \in BOOLEAN /\ armed \in BOOLEAN /\ mapped \in BOOLEAN
    /\ row \in BOOLEAN /\ ports \in BOOLEAN /\ stop \in BOOLEAN

\* Types; only an armed job begins, has its PTY mapped or is ^C'd.
TypeOK ==
    /\ state \in {"new", "queued", "waiting_window", "running", "done", "interrupted", "invalid"}
    /\ Flags
    /\ code \in {None, 0, 1} /\ reads \subseteq {0, 1} /\ logged \in Nat
    /\ start \in {None, "prepare", "row", "ask", "over"}
    /\ shell \in {None, "making", "armed", "begun", "runs", "ended", "prompt", "closed"}
    /\ mark \in {None, "exited", "passed"}
    /\ fin \in {None, "clean", "log", "stop", "over"}
    /\ began \/ mapped \/ stop => armed

\* Of the exit, the closed PTY, the failed start, the stops and the timeout that
\* may all reach a job, one ends it: finish runs once, its line is logged once.
EndsOnce ==
    /\ ended <=> fin # None
    /\ logged = IF fin \in {"stop", "over"} THEN 1 ELSE 0

\* "a pass is exit 0 whatever the D said" (queue.rs:581), and a D the job printed
\* never is: a job done with 0 is one whose shell left the pass mark.
PassIsReal == state = "done" => (code = 0 <=> mark = "passed")

\* A job that holds its resources still hears its PTY, whatever Ds it printed:
\* else only its timeout would end it.
Heard == holds /\ armed => mapped

\* A line that ended on its own while its job runs ends it: no order of Ds,
\* marks and confirmations leaves it to its timeout.
ExitCounts == (state = "running" /\ mark # None) ~> ended

\* The job's life, step by step.
Life == INSTANCE JobLife WITH finished <- fin = "over"
LifeSpec == Life!Spec

\* "A job left the active set: its row and ports go" (queue.rs:1778).  Not so:
\* a job stopped while start_job prepares it keeps them, for finish was through
\* with it before they were taken.
RowsGone == fin = "over" /\ start \in {None, "over"} => ~row /\ ~ports
===============================================================================
