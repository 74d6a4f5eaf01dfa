-------------------------------- MODULE JobLife ---------------------------------
(***************************************************************************)
(* What the run queue promises of one job, whatever reaches it and in what *)
(* order: it is queued once, offered a start, runs, ends one way and for    *)
(* good, and is finished once after that.  RunJob implements it.            *)
(***************************************************************************)
VARIABLES
    state,      \* new, queued, waiting_window, running, or how it ended
    finished    \* its finish ran to its end

Active == {"queued", "waiting_window", "running"}
Ended  == {"done", "interrupted", "invalid"}

Moves ==
    {<<"new", "queued">>, <<"queued", "waiting_window">>, <<"waiting_window", "running">>,
     <<"queued", "interrupted">>, <<"waiting_window", "interrupted">>, <<"running", "interrupted">>,
     <<"waiting_window", "invalid">>, <<"running", "done">>}

Init == state = "new" /\ finished = FALSE

Move == <<state, state'>> \in Moves /\ ~finished /\ ~finished'

Finish == state \in Ended /\ ~finished /\ finished' /\ UNCHANGED state

Next == Move \/ Finish

Spec == Init /\ [][Next]_<<state, finished>>
===============================================================================
