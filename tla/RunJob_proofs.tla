------------------------------ MODULE RunJob_proofs -----------------------------
(***************************************************************************)
(* A job of RunJob ends once, passes only by its shell's marks, and lives   *)
(* by JobLife.  None of the three is inductive alone: that an ended job has *)
(* a finish (EndsOnce) keeps late steps from moving its state; that a       *)
(* running job has begun keeps its closed PTY and a late refusal from       *)
(* calling it invalid; and a done job's marks stay, because its line has    *)
(* left "runs" for good.                                                    *)
(***************************************************************************)
EXTENDS RunJob, TLAPS

Inv ==
    /\ TypeOK /\ EndsOnce /\ PassIsReal /\ Heard
    /\ state = "running" => began
    /\ mark # None => shell \in {"ended", "prompt", "closed"}
    /\ state = "done" => mark # None
    /\ state \in {"new", "queued"} => start = None
    /\ start \in {None, "prepare", "row"} => shell = None
    /\ shell \in {None, "making"} => ~armed

(* The flags stay flags: apart, since no prover takes them with the rest.   *)
LEMMA FlagsInv ==
    ASSUME Flags, [Next]_vars
    PROVE  Flags'
  <1> USE DEF Flags, endvars, finvars, tabvars
  <1>1. CASE Enqueue \/ Offer \/ interrupt
    BY <1>1 DEF Enqueue, Offer, interrupt, end, stops, holds
  <1>2. CASE Prepare \/ SetRow \/ Confirm \/ GiveUp
    BY <1>2 DEF Prepare, SetRow, Confirm, GiveUp, fail_start, end
  <1>3. CASE arm \/ Type \/ osc_B \/ LineEnds \/ osc_D
    BY <1>3 DEF arm, Type, osc_B, LineEnds, osc_D
  <1>4. CASE pty_closed
    BY <1>4 DEF pty_closed, end
  <1>5. CASE Complete
    BY <1>5 DEF Complete, end
  <1>6. CASE FinClean \/ FinLog \/ FinStop
    BY <1>6 DEF FinClean, FinLog, FinStop
  <1>7. CASE UNCHANGED vars
    BY <1>7 DEF vars
  <1> QED
    BY <1>1, <1>2, <1>3, <1>4, <1>5, <1>6, <1>7 DEF Next, StartStep, ShellStep, FinishStep

LEMMA InitInv == Init => Inv
  <1>1. Init => Flags
    BY DEF Init, Flags
  <1> QED
  BY <1>1, NoneAssumption
  DEF Init, Inv, TypeOK, EndsOnce, PassIsReal, Heard, ended, holds

(* The queue's steps and start_job's.                                       *)
LEMMA StartInv ==
    ASSUME Inv, Flags', Enqueue \/ Offer \/ interrupt \/ StartStep
    PROVE  Inv'
  <1> USE NoneAssumption
      DEF Inv, TypeOK, EndsOnce, PassIsReal, Heard, ended, holds, endvars, finvars, tabvars
  <1>1. CASE Enqueue
    BY <1>1 DEF Enqueue
  <1>2. CASE Offer
    BY <1>2 DEF Offer
  <1>3. CASE interrupt
    BY <1>3 DEF interrupt, end, is_active, stops
  <1>4. CASE Prepare
    BY <1>4 DEF Prepare, fail_start, end
  <1>5. CASE SetRow
    BY <1>5 DEF SetRow, fail_start, end
  <1>6. CASE Confirm
    BY <1>6 DEF Confirm, confirms
  <1>7. CASE GiveUp
    <2>1. CASE holds /\ ~began
      BY <1>7, <2>1 DEF GiveUp, fail_start, end
    <2>2. CASE ~(holds /\ ~began)
      BY <1>7, <2>2 DEF GiveUp, fail_start
    <2> QED
      BY <2>1, <2>2
  <1> QED
    BY <1>1, <1>2, <1>3, <1>4, <1>5, <1>6, <1>7 DEF StartStep

(* The window's, the shell's and the PTY reader's, and finish's.            *)
LEMMA ShellInv ==
    ASSUME Inv, Flags', ShellStep \/ Complete \/ FinishStep
    PROVE  Inv'
  <1> USE NoneAssumption
      DEF Inv, TypeOK, EndsOnce, PassIsReal, Heard, ended, holds, endvars, finvars, tabvars
  <1>1. CASE arm
    BY <1>1 DEF arm
  <1>2. CASE Type
    BY <1>2 DEF Type
  <1>3. CASE osc_B
    BY <1>3 DEF osc_B
  <1>4. CASE LineEnds
    BY <1>4 DEF LineEnds
  <1>5. CASE osc_D
    BY <1>5 DEF osc_D, Own, Forged
  <1>6. CASE pty_closed
    BY <1>6 DEF pty_closed, ends_closed, end
  <1>7. CASE Complete
    <2>1. PICK c \in reads :
            /\ reads' = reads \ {c}
            /\ IF state = "running" /\ exit_of(c) # None
                 THEN end("done", FALSE) /\ code' = exit_of(c)
                 ELSE /\ code' = IF state = "interrupted" /\ code = None THEN c ELSE code
                      /\ mapped' = (mapped /\ ~hears_no_more)
                      /\ UNCHANGED <<state, fin, stop>>
      BY <1>7 DEF Complete
    <2>2. c \in {0, 1} /\ UNCHANGED <<finvars, armed, start, shell, mark, began>>
      BY <1>7 DEF Complete
    <2>3. CASE state = "running" /\ exit_of(c) # None
      <3>1. exit_of(c) \in {0, 1} /\ mark # None /\ (exit_of(c) = 0 <=> mark = "passed")
        BY <2>2, <2>3 DEF exit_of
      <3> QED
        BY <2>1, <2>2, <2>3, <3>1 DEF end
    <2>4. CASE ~(state = "running" /\ exit_of(c) # None)
      <3>1. /\ code' = IF state = "interrupted" /\ code = None THEN c ELSE code
            /\ mapped' = (mapped /\ ~hears_no_more)
            /\ UNCHANGED <<state, fin, stop>>
        BY <2>1, <2>4 DEF hears_no_more
      <3>2. TypeOK' /\ EndsOnce'
        BY <2>1, <2>2, <3>1
      <3>3. PassIsReal' /\ Heard'
        BY <2>2, <3>1 DEF hears_no_more
      <3> QED
        BY <2>2, <3>1, <3>2, <3>3
    <2> QED
      BY <2>3, <2>4
  <1>8. CASE FinClean
    BY <1>8 DEF FinClean
  <1>9. CASE FinLog
    BY <1>9 DEF FinLog
  <1>10. CASE FinStop
    BY <1>10 DEF FinStop
  <1> QED
    BY <1>1, <1>2, <1>3, <1>4, <1>5, <1>6, <1>7, <1>8, <1>9, <1>10 DEF ShellStep, FinishStep

LEMMA AlwaysInv == Spec => []Inv
  <1>1. Inv /\ [Next]_vars => Inv'
    <2> SUFFICES ASSUME Inv, [Next]_vars PROVE Inv'
      OBVIOUS
    <2>0. Flags'
      BY FlagsInv DEF Inv, TypeOK
    <2>1. CASE Next
      BY <2>0, <2>1, StartInv, ShellInv DEF Next
    <2>2. CASE UNCHANGED vars
      BY <2>0, <2>2
      DEF Inv, TypeOK, EndsOnce, PassIsReal, Heard, ended, holds, vars, endvars, finvars, tabvars
    <2> QED
      BY <2>1, <2>2
  <1> QED
    BY InitInv, <1>1, PTL DEF Spec

(* The types: among them, that a job's fin and mark never leave their       *)
(* values and that its code is one the code reports.                        *)
THEOREM JobTypes == Spec => []TypeOK
  BY AlwaysInv, PTL DEF Inv

(* Whatever ends reach it, a job is finished and logged once.               *)
THEOREM OneEnd == Spec => []EndsOnce
  BY AlwaysInv, PTL DEF Inv

(* No D the job prints makes it a pass: only its shell's pass mark does.    *)
THEOREM RealPass == Spec => []PassIsReal
  BY AlwaysInv, PTL DEF Inv

(* A job that holds its resources still hears its PTY.                      *)
THEOREM StillHeard == Spec => []Heard
  BY AlwaysInv, PTL DEF Inv

(* A job's steps are steps of its life, or none.                            *)
LEMMA LifeStep ==
    ASSUME Inv, [Next]_vars
    PROVE  [Life!Next]_<<state, fin = "over">>
  <1> USE NoneAssumption
      DEF Inv, TypeOK, EndsOnce, ended, holds, endvars, finvars, tabvars, Life!Next, Life!Move,
          Life!Moves, Life!Finish, Life!Ended
  <1>1. CASE Enqueue \/ Offer \/ interrupt
    BY <1>1 DEF Enqueue, Offer, interrupt, is_active, end
  <1>2. CASE StartStep
    <2>1. CASE Prepare
      BY <2>1 DEF Prepare, fail_start, end
    <2>2. CASE SetRow
      BY <2>2 DEF SetRow, fail_start, end
    <2>3. CASE Confirm
      BY <2>3 DEF Confirm, confirms
    <2>4. CASE GiveUp
      BY <2>4 DEF GiveUp, fail_start, end
    <2> QED
      BY <1>2, <2>1, <2>2, <2>3, <2>4 DEF StartStep
  <1>3. CASE arm \/ Type \/ LineEnds \/ osc_D
    BY <1>3 DEF arm, Type, LineEnds, osc_D
  <1>4. CASE osc_B
    BY <1>4 DEF osc_B
  <1>5. CASE pty_closed
    BY <1>5 DEF pty_closed, ends_closed, end
  <1>6. CASE Complete
    BY <1>6 DEF Complete, end
  <1>7. CASE FinishStep
    BY <1>7 DEF FinishStep, FinClean, FinLog, FinStop
  <1>8. CASE UNCHANGED vars
    BY <1>8 DEF vars
  <1> QED
    BY <1>1, <1>2, <1>3, <1>4, <1>5, <1>6, <1>7, <1>8 DEF Next, ShellStep

(* RunJob implements JobLife: one start, one end, for good, then a finish.  *)
THEOREM Lives == Spec => LifeSpec
  <1>1. Init => Life!Init
    BY NoneAssumption DEF Init, Life!Init
  <1> QED
    BY AlwaysInv, LifeStep, <1>1, PTL DEF Spec, LifeSpec, Life!Spec
===============================================================================
