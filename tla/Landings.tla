------------------------------ MODULE Landings ------------------------------
(***************************************************************************)
(* What a repo's lands promise the coordinator, whichever way they land:   *)
(* alone or several at a time.  A land asked for comes back refused, held  *)
(* or done; Base only gains a worker's work when the land check passes it  *)
(* with what Base already has, and never loses it; work that is in Base is *)
(* never answered as refused.  Batch implements this.                      *)
(***************************************************************************)
CONSTANTS Workers, \* the workers whose branches land in the repo
          Foreign, \* commits others put on Base
          Breaks   \* the sets of changes that together fail the land check

VARIABLES
  who, \* each worker's land: "out", "in" (being landed), "held" or "done"
  base \* the changes in Base

vars == <<who, base>>

Fails(c) == \E b \in Breaks : b \subseteq c

Init == who = [w \in Workers |-> "out"] /\ base = {}

Ask(w) ==
  /\ who[w] \in {"out", "held"}
  /\ who' = [who EXCEPT ![w] = "in"]
  /\ UNCHANGED base

\* Answered as refused: nothing of it landed.
Back(w) ==
  /\ who[w] = "in" /\ w \notin base
  /\ who' = [who EXCEPT ![w] = "out"]
  /\ UNCHANGED base

\* Some lands under way are held: one of them, or all of them at a restart.
Hold(S) ==
  /\ \A w \in S : who[w] = "in"
  /\ who' = [w \in Workers |-> IF w \in S THEN "held" ELSE who[w]]
  /\ UNCHANGED base

\* Base takes the work of some lands under way, all of it checked with Base's.
Move(S) ==
  /\ \A w \in S : who[w] = "in" /\ w \notin base
  /\ ~Fails(base \cup S)
  /\ base' = base \cup S
  /\ UNCHANGED who

Done(w) ==
  /\ who[w] = "in" /\ w \in base
  /\ who' = [who EXCEPT ![w] = "done"]
  /\ UNCHANGED base

\* A lone land that passes moves Base and is done at once.
MoveDone(w) ==
  /\ who[w] = "in" /\ w \notin base
  /\ ~Fails(base \cup {w})
  /\ base' = base \cup {w}
  /\ who' = [who EXCEPT ![w] = "done"]

\* Others put commits on Base, and take their own back.
Commits(F) == base' = (base \cap Workers) \cup F /\ UNCHANGED who

Next ==
  \/ \E w \in Workers : Ask(w) \/ Back(w) \/ Done(w) \/ MoveDone(w)
  \/ \E S \in SUBSET Workers : Hold(S) \/ Move(S)
  \/ \E F \in SUBSET Foreign : Commits(F)

Spec == Init /\ [][Next]_vars

=============================================================================
