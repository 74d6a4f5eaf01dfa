-------------------------------- MODULE LandLog --------------------------------
(***************************************************************************)
(* The land log (hive/land/log.rs): lines that are only ever appended, and *)
(* what folding them says of one repository: which lands are undone,       *)
(* whether its target is suspect, and which lines are suspect with it.     *)
(*                                                                         *)
(* A line has an id, its kind, the line it undoes, where on the target it  *)
(* left or checked it (at), its check, and whether the tree that landed is *)
(* the one that was tested (same).                                         *)
(***************************************************************************)
EXTENDS Naturals, Sequences

moved_target(e) == e.kind \in {"land", "undo"}

\* Its target, once it landed, is a tree its land check passed.
proves_target_unchecked(e) == moved_target(e) /\ e.same   \* slip: a land nothing checked proves it
proves_target(e) == moved_target(e) /\ e.check = "passed" /\ e.same

\* A line after which nothing before it is in doubt.
passed(e) == proves_target(e) \/ (e.kind = "base_check" /\ e.check = "passed")

has(lines, id) == \E i \in DOMAIN lines : lines[i].id = id

\* `since`: the lines since the target last passed its check; `suspect`: those
\* of them before a check of the target alone failed; `failed`: that check.
Trusted == [since |-> {}, suspect |-> {}, failed |-> FALSE]
judged(r, e) ==
  CASE passed(e) -> Trusted
    [] ~passed(e) /\ moved_target(e) -> [r EXCEPT !.since = @ \cup {e.id}]
    [] e.kind = "base_check" /\ e.check = "failed" ->
         [r EXCEPT !.suspect = @ \cup r.since, !.failed = TRUE]
    [] OTHER -> r
fold(lines) ==
  LET after[n \in 0..Len(lines)] == IF n = 0 THEN Trusted ELSE judged(after[n - 1], lines[n])
  IN  after[Len(lines)]

\* The undo lines that name line id; the fold keeps the first.
undone_by(lines, id) ==
  {lines[i].id : i \in {i \in DOMAIN lines : lines[i].kind = "undo" /\ lines[i].undoes = id}}
================================================================================
