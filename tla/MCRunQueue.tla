-------------------------------- MODULE MCRunQueue ------------------------------
(* Values for RunQueue's constants: j1 and j2 of one Hive compete for one    *)
(* slot of a pool, j2 and j3 may lease one copy at once.                     *)
EXTENDS RunQueue

CONSTANTS j1, j2, j3, build, db, t1, t2

MCHive   == [j \in Jobs |-> IF j = j3 THEN "other" ELSE "hive"]
MCCap    == [k \in Pools |-> 1]
MCNeeds  == [j \in Jobs |-> IF j = j3 THEN {} ELSE {build}]
MCShare  == [j \in Jobs |-> [k \in Keys |-> 2]]
MCLeases == [j \in Jobs |-> IF j = j1 THEN {} ELSE Copies]
===============================================================================
