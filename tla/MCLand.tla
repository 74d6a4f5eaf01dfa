--------------------------------- MODULE MCLand ---------------------------------
(* Values for Land's constants: which workers work where, and orders.        *)
EXTENDS Land

CONSTANTS w1, w2, A, B

OneRepo  == <<A>>
TwoRepos == <<A, B>>
OneInAB  == [w \in {w1} |-> {A, B}]
TwoInA   == [w \in {w1, w2} |-> {A}]

DefaultOrder == {<<>>}
BothOrders   == {<<>>, <<B>>}
ConfigChange == {<<w1, 1>>, <<Human, 1>>}
===============================================================================
