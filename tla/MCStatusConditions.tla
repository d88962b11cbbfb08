-------------------------- MODULE MCStatusConditions --------------------------
(* A small instance of the conditions: downscaling waits longer than upscaling, *)
(* and one pod may not become three at once.                                    *)
EXTENDS StatusConditions

Steady == [valid |-> TRUE, min |-> 0, max |-> 3, down |-> 2, up |-> 1,
           factor2 |-> 4, floor |-> 1, tolerance |-> 10]

===============================================================================
