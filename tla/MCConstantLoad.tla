---------------------------- MODULE MCConstantLoad ----------------------------
(* Small instances of the closed loop. *)
EXTENDS ConstantLoad

\* Any of the optional fields left out, slow and quick growth, none
\* from a single pod.
Unset == [valid |-> TRUE, min |-> 0, max |-> 12, down |-> 0, up |-> 0,
          factor2 |-> 0, floor |-> 0, tolerance |-> 0]
Slow == [Unset EXCEPT !.min = 2, !.factor2 = 3, !.floor = 1]
Quick == [Unset EXCEPT !.max = 9, !.factor2 = 20, !.floor = 20]
Timid == [Unset EXCEPT !.factor2 = 3, !.floor = 1]

SpecsGrowing == {Unset, Slow, Quick, Timid}

AllLoads == 0..450
AllSizes == 1..14

===============================================================================
