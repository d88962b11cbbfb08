--------------------------- MODULE MCChpaController ---------------------------
(* Small instances of the control loop: the specs a user chooses from.  Window *)
(* lengths and bounds are scaled down; a tick stands for one syncPeriod.       *)
EXTENDS ChpaProperties, TLC

\* Every optional field set; downscaling waits longer than upscaling.
Wide == [valid |-> TRUE, min |-> 1, max |-> 4, down |-> 2, up |-> 1,
         factor2 |-> 3, floor |-> 2, tolerance |-> 10]

\* Downscaling waits much longer, and one step may go far up.
Patient == [Wide EXCEPT !.down = 5, !.floor = 4]

\* Nothing optional set: completed by setCHPADefaults.
Unset == [valid |-> TRUE, min |-> 0, max |-> 3, down |-> 0, up |-> 0,
          factor2 |-> 0, floor |-> 0, tolerance |-> 0]

Broken == [Wide EXCEPT !.valid = FALSE]

\* No validation relates the two bounds to each other.
Crossed == [Wide EXCEPT !.min = 3, !.max = 2, !.up = 5]

SpecsPatient == {Patient}
SpecsCrossed == {Crossed}
SpecsEdited == {Wide, Unset}
SpecsReplaced == {Wide, Broken}

\* The negative one is what the conversion of a ratio too large for an int32, or
\* of one over a target of 0, may come to.
ProposalsOverflowing == {-1, 3}

\* The processes of a rollout run the same program.
Swap == Permutations(Controllers)

===============================================================================
