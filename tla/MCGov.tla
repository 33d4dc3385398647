------------------------------- MODULE MCGov -------------------------------
(* A small instance of Gov. *)
EXTENDS Gov, TLC

(* Three validators, and two after one has left. *)
Changing == {(1 :> 2) @@ (2 :> 2) @@ (3 :> 3), (1 :> 3) @@ (2 :> 2)}

Genesis == [f \in Field |-> 1]
Only(f, v) == [g \in Field |-> IF g = f THEN v ELSE 0]
Of(type, start, period, apply, options) ==
  [type |-> type, start |-> start, period |-> period, apply |-> apply, options |-> options]

(* Two options; ones that ask too much of the heights; one without options. *)
Proposals == {Of("govparams", 1, 1, 4, <<Only("f", 2), Only("g", 2)>>),
            Of("common", 1, 1, 3, <<Only("f", 2)>>),
            Of("govparams", 1, 0, 3, <<Only("f", 2)>>),
            Of("govparams", 0, 1, 3, <<Only("f", 2)>>),
            Of("govparams", 1, 1, 2, <<Only("f", 2)>>), Of("govparams", 1, 1, 3, <<>>)}
=============================================================================
