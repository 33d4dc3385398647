------------------------------ MODULE MCSupply ------------------------------
(* A small instance of Supply. *)
EXTENDS Supply

(* Two validators; a delegator to the first. *)
D(f, v) == [from |-> f, val |-> v]
ThreeBenefs == <<D("d", "v"), D("v", "v"), D("w", "w")>>
ThreePowers == <<0, 3, 2>>

(* A concave growth in place of the exponential: no issue without bonded   *)
(* power, less than everything with all power bonded.                      *)
Concave(power, supply) == (Unit * 9 * power) \div (9 * power + supply)
=============================================================================
