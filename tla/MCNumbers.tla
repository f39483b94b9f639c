------------------------------ MODULE MCNumbers ------------------------------
(* Instance of Numbers for TLC: two variables, integers of -3 .. 2 and of   *)
(* -6 .. 5 in place of 32 and 64 bits, and two loops over one range.        *)
EXTENDS Numbers

MCVariables == {"i", "x"}

MCLiterals == {1, 2}

(* The smallest integer of all, and the first beyond 32 bits. *)
MCInputs == {-Half64, Half32}
=============================================================================
