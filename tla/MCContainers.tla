---------------------------- MODULE MCContainers ----------------------------
(* Instance of Containers for TLC: three keys, so that one can be inserted  *)
(* before, between and after those a loop has reached, and integers of one  *)
(* bit, so that updates wrap.                                               *)
EXTENDS Containers

MCKeys == 1 .. 3

MCTokens == {0}

MCLiterals == {Integer(-1), [type |-> "String", data |-> 0]}

MCIndices == -2 .. 1
=============================================================================
