----------------------------- MODULE MCStorage ------------------------------
(* Instance of Storage for TLC: two keys, so that an operation on one could *)
(* disturb the other, and integers of two bits, so that results wrap.       *)
EXTENDS Storage

MCTokens == {0}

(* One double that is a float, and one that is rounded to it. *)
MCDoubles == {0, 1}
=============================================================================
