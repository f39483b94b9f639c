------------------------------ MODULE MCNames -------------------------------
(* Instance of Names for TLC: an ordinary name and one of a builtin, and a  *)
(* chain of a global scope and three scopes, loop bodies or calls.          *)
EXTENDS Names, TLC

MCIdentifiers == {"x", "len"}

MCBuiltins == {"len"}

Symmetry == Permutations(Values)
=============================================================================
