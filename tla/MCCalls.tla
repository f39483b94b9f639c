------------------------------ MODULE MCCalls -------------------------------
(* Instance of Calls for TLC: a limit that lets a call finish before the    *)
(* caller runs out, and a depth that loops and calls reach together.        *)
EXTENDS Calls
=============================================================================
