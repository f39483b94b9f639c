------------------------------ MODULE MCLedger ------------------------------
(* Instance of Ledger for TLC: three receivers, one of them no address at   *)
(* all, and words of three bits, small enough for every sum to be tried.    *)
EXTENDS Ledger
=============================================================================
