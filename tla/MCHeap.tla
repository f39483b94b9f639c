------------------------------- MODULE MCHeap -------------------------------
(* Instance of Heap for TLC.  A page holds at most two or three objects and *)
(* one size is as large as a page, so that holes, full pages, the refusal   *)
(* of too large requests and the page limit are all reached.                *)
EXTENDS Heap

MCSizes == {1, 2, 3, 5}
=============================================================================
