---------------------------- MODULE AbstractHeap ----------------------------
(***************************************************************************)
(* What a MemoryManager promises the interpreter: Object::operator new     *)
(* hands out a block inside one of the heap's pages that no live object    *)
(* overlaps, or refuses; operator delete gives the block back.  Nothing is *)
(* said about which block is chosen, or about when a request is refused.   *)
(***************************************************************************)
EXTENDS Integers

CONSTANTS
  PageSize,     (* bytes in a page                                         *)
  MaxPages,     (* pages the heap may grow to                              *)
  Sizes         (* sizes of the objects that are allocated                 *)

VARIABLE live   (* size of every live block, by address <<page, offset>>   *)

Addresses == (0 .. MaxPages - 1) \X (0 .. PageSize - 1)

(* The block of s bytes at p shares no byte with a live block. *)
Free(p, s) ==
  \A q \in DOMAIN live :
    p[1] = q[1] => p[2] + s <= q[2] \/ q[2] + live[q] <= p[2]

Init == live = [p \in {} |-> 0]

Allocate(p, s) ==
  /\ p \notin DOMAIN live
  /\ p[2] + s <= PageSize
  /\ Free(p, s)
  /\ live' = [q \in DOMAIN live \cup {p} |-> IF q = p THEN s ELSE live[q]]

Release(p) ==
  /\ p \in DOMAIN live
  /\ live' = [q \in DOMAIN live \ {p} |-> live[q]]

Next ==
  \/ \E p \in Addresses, s \in Sizes : Allocate(p, s)
  \/ \E p \in Addresses : Release(p)

Spec == Init /\ [][Next]_live
=============================================================================
