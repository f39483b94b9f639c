-------------------------------- MODULE Heap --------------------------------
(***************************************************************************)
(* DefaultMemoryManager: the heap every Value, Scope and Module of an      *)
(* interpreted program lives in.  Pages are obtained one at a time and     *)
(* never returned; m_allocs maps the address of each live object to its    *)
(* page and size, in address order.  malloc first looks for a hole in      *)
(* FRONT of a live object, page by page, and otherwise bumps m_buffer_pos. *)
(*                                                                         *)
(* An address is <<page, offset>>: pages are separate host allocations and *)
(* the code only ever compares addresses of one page.                      *)
(***************************************************************************)
EXTENDS Integers

CONSTANTS
  PAGE_SIZE,    (* DefaultMemoryManager::PAGE_SIZE                         *)
  MaxPages,     (* DEFAULT_MAXIMUM_HEAP_PAGES                              *)
  Sizes         (* the sizes operator new is called with                   *)

ASSUME PageSizeAssumption == PAGE_SIZE \in Nat \ {0}
ASSUME MaxPagesAssumption == MaxPages \in Nat \ {0}
ASSUME SizesAssumption    == Sizes \subseteq Nat \ {0}

VARIABLES
  allocs,       (* m_allocs: address |-> size                              *)
  buffers,      (* m_buffers.size()                                        *)
  buffer_pos,   (* m_buffer_pos, an offset into all pages laid end to end  *)
  outcome       (* how the latest call returned                            *)

vars == <<allocs, buffers, buffer_pos, outcome>>

Addresses == (0 .. MaxPages - 1) \X (0 .. PAGE_SIZE - 1)

Outcomes == {"ok", "too_large", "out_of_memory", "invalid_offset", "memory_error"}

-----------------------------------------------------------------------------
(* A definition named D_Flaw is not part of the model: it is D with one    *)
(* plausible programming error, for the mutation checks PROJECT.json lists.*)

(* The end of the live object before q in its page, last_pos of the loop;  *)
(* 0 when q is the first one.                                              *)
Before(q) == {p \in DOMAIN allocs : p[1] = q[1] /\ p[2] < q[2]}

LastPos_ForgetsSize(q) ==
  IF Before(q) = {} THEN 0
  ELSE LET p == CHOOSE p \in Before(q) : \A r \in Before(q) : r[2] <= p[2]
       IN  p[2] + 1

LastPos(q) ==
  IF Before(q) = {} THEN 0
  ELSE LET p == CHOOSE p \in Before(q) : \A r \in Before(q) : r[2] <= p[2]
       IN  p[2] + allocs[p]

(* The live objects with a hole of at least s bytes in front of them. *)
Holes_OffByOne(s) == {q \in DOMAIN allocs : q[2] - LastPos(q) >= s - 1}

Holes(s) == {q \in DOMAIN allocs : q[2] - LastPos(q) >= s}

(* The loop visits pages in order, and a page's objects by address. *)
Precedes(p, q) == p[1] < q[1] \/ (p[1] = q[1] /\ p[2] <= q[2])

FirstHole(s) == CHOOSE q \in Holes(s) : \A r \in Holes(s) : Precedes(q, r)

(* std::map::emplace keeps the entry that is there. *)
Emplace(p, s) ==
  [q \in DOMAIN allocs \cup {p} |-> IF q \in DOMAIN allocs THEN allocs[q] ELSE s]

(* assign_alloc: the last bounds check, then the entry in m_allocs. *)
AssignAlloc(page, offset, s) ==
  IF offset + s > PAGE_SIZE
    THEN outcome' = "invalid_offset" /\ allocs' = allocs
    ELSE outcome' = "ok" /\ allocs' = Emplace(<<page, offset>>, s)

Refuse(why) == outcome' = why /\ UNCHANGED <<allocs, buffers, buffer_pos>>

-----------------------------------------------------------------------------
Init ==
  /\ allocs = [p \in {} |-> 0]
  /\ buffers = 1
  /\ buffer_pos = 0
  /\ outcome = "ok"

(* malloc, a request as large as a page. *)
MallocTooLarge(s) == s >= PAGE_SIZE /\ Refuse("too_large")

(* malloc, first fit: the hole in front of a live object is reused. *)
MallocInHole(s) ==
  /\ s < PAGE_SIZE
  /\ Holes(s) # {}
  /\ LET q == FirstHole(s) IN AssignAlloc(q[1], LastPos(q), s)
  /\ UNCHANGED <<buffers, buffer_pos>>

NeedsPage_IgnoresSize(s) == buffer_pos >= buffers * PAGE_SIZE

NeedsPage(s) == buffer_pos + s >= buffers * PAGE_SIZE

AtPageLimit_OffByOne == buffers > MaxPages

AtPageLimit == buffers = MaxPages

(* malloc, the request fits behind m_buffer_pos in the last page. *)
MallocBump(s) ==
  /\ s < PAGE_SIZE
  /\ Holes(s) = {}
  /\ ~NeedsPage(s)
  /\ buffer_pos' = buffer_pos + s
  /\ AssignAlloc(buffers - 1, buffer_pos - (buffers - 1) * PAGE_SIZE, s)
  /\ UNCHANGED buffers

(* malloc, a new page is opened and the request starts it. *)
MallocNewPage(s) ==
  /\ s < PAGE_SIZE
  /\ Holes(s) = {}
  /\ NeedsPage(s)
  /\ ~AtPageLimit
  /\ buffers' = buffers + 1
  /\ buffer_pos' = buffers * PAGE_SIZE + s
  /\ AssignAlloc(buffers, 0, s)

(* malloc, the page limit is reached. *)
MallocOutOfMemory(s) ==
  /\ s < PAGE_SIZE
  /\ Holes(s) = {}
  /\ NeedsPage(s)
  /\ AtPageLimit
  /\ Refuse("out_of_memory")

(* free of a live object; neither m_buffers nor m_buffer_pos shrinks. *)
FreeLive_Rewinds(p) ==
  /\ p \in DOMAIN allocs
  /\ allocs' = [q \in DOMAIN allocs \ {p} |-> allocs[q]]
  /\ buffer_pos' = buffer_pos - allocs[p]
  /\ outcome' = "ok"
  /\ UNCHANGED buffers

FreeLive(p) ==
  /\ p \in DOMAIN allocs
  /\ allocs' = [q \in DOMAIN allocs \ {p} |-> allocs[q]]
  /\ outcome' = "ok"
  /\ UNCHANGED <<buffers, buffer_pos>>

(* free of an address that is not live. *)
FreeUnknown(p) == p \notin DOMAIN allocs /\ Refuse("memory_error")

Malloc(s) ==
  \/ MallocTooLarge(s)
  \/ MallocInHole(s)
  \/ MallocBump(s)
  \/ MallocNewPage(s)
  \/ MallocOutOfMemory(s)

Next ==
  \/ \E s \in Sizes : Malloc(s)
  \/ \E p \in Addresses : FreeLive(p) \/ FreeUnknown(p)

Spec == Init /\ [][Next]_vars

-----------------------------------------------------------------------------
(* The variables hold values of the types the class declares, and the heap *)
(* has at least one and at most DEFAULT_MAXIMUM_HEAP_PAGES pages.          *)
TypeOK ==
  /\ DOMAIN allocs \subseteq Addresses
  /\ \A p \in DOMAIN allocs : allocs[p] \in Nat \ {0}
  /\ allocs = [p \in DOMAIN allocs |-> allocs[p]]
  /\ buffers \in 1 .. MaxPages
  /\ buffer_pos \in Nat
  /\ outcome \in Outcomes

(* No two live objects share a byte, whatever was freed and refilled: the  *)
(* first fit of malloc and its bump allocation never collide.              *)
BlocksDisjoint ==
  \A p, q \in DOMAIN allocs :
    p # q /\ p[1] = q[1] => \/ p[2] + allocs[p] <= q[2]
                            \/ q[2] + allocs[q] <= p[2]

(* The bound that keeps the bump pointer in the last page although it is   *)
(* an offset into all pages laid end to end; malloc subtracts the earlier  *)
(* pages from it.                                                          *)
BufferPosInLastPage ==
  /\ (buffers - 1) * PAGE_SIZE <= buffer_pos
  /\ buffer_pos < buffers * PAGE_SIZE

(* Every live object lies in a page that exists, inside that page, and, in *)
(* the last page, below the bump pointer: nothing is live where the next   *)
(* bump allocation will be placed.                                         *)
BumpAreaUnused ==
  \A p \in DOMAIN allocs :
    /\ p[1] < buffers
    /\ p[2] + allocs[p] <= PAGE_SIZE
    /\ p[1] = buffers - 1 => p[2] + allocs[p] <= buffer_pos - (buffers - 1) * PAGE_SIZE

(* assign_alloc's "Invalid offset" is never thrown: the callers' own       *)
(* arithmetic already keeps every block inside its page.                   *)
NeverInvalidOffset == outcome # "invalid_offset"

HeapInv ==
  /\ TypeOK
  /\ BlocksDisjoint
  /\ BufferPosInLastPage
  /\ BumpAreaUnused
  /\ NeverInvalidOffset

(* The manager keeps the promise of AbstractHeap: what malloc returns is   *)
(* always a fresh block that overlaps no live one, and a refused request   *)
(* or a failed free leaves every block as it is.                           *)
Abstract == INSTANCE AbstractHeap WITH PageSize <- PAGE_SIZE, live <- allocs

ImplementsAbstractHeap == Abstract!Spec
=============================================================================
