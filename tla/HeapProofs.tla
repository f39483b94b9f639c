----------------------------- MODULE HeapProofs -----------------------------
(***************************************************************************)
(* Theorems about Heap, for every page size, page limit and set of object  *)
(* sizes: HeapInv is an inductive invariant, and Heap implements           *)
(* AbstractHeap.                                                           *)
(***************************************************************************)
EXTENDS Heap, WellFoundedInduction, TLAPS

-----------------------------------------------------------------------------
(* A non-empty set of naturals has a least element. *)
LEMMA LeastNatural ==
  ASSUME NEW S \in SUBSET Nat, S # {}
  PROVE  \E m \in S : \A n \in S : m <= n
<1>1. PICK m \in S : \A n \in S : ~ (<<n, m>> \in OpToRel(<, Nat))
  BY NatLessThanWellFounded, WFMin
<1>2. \A n \in S : ~ (n < m)
  BY <1>1 DEF OpToRel
<1>3. \A n \in S : n \in Nat /\ m \in Nat
  OBVIOUS
<1> QED
  BY <1>2, <1>3

(* A non-empty set of naturals below a bound has a greatest element. *)
LEMMA GreatestNatural ==
  ASSUME NEW S \in SUBSET Nat, S # {}, NEW k \in Nat, \A n \in S : n < k
  PROVE  \E m \in S : \A n \in S : n <= m
<1> DEFINE T == {k - n : n \in S}
<1>1. T \in SUBSET Nat /\ T # {}
  <2>1. PICK n \in S : TRUE
    OBVIOUS
  <2>2. k - n \in T
    BY <2>1
  <2>3. \A u \in T : u \in Nat
    OBVIOUS
  <2> QED
    BY <2>2, <2>3
<1>2. PICK t \in T : \A u \in T : t <= u
  BY <1>1, LeastNatural
<1>3. PICK m \in S : t = k - m
  BY <1>2
<1>4. \A n \in S : k - m <= k - n
  BY <1>2, <1>3
<1> QED
  BY <1>4

(* The loop variable last_pos: where there is an object before q, it is    *)
(* the end of the closest one.                                             *)
LEMMA LastPosIsEndOfClosest ==
  ASSUME TypeOK, NEW q \in DOMAIN allocs, Before(q) # {}
  PROVE  \E p \in Before(q) : /\ LastPos(q) = p[2] + allocs[p]
                              /\ \A r \in Before(q) : r[2] <= p[2]
<1> DEFINE S == {p[2] : p \in Before(q)}
<1>1. \A p \in DOMAIN allocs : p[1] \in Nat /\ p[2] \in Nat
  BY PageSizeAssumption, MaxPagesAssumption DEF TypeOK, Addresses
<1>2. S \in SUBSET Nat /\ S # {} /\ q[2] \in Nat /\ \A n \in S : n < q[2]
  BY <1>1 DEF Before
<1>3. PICK m \in S : \A n \in S : n <= m
  BY <1>2, GreatestNatural
<1>4. \E p \in Before(q) : \A r \in Before(q) : r[2] <= p[2]
  BY <1>3
<1> QED
  BY <1>4 DEF LastPos

(* When a hole is large enough, the first one is among the large enough.   *)
LEMMA FirstHoleIsHole ==
  ASSUME TypeOK, NEW s \in Nat, Holes(s) # {}
  PROVE  FirstHole(s) \in Holes(s)
<1> DEFINE LT == OpToRel(<, Nat)
           Lex == LexPairOrdering(LT, LT, Nat, Nat)
<1>1. IsWellFoundedOn(Lex, Nat \X Nat)
  BY NatLessThanWellFounded, WFLexPairOrdering
<1>2. Holes(s) \subseteq Nat \X Nat
  BY PageSizeAssumption, MaxPagesAssumption DEF TypeOK, Addresses, Holes
<1>3. PICK q \in Holes(s) : \A r \in Holes(s) : ~ (<<r, q>> \in Lex)
  BY <1>1, <1>2, WFMin
<1>4. \A r \in Holes(s) : Precedes(q, r)
  <2> TAKE r \in Holes(s)
  <2>1. /\ q \in Nat \X Nat /\ r \in Nat \X Nat
        /\ q[1] \in Nat /\ q[2] \in Nat /\ r[1] \in Nat /\ r[2] \in Nat
    BY <1>2
  <2>2. ~ (r[1] < q[1]) /\ ~ (r[1] = q[1] /\ r[2] < q[2])
    BY <1>3, <2>1 DEF LexPairOrdering, OpToRel
  <2> QED
    BY <2>1, <2>2 DEF Precedes
<1> QED
  BY <1>4 DEF FirstHole
-----------------------------------------------------------------------------
(* No live object touches the s bytes at p. *)
Unused(p, s) ==
  \A q \in DOMAIN allocs :
    p[1] = q[1] => p[2] + s <= q[2] \/ q[2] + allocs[q] <= p[2]

(* An address is a pair of naturals, and what is live there has a size. *)
LEMMA AddressType ==
  ASSUME TypeOK
  PROVE  \A p \in DOMAIN allocs :
           /\ p = <<p[1], p[2]>>
           /\ p[1] \in Nat /\ p[1] < MaxPages
           /\ p[2] \in Nat /\ p[2] < PAGE_SIZE
           /\ allocs[p] \in Nat /\ allocs[p] > 0
BY PageSizeAssumption, MaxPagesAssumption DEF TypeOK, Addresses

(* The hole first fit chooses is unused, although the loop compares an     *)
(* object only with the one immediately before it.                         *)
LEMMA HoleIsUnused ==
  ASSUME HeapInv, NEW s \in Sizes, NEW q \in Holes(s)
  PROVE  /\ LastPos(q) \in Nat
         /\ LastPos(q) + s <= q[2]
         /\ Unused(<<q[1], LastPos(q)>>, s)
<1>1. TypeOK /\ BlocksDisjoint
  BY DEF HeapInv
<1>2. q \in DOMAIN allocs /\ q[2] - LastPos(q) >= s /\ s \in Nat \ {0}
  BY SizesAssumption DEF Holes
<1>3. CASE Before(q) = {}
  <2>1. LastPos(q) = 0
    BY <1>3 DEF LastPos
  <2>2. ASSUME NEW r \in DOMAIN allocs, r[1] = q[1]
        PROVE  s <= r[2]
    BY <1>1, <1>2, <1>3, <2>1, <2>2, AddressType DEF Before
  <2> QED
    BY <1>1, <1>2, <2>1, <2>2, AddressType DEF Unused
<1>4. CASE Before(q) # {}
  <2>1. PICK p \in Before(q) : /\ LastPos(q) = p[2] + allocs[p]
                               /\ \A r \in Before(q) : r[2] <= p[2]
    BY <1>1, <1>2, <1>4, LastPosIsEndOfClosest
  <2>2. p \in DOMAIN allocs /\ p[1] = q[1]
    BY DEF Before
  <2>3. LastPos(q) \in Nat /\ LastPos(q) + s <= q[2]
    BY <1>1, <1>2, <2>1, <2>2, AddressType
  <2>4. ASSUME NEW r \in DOMAIN allocs, r[1] = q[1]
        PROVE  LastPos(q) + s <= r[2] \/ r[2] + allocs[r] <= LastPos(q)
    <3>1. CASE r[2] >= q[2]
      BY <1>1, <1>2, <2>3, <3>1, AddressType
    <3>2. CASE r = p
      BY <1>1, <2>1, <2>2, <3>2, AddressType
    <3>3. CASE r # p /\ r[2] < q[2]
      <4>1. r[2] <= p[2]
        BY <2>1, <2>4, <3>3 DEF Before
      <4>2. r[2] + allocs[r] <= p[2] \/ p[2] + allocs[p] <= r[2]
        BY <1>1, <2>2, <2>4, <3>3 DEF BlocksDisjoint
      <4> QED
        BY <1>1, <2>1, <2>2, <4>1, <4>2, AddressType
    <3> QED
      BY <1>1, <1>2, <3>1, <3>2, <3>3, AddressType
  <2> QED
    BY <2>3, <2>4 DEF Unused
<1> QED
  BY <1>3, <1>4

(* Placing a block where nothing is live adds one entry to m_allocs (the   *)
(* emplace never meets an entry already there) and overlaps nothing.       *)
LEMMA PlaceUnused ==
  ASSUME TypeOK, BlocksDisjoint, NEW p \in Addresses, NEW s \in Nat \ {0},
         Unused(p, s), allocs' = Emplace(p, s)
  PROVE  /\ p \notin DOMAIN allocs
         /\ DOMAIN allocs' = DOMAIN allocs \cup {p}
         /\ allocs'[p] = s
         /\ \A q \in DOMAIN allocs : allocs'[q] = allocs[q]
         /\ allocs' = [q \in DOMAIN allocs' |-> allocs'[q]]
         /\ BlocksDisjoint'
<1>1. p[1] \in Nat /\ p[2] \in Nat
  BY PageSizeAssumption, MaxPagesAssumption DEF Addresses
<1>2. p \notin DOMAIN allocs
  BY <1>1, AddressType DEF Unused
<1>3. /\ DOMAIN allocs' = DOMAIN allocs \cup {p}
      /\ allocs'[p] = s
      /\ \A q \in DOMAIN allocs : allocs'[q] = allocs[q]
      /\ allocs' = [q \in DOMAIN allocs' |-> allocs'[q]]
  BY <1>2 DEF Emplace
<1>4. BlocksDisjoint'
  BY <1>1, <1>2, <1>3 DEF BlocksDisjoint, Unused
<1> QED
  BY <1>2, <1>3, <1>4
-----------------------------------------------------------------------------
(* Where the last page starts, and where it ends. *)
LEMMA PageArithmetic ==
  ASSUME NEW n \in Nat
  PROVE  /\ n * PAGE_SIZE \in Int /\ (n - 1) * PAGE_SIZE \in Int
         /\ n * PAGE_SIZE = (n - 1) * PAGE_SIZE + PAGE_SIZE
         /\ (n + 1) * PAGE_SIZE = n * PAGE_SIZE + PAGE_SIZE
BY PageSizeAssumption

(* An empty heap has one page and no blocks. *)
LEMMA InitInv == Init => HeapInv
<1> SUFFICES ASSUME Init PROVE HeapInv
  OBVIOUS
<1>1. TypeOK /\ NeverInvalidOffset
  BY MaxPagesAssumption DEF Init, TypeOK, NeverInvalidOffset, Outcomes
<1>2. BlocksDisjoint /\ BumpAreaUnused
  BY DEF Init, BlocksDisjoint, BumpAreaUnused
<1>3. BufferPosInLastPage
  BY PageSizeAssumption DEF Init, BufferPosInLastPage
<1> QED
  BY <1>1, <1>2, <1>3 DEF HeapInv

(* First fit: the hole lies in front of a live object, so inside its page  *)
(* and, in the last page, below the bump pointer.                          *)
LEMMA MallocInHoleInv ==
  ASSUME HeapInv, NEW s \in Sizes, MallocInHole(s)
  PROVE  HeapInv' /\ Abstract!Next
<1> DEFINE q == FirstHole(s)
           p == <<q[1], LastPos(q)>>
<1>1. TypeOK /\ BlocksDisjoint /\ BufferPosInLastPage /\ BumpAreaUnused
  BY DEF HeapInv
<1>2. s \in Nat \ {0} /\ q \in Holes(s) /\ q \in DOMAIN allocs
  BY <1>1, SizesAssumption, FirstHoleIsHole DEF MallocInHole, Holes
<1> HIDE DEF q
<1>3. LastPos(q) \in Nat /\ LastPos(q) + s <= q[2] /\ Unused(p, s)
  BY <1>2, HoleIsUnused
<1>4. p \in Addresses /\ q[2] < PAGE_SIZE /\ allocs[q] \in Nat /\ q[1] < buffers
  BY <1>1, <1>2, <1>3, PageSizeAssumption, MaxPagesAssumption, AddressType
     DEF Addresses, BumpAreaUnused
<1>5. /\ outcome' = "ok" /\ allocs' = Emplace(p, s)
      /\ buffers' = buffers /\ buffer_pos' = buffer_pos
  <2>1. ~ (LastPos(q) + s > PAGE_SIZE)
    BY <1>1, <1>2, <1>3, <1>4, PageSizeAssumption, AddressType
  <2> QED
    BY <2>1 DEF MallocInHole, AssignAlloc, q
<1>6. /\ p \notin DOMAIN allocs /\ DOMAIN allocs' = DOMAIN allocs \cup {p}
      /\ allocs'[p] = s /\ \A r \in DOMAIN allocs : allocs'[r] = allocs[r]
      /\ allocs' = [r \in DOMAIN allocs' |-> allocs'[r]] /\ BlocksDisjoint'
  BY <1>1, <1>2, <1>3, <1>4, <1>5, PlaceUnused
<1>7. TypeOK'
  BY <1>1, <1>2, <1>4, <1>5, <1>6 DEF TypeOK, Outcomes
<1>8. BufferPosInLastPage' /\ NeverInvalidOffset'
  BY <1>1, <1>5 DEF BufferPosInLastPage, NeverInvalidOffset
<1>9. BumpAreaUnused'
  <2>1. p[1] < buffers /\ p[2] + s <= PAGE_SIZE
    BY <1>2, <1>3, <1>4, AddressType, <1>1, PageSizeAssumption
  <2>2. ASSUME p[1] = buffers - 1
        PROVE  p[2] + s <= buffer_pos - (buffers - 1) * PAGE_SIZE
    <3>1. q[2] + allocs[q] <= buffer_pos - (buffers - 1) * PAGE_SIZE
      BY <1>1, <1>2, <2>2 DEF BumpAreaUnused
    <3>2. (buffers - 1) * PAGE_SIZE \in Int /\ buffer_pos \in Nat
      BY <1>1, PageArithmetic DEF TypeOK
    <3> QED
      BY <1>1, <1>2, <1>3, <1>4, <3>1, <3>2, AddressType
  <2> QED
    BY <1>1, <1>5, <1>6, <2>1, <2>2 DEF BumpAreaUnused
<1>10. Abstract!Next
  <2>1. Abstract!Free(p, s) /\ p[2] + s <= PAGE_SIZE
    BY <1>2, <1>3, <1>4, AddressType, <1>1, PageSizeAssumption DEF Abstract!Free, Unused
  <2>2. allocs' = [r \in DOMAIN allocs \cup {p} |-> IF r = p THEN s ELSE allocs[r]]
    BY <1>5, <1>6 DEF Emplace
  <2>3. Abstract!Allocate(p, s) /\ p \in Abstract!Addresses
    BY <1>4, <1>6, <2>1, <2>2 DEF Abstract!Allocate, Abstract!Addresses, Addresses
  <2> QED
    BY <2>3 DEF Abstract!Next
<1> QED
  BY <1>6, <1>7, <1>8, <1>9, <1>10 DEF HeapInv
(* Bump allocation, in the last page or at the start of a new one.         *)
LEMMA MallocAtBumpInv ==
  ASSUME HeapInv, NEW s \in Sizes, MallocBump(s) \/ MallocNewPage(s)
  PROVE  HeapInv' /\ Abstract!Next
<1> DEFINE last   == buffers' - 1
           offset == buffer_pos' - s - last * PAGE_SIZE
           p      == <<last, offset>>
<1>1. TypeOK /\ BlocksDisjoint /\ BufferPosInLastPage /\ BumpAreaUnused
  BY DEF HeapInv
<1>2. s \in Nat \ {0} /\ s < PAGE_SIZE /\ PAGE_SIZE \in Nat \ {0} /\ MaxPages \in Nat
  BY PageSizeAssumption, MaxPagesAssumption, SizesAssumption DEF MallocBump, MallocNewPage
<1>3. buffers \in Nat /\ buffers > 0 /\ buffers <= MaxPages /\ buffer_pos \in Nat
  BY <1>1, <1>2 DEF TypeOK
<1>4. /\ buffers * PAGE_SIZE \in Int /\ (buffers - 1) * PAGE_SIZE \in Int
      /\ buffers * PAGE_SIZE = (buffers - 1) * PAGE_SIZE + PAGE_SIZE
      /\ (buffers + 1) * PAGE_SIZE = buffers * PAGE_SIZE + PAGE_SIZE
      /\ buffers * PAGE_SIZE >= 0
  BY <1>2, <1>3, PageArithmetic
<1>5. /\ last \in Nat /\ buffers' = last + 1 /\ last < MaxPages /\ buffers <= buffers'
      /\ offset \in Nat /\ offset + s < PAGE_SIZE
      /\ buffer_pos' = last * PAGE_SIZE + offset + s
      /\ buffers = last + 1 => offset = buffer_pos - last * PAGE_SIZE
      /\ buffers < last + 1 => last = buffers
      /\ last * PAGE_SIZE \in Int
      /\ buffers' * PAGE_SIZE = last * PAGE_SIZE + PAGE_SIZE
      /\ outcome' = "ok" /\ allocs' = Emplace(p, s)
  <2>1. CASE MallocBump(s)
    <3>1. /\ buffers' = buffers /\ buffer_pos' = buffer_pos + s
          /\ buffer_pos + s < buffers * PAGE_SIZE
      BY <1>2, <1>3, <1>4, <2>1 DEF MallocBump, NeedsPage
    <3>2. /\ offset = buffer_pos - (buffers - 1) * PAGE_SIZE /\ last = buffers - 1
          /\ offset \in Nat /\ offset + s < PAGE_SIZE
      BY <1>1, <1>2, <1>3, <1>4, <3>1 DEF BufferPosInLastPage
    <3>3. outcome' = "ok" /\ allocs' = Emplace(p, s)
      BY <1>2, <2>1, <3>2 DEF MallocBump, AssignAlloc
    <3> QED
      BY <1>2, <1>3, <1>4, <3>1, <3>2, <3>3
  <2>2. CASE MallocNewPage(s)
    <3>1. /\ buffers' = buffers + 1 /\ buffer_pos' = buffers * PAGE_SIZE + s
          /\ buffers # MaxPages
      BY <2>2 DEF MallocNewPage, AtPageLimit
    <3>2. offset = 0 /\ last = buffers
      BY <1>2, <1>3, <1>4, <3>1
    <3>3. outcome' = "ok" /\ allocs' = Emplace(p, s)
      BY <1>2, <2>2, <3>2 DEF MallocNewPage, AssignAlloc
    <3> QED
      BY <1>2, <1>3, <1>4, <3>1, <3>2, <3>3
  <2> QED
    BY <2>1, <2>2
<1> HIDE DEF last, offset
<1>6. Unused(p, s) /\ p \in Addresses
  <2>1. p \in Addresses
    BY <1>2, <1>5 DEF Addresses
  <2>2. ASSUME NEW q \in DOMAIN allocs, q[1] = last
        PROVE  q[2] + allocs[q] <= offset
    BY <1>1, <1>3, <1>5, <2>2, AddressType DEF BumpAreaUnused
  <2> QED
    BY <2>1, <2>2 DEF Unused
<1>7. /\ p \notin DOMAIN allocs /\ DOMAIN allocs' = DOMAIN allocs \cup {p}
      /\ allocs'[p] = s /\ \A r \in DOMAIN allocs : allocs'[r] = allocs[r]
      /\ allocs' = [r \in DOMAIN allocs' |-> allocs'[r]] /\ BlocksDisjoint'
  BY <1>1, <1>2, <1>5, <1>6, PlaceUnused
<1>8. TypeOK'
  <2>1. buffers' \in 1 .. MaxPages /\ buffer_pos' \in Nat
    <3>1. last * PAGE_SIZE \in Nat
      BY <1>2, <1>5
    <3> QED
      BY <1>2, <1>5, <3>1
  <2> QED
    BY <1>1, <1>2, <1>5, <1>6, <1>7, <2>1 DEF TypeOK, Outcomes
<1>9. BufferPosInLastPage' /\ NeverInvalidOffset'
  BY <1>2, <1>5 DEF BufferPosInLastPage, NeverInvalidOffset
<1>10. BumpAreaUnused'
  <2>1. ASSUME NEW q \in DOMAIN allocs
        PROVE  /\ q[1] < buffers'
               /\ q[2] + allocs[q] <= PAGE_SIZE
               /\ q[1] = last => q[2] + allocs[q] <= offset + s
    BY <1>1, <1>2, <1>3, <1>5, <2>1, AddressType DEF BumpAreaUnused
  <2> QED
    BY <1>2, <1>5, <1>7, <2>1 DEF BumpAreaUnused
<1>11. Abstract!Next
  <2>1. Abstract!Free(p, s) /\ p[2] + s <= PAGE_SIZE
    BY <1>2, <1>5, <1>6 DEF Abstract!Free, Unused
  <2>2. allocs' = [r \in DOMAIN allocs \cup {p} |-> IF r = p THEN s ELSE allocs[r]]
    BY <1>5, <1>7 DEF Emplace
  <2>3. Abstract!Allocate(p, s) /\ p \in Abstract!Addresses
    BY <1>6, <1>7, <2>1, <2>2 DEF Abstract!Allocate, Abstract!Addresses, Addresses
  <2> QED
    BY <2>3 DEF Abstract!Next
<1> QED
  BY <1>7, <1>8, <1>9, <1>10, <1>11 DEF HeapInv

(* Giving a block back leaves every other one where it is. *)
LEMMA FreeLiveInv ==
  ASSUME HeapInv, NEW p \in Addresses, FreeLive(p)
  PROVE  HeapInv' /\ Abstract!Next
<1>1. /\ DOMAIN allocs' = DOMAIN allocs \ {p}
      /\ \A q \in DOMAIN allocs' : allocs'[q] = allocs[q]
      /\ allocs' = [q \in DOMAIN allocs' |-> allocs'[q]]
      /\ buffers' = buffers /\ buffer_pos' = buffer_pos /\ outcome' = "ok"
  BY DEF FreeLive
<1>2. TypeOK'
  BY <1>1 DEF HeapInv, TypeOK, Outcomes
<1>3. BlocksDisjoint'
  BY <1>1 DEF HeapInv, BlocksDisjoint
<1>4. BumpAreaUnused'
  BY <1>1 DEF HeapInv, BumpAreaUnused
<1>5. BufferPosInLastPage' /\ NeverInvalidOffset'
  BY <1>1 DEF HeapInv, BufferPosInLastPage, NeverInvalidOffset
<1>6. Abstract!Release(p) /\ p \in Abstract!Addresses
  BY DEF FreeLive, Abstract!Release, Abstract!Addresses, Addresses
<1>7. Abstract!Next
  BY <1>6 DEF Abstract!Next
<1> QED
  BY <1>2, <1>3, <1>4, <1>5, <1>7 DEF HeapInv

(* A call that is refused changes nothing but how it returned. *)
LEMMA RefuseInv ==
  ASSUME HeapInv, NEW why \in Outcomes \ {"invalid_offset"}, Refuse(why)
  PROVE  HeapInv' /\ UNCHANGED allocs
BY DEF Refuse, HeapInv, TypeOK, BlocksDisjoint, BufferPosInLastPage, BumpAreaUnused,
       NeverInvalidOffset

(* Every step keeps HeapInv and is a step of AbstractHeap, or leaves its   *)
(* variable alone.                                                         *)
LEMMA StepInv ==
  ASSUME HeapInv, [Next]_vars
  PROVE  HeapInv' /\ [Abstract!Next]_allocs
<1>1. ASSUME NEW s \in Sizes, Malloc(s)
      PROVE  HeapInv' /\ [Abstract!Next]_allocs
  <2>1. CASE MallocTooLarge(s)
    BY <2>1, RefuseInv DEF MallocTooLarge, Outcomes
  <2>2. CASE MallocInHole(s)
    BY <2>2, MallocInHoleInv
  <2>3. CASE MallocBump(s) \/ MallocNewPage(s)
    BY <2>3, MallocAtBumpInv
  <2>4. CASE MallocOutOfMemory(s)
    BY <2>4, RefuseInv DEF MallocOutOfMemory, Outcomes
  <2> QED
    BY <1>1, <2>1, <2>2, <2>3, <2>4 DEF Malloc
<1>2. ASSUME NEW p \in Addresses, FreeLive(p)
      PROVE  HeapInv' /\ [Abstract!Next]_allocs
  BY <1>2, FreeLiveInv
<1>3. ASSUME NEW p \in Addresses, FreeUnknown(p)
      PROVE  HeapInv' /\ [Abstract!Next]_allocs
  BY <1>3, RefuseInv DEF FreeUnknown, Outcomes
<1>4. CASE UNCHANGED vars
  BY <1>4 DEF vars, HeapInv, TypeOK, BlocksDisjoint, BufferPosInLastPage, BumpAreaUnused,
              NeverInvalidOffset
<1> QED
  BY <1>1, <1>2, <1>3, <1>4 DEF Next

-----------------------------------------------------------------------------
(* MemoryManager.cpp: no sequence of malloc and free makes two live        *)
(* objects overlap, places one outside its page or over the bump area,     *)
(* throws "Invalid offset", or grows the heap past its page limit.         *)
THEOREM HeapSafe == Spec => []HeapInv
<1>1. Init => HeapInv
  BY InitInv
<1>2. HeapInv /\ [Next]_vars => HeapInv'
  BY StepInv
<1> QED
  BY <1>1, <1>2, PTL DEF Spec

(* MemoryManager.cpp: no two live objects share a byte. *)
THEOREM NoOverlap == Spec => []BlocksDisjoint
<1>1. HeapInv => BlocksDisjoint
  BY DEF HeapInv
<1> QED
  BY <1>1, HeapSafe, PTL

(* Heap pages: at most DEFAULT_MAXIMUM_HEAP_PAGES of them, however malloc  *)
(* and free alternate.                                                     *)
THEOREM HeapTypeOK == Spec => []TypeOK
<1>1. HeapInv => TypeOK
  BY DEF HeapInv
<1> QED
  BY <1>1, HeapSafe, PTL

(* malloc's bump pointer: nothing is live where it will place the next     *)
(* block, although free never moves it back.                               *)
THEOREM BumpAreaFree == Spec => []BumpAreaUnused
<1>1. HeapInv => BumpAreaUnused
  BY DEF HeapInv
<1> QED
  BY <1>1, HeapSafe, PTL

(* assign_alloc: "Invalid offset" is never thrown, for any page size.      *)
THEOREM OffsetsValid == Spec => []NeverInvalidOffset
<1>1. HeapInv => NeverInvalidOffset
  BY DEF HeapInv
<1> QED
  BY <1>1, HeapSafe, PTL

(* MemoryManager.cpp: what malloc hands out is a block that overlaps no    *)
(* live one, and free gives back exactly one: the promise AbstractHeap     *)
(* states.                                                                 *)
THEOREM HeapRefines == Spec => ImplementsAbstractHeap
<1>1. Init => Abstract!Init
  BY DEF Init, Abstract!Init
<1>2. HeapInv /\ [Next]_vars => [Abstract!Next]_allocs
  BY StepInv
<1> QED
  BY <1>1, <1>2, HeapSafe, PTL DEF Spec, ImplementsAbstractHeap, Abstract!Spec
=============================================================================
