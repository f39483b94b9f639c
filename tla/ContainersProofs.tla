-------------------------- MODULE ContainersProofs ---------------------------
(***************************************************************************)
(* Theorems about Containers, for every set of keys and values and every   *)
(* length: a loop over a list or a dictionary misses nothing and repeats   *)
(* nothing, whatever its body adds.                                        *)
(***************************************************************************)
EXTENDS Containers, FiniteSetTheorems, TLAPS

(* The containers and the variables hold objects. *)
Data ==
  /\ objects \in Seq(Values)
  /\ list \in Seq(Items) /\ Len(list) <= MaxLength
  /\ DOMAIN dict \subseteq Keys /\ \A k \in DOMAIN dict : dict[k] \in Refs
  /\ result \in Items
  /\ status \in {"running", "thrown"}

(* What the loop over the list has yielded. *)
ListLoop ==
  /\ seen \in Seq(Items)
  /\ IF listPos = NoLoop
       THEN seen = <<>>
       ELSE /\ listPos \in 0 .. Len(list)
            /\ Len(seen) = listPos
            /\ \A m \in 1 .. Len(seen) : seen[m] = list[m]

(* What the loop over the dictionary has yielded, and where it stands. *)
DictLoop ==
  /\ seenKeys \in Seq(Keys) /\ startKeys \subseteq Keys
  /\ IF dictIt = NoLoop
       THEN seenKeys = <<>>
       ELSE /\ dictIt \in {End} \cup DOMAIN dict /\ startKeys \subseteq DOMAIN dict
            /\ \A m, n \in 1 .. Len(seenKeys) : m < n => seenKeys[m] < seenKeys[n]
            /\ \A m \in 1 .. Len(seenKeys) : seenKeys[m] < dictIt
            /\ \A k \in startKeys :
                 k >= dictIt \/ \E m \in 1 .. Len(seenKeys) : seenKeys[m] = k

ContainersInv == Data /\ ListLoop /\ DictLoop

-----------------------------------------------------------------------------
(* A set of numbers has a least one: their initial segments are finite,    *)
(* and the strict subset relation on finite sets is well-founded.          *)
LEMMA LeastNumber ==
  ASSUME NEW T, T \subseteq Nat, T # {}
  PROVE  \E x \in T : \A y \in T : x <= y
<1>. DEFINE Below(x) == {k \in Nat : k < x}
            Segments == {Below(x) : x \in T}
<1>1. \A x \in Nat : Below(x) \in FiniteSubsetsOf(Nat)
  <2>. SUFFICES ASSUME NEW x \in Nat PROVE IsFiniteSet(Below(x))
    BY DEF FiniteSubsetsOf
  <2>1. Below(x) \in SUBSET Nat /\ \A s \in Below(x) : s <= x
    OBVIOUS
  <2>. HIDE DEF Below
  <2>. QED  BY <2>1, FS_BoundedSetOfNaturals
<1>2. Segments \subseteq FiniteSubsetsOf(Nat) /\ Segments # {}
  BY <1>1
<1>. HIDE DEF Segments
<1>3. PICK b \in Segments : \A c \in Segments : <<c, b>> \notin StrictSubsetOrdering(Nat)
  BY <1>2, FS_StrictSubsetOrderingWellFounded, WFMin, Zenon
<1>4. PICK x \in T : b = Below(x)
  BY DEF Segments
<1>5. ASSUME NEW y \in T, y < x
      PROVE  FALSE
  <2>1. Below(y) \in Segments /\ Below(y) \in SUBSET Nat /\ Below(x) \in SUBSET Nat
    BY DEF Segments
  <2>2. y \in Below(x) /\ y \notin Below(y) /\ Below(y) \subseteq Below(x)
    BY <1>5
  <2>3. <<Below(y), Below(x)>> \in StrictSubsetOrdering(Nat)
    <3>. HIDE DEF Below
    <3>1. Below(y) # Below(x)
      BY <2>2
    <3>. QED  BY <2>1, <2>2, <3>1, Zenon DEF StrictSubsetOrdering
  <2>. QED  BY <1>3, <1>4, <2>1, <2>3
<1>. QED  BY <1>5

(* The keys lie between the marks for no loop and for end(). *)
LEMMA KeyBounds ==
  /\ End \in Nat /\ NoLoop \notin {End} \cup Keys /\ NoLoop \in Int
  /\ \A k \in Keys : k \in Nat /\ 0 < k /\ k < End
BY KeysAreOrdered DEF NoLoop

(* The next node of the map: behind k, and before any other key behind k. *)
LEMMA AfterKey ==
  ASSUME DOMAIN dict \subseteq Keys, NEW k \in Nat, k < End
  PROVE  /\ After(k) \in {End} \cup DOMAIN dict
         /\ After(k) \in Nat /\ k < After(k)
         /\ \A j \in DOMAIN dict : j > k => After(k) <= j
<1>. DEFINE T == {j \in DOMAIN dict : j > k} \cup {End}
<1>1. T \subseteq Nat /\ T # {} /\ T \subseteq {End} \cup DOMAIN dict /\ \A j \in T : k < j
  BY KeyBounds
<1>2. \A j \in DOMAIN dict : j > k => j \in T
  OBVIOUS
<1>3. After(k) = Min(T)
  BY DEF After
<1>. HIDE DEF T
<1>4. \E x \in T : \A y \in T : x <= y
  BY <1>1, LeastNumber
<1>5. Min(T) \in T /\ \A y \in T : Min(T) <= y
  BY <1>4 DEF Min
<1>. QED  BY <1>1, <1>2, <1>3, <1>5

(* List::set and List::apply refuse every index. *)
LEMMA EveryIndexRefused ==
  ASSUME Data, NEW i \in Int
  PROVE  SetRejects(i)
<1>1. Size \in Nat /\ 2 * Size <= WordSize /\ WordSize \in Nat \ {0}
  BY WordSizeAssumption DEF Data, Size
<1>. DEFINE s == Size
            w == WordSize
            a == w - s
<1>2. CASE s = 0
  <2>1. w % w = 0
    <3>. HIDE DEF w
    <3>. QED  BY <1>1 DEF w
  <2>. QED  BY <1>1, <1>2, <2>1 DEF SetRejects, NegatedSize
<1>3. CASE s > 0
  <2>1. a \in 0 .. w - 1 /\ s <= a /\ w \in Nat \ {0} /\ s \in Nat
    BY <1>1, <1>3
  <2>2. a % w = a
    <3>. HIDE DEF a, w, s
    <3>. QED  BY <2>1
  <2>3. NegatedSize = a
    BY <2>2 DEF NegatedSize
  <2>. HIDE DEF a, s
  <2>. QED  BY <2>1, <2>3 DEF SetRejects, s
<1>. QED  BY <1>1, <1>2, <1>3

-----------------------------------------------------------------------------
(* Two's complement keeps an integer in range. *)
LEMMA WrapType == ASSUME NEW n \in Int PROVE Wrap(n) \in Int64
<1>. DEFINE m == 2 * HalfRange
            a == n + HalfRange
<1>1. m \in Nat \ {0} /\ a \in Int
  BY HalfRangeAssumption
<1>2. a % m \in 0 .. m - 1
  <2>. HIDE DEF m, a
  <2>. QED  BY <1>1
<1>. QED  BY <1>2, HalfRangeAssumption DEF Wrap, Int64

(* Whatever wraps is the datum of a value. *)
LEMMA IntegerType == ASSUME NEW n \in Int PROVE Integer(Wrap(n)) \in Values
BY WrapType DEF Integer, Values, Storable

(* Only integers are computed with. *)
LEMMA IntegerData ==
  ASSUME Data, NEW o \in Refs, IsInteger(o)
  PROVE  objects[o].data \in Int
<1>1. objects[o] \in Values /\ objects[o].type = "Integer"
  BY DEF Data, Refs, Items, IsInteger
<1>2. objects[o].data \in Int64
  BY <1>1 DEF Values, Storable, Unstorable
<1>. QED  BY <1>2, HalfRangeAssumption DEF Int64

(* An update in place leaves an integer, and the objects that there are. *)
LEMMA UpdateType ==
  ASSUME Data, NEW t \in Refs, NEW o \in Refs, IsInteger(t), IsInteger(o),
         NEW op \in Supported, Update(t, o, op)
  PROVE  objects' \in Seq(Values) /\ Refs' = Refs
<1>1. objects[t].data \in Int /\ objects[o].data \in Int
  BY IntegerData
<1>. DEFINE n == objects[t].data
            d == objects[o].data
            v == Integer(Compute(op, n, d))
<1>2. v \in Values
  <2>1. d + n \in Int /\ n - d \in Int /\ n * d \in Int
    BY <1>1
  <2>. QED  BY <2>1, IntegerType DEF Compute, Supported
<1>3. objects' = [objects EXCEPT ![t] = v] /\ objects \in Seq(Values)
  BY DEF Update, Data
<1>. HIDE DEF v
<1>. QED  BY <1>2, <1>3 DEF Refs, Items

(* A new object. *)
LEMMA AppendType ==
  ASSUME Data, NEW v \in Values, objects' = Append(objects, v)
  PROVE  /\ objects' \in Seq(Values) /\ Refs \subseteq Refs' /\ Len(objects') \in Refs'
         /\ list \in Seq(Items')
BY DEF Data, Refs, Items

(* A step that leaves the loops alone may put elements behind the last and *)
(* keys anywhere.                                                          *)
LEMMA LoopsKept ==
  ASSUME ContainersInv, Data', UNCHANGED loops, Refs \subseteq Refs',
         Len(list) <= Len(list'), \A m \in 1 .. Len(list) : list'[m] = list[m],
         DOMAIN dict \subseteq DOMAIN dict'
  PROVE  ContainersInv'
<1>1. ListLoop'
  <2>1. seen \in Seq(Items')
    BY DEF ContainersInv, ListLoop, Items
  <2>2. Len(list) \in Nat /\ Len(list') \in Nat /\ Len(seen) \in Nat
    BY DEF ContainersInv, Data, ListLoop
  <2>. QED  BY <2>1, <2>2 DEF ContainersInv, ListLoop, loops
<1>2. DictLoop'
  BY DEF ContainersInv, DictLoop, loops
<1>. QED  BY <1>1, <1>2 DEF ContainersInv

(* The containers do not change. *)
LEMMA SameData ==
  ASSUME ContainersInv, UNCHANGED <<objects, list, dict>>,
         result' \in Items, status' \in {"running", "thrown"}
  PROVE  Data'
BY DEF ContainersInv, Data, Refs, Items

(* An exception ends the program and changes nothing. *)
LEMMA ThrowInv == ASSUME ContainersInv, Throw PROVE ContainersInv'
<1>1. Data'
  BY SameData DEF Throw, ContainersInv, Data
<1>. QED  BY <1>1, LoopsKept DEF Throw, ContainersInv, Data, Refs, Items

-----------------------------------------------------------------------------
(* A new object is the value of an expression. *)
LEMMA CreateInv == ASSUME ContainersInv, NEW v \in Literals, Create(v) PROVE ContainersInv'
<1>1. v \in Values
  BY LiteralsAssumption
<1>2. /\ objects' \in Seq(Values) /\ Refs \subseteq Refs' /\ Len(objects') \in Refs'
      /\ list \in Seq(Items')
  BY <1>1, AppendType DEF Create, ContainersInv
<1>3. Data'
  BY <1>2 DEF Create, ContainersInv, Data, Items
<1>. QED  BY <1>2, <1>3, LoopsKept DEF Create, ContainersInv, Data

(* List::append puts an element behind those a loop may have seen. *)
LEMMA AppendElementInv ==
  ASSUME ContainersInv, NEW o \in Items, AppendElement(o)
  PROVE  ContainersInv'
<1>1. /\ list' \in Seq(Items) /\ Len(list') = Len(list) + 1 /\ Len(list) \in Nat
      /\ \A m \in 1 .. Len(list) : list'[m] = list[m]
  BY DEF AppendElement, ContainersInv, Data
<1>2. Len(list') <= MaxLength
  BY <1>1, WordSizeAssumption DEF AppendElement, Size
<1>3. Data'
  BY <1>1, <1>2 DEF AppendElement, ContainersInv, Data, Refs, Items
<1>. QED  BY <1>1, <1>3, LoopsKept DEF AppendElement, ContainersInv, Data, Refs, Items

(* List::get gives an element of the list. *)
LEMMA GetItemInv == ASSUME ContainersInv, NEW i \in Int, GetItem(i) PROVE ContainersInv'
<1>1. CASE GetRejects(i)
  BY <1>1, ThrowInv DEF GetItem
<1>2. CASE ~GetRejects(i)
  <2>1. Len(list) \in Nat /\ list \in Seq(Items)
    BY DEF ContainersInv, Data
  <2>2. Position(i) \in 1 .. Len(list)
    BY <1>2, <2>1 DEF GetRejects, Position, Size
  <2>3. result' \in Items
    BY <1>2, <2>1, <2>2 DEF GetItem
  <2>4. UNCHANGED <<objects, list, dict, loops, status>>
    BY <1>2 DEF GetItem
  <2>5. Data'
    BY <2>3, <2>4, SameData DEF ContainersInv, Data, Items, Refs
  <2>. QED  BY <2>1, <2>4, <2>5, LoopsKept DEF Refs, Items
<1>. QED  BY <1>1, <1>2

(* "x op= y" changes one object and no container. *)
LEMMA AugmentInv ==
  ASSUME ContainersInv, NEW t \in Refs, NEW o \in Refs, NEW op, Augment(t, o, op)
  PROVE  ContainersInv'
<1>1. CASE Bad(t, o) \/ op \notin Supported
  BY <1>1, ThrowInv DEF Augment
<1>2. CASE ~Bad(t, o) /\ op \in Supported
  <2>1. IsInteger(t) /\ IsInteger(o)
    BY <1>2 DEF Bad, Refs, Items, None, ContainersInv, Data
  <2>2. /\ Update(t, o, op) /\ result' = None
        /\ UNCHANGED <<list, dict, loops, status>>
    BY <1>2 DEF Augment
  <2>3. objects' \in Seq(Values) /\ Refs' = Refs
    BY <1>2, <2>1, <2>2, UpdateType DEF ContainersInv
  <2>4. Data'
    BY <2>2, <2>3 DEF ContainersInv, Data, Items
  <2>. QED  BY <2>2, <2>3, <2>4, LoopsKept DEF ContainersInv, Data
<1>. QED  BY <1>1, <1>2

(* An entry is new or replaced; the keys only become more. *)
LEMMA EntryInv ==
  ASSUME ContainersInv, NEW k \in Keys, NEW o \in Refs', dict' = With(k, o),
         objects' \in Seq(Values), Refs \subseteq Refs', result' = None,
         UNCHANGED <<list, loops, status>>
  PROVE  ContainersInv'
<1>1. /\ DOMAIN dict' = DOMAIN dict \cup {k}
      /\ \A j \in DOMAIN dict' : dict'[j] \in Refs'
  BY DEF With, ContainersInv, Data
<1>2. list \in Seq(Items')
  BY DEF ContainersInv, Data, Items
<1>3. Data'
  BY <1>1, <1>2 DEF ContainersInv, Data, Items
<1>. QED  BY <1>1, <1>3, LoopsKept DEF ContainersInv, Data

(* Dictionary::insert. *)
LEMMA InsertInv ==
  ASSUME ContainersInv, NEW k \in Keys, NEW o \in Refs, Insert(k, o)
  PROVE  ContainersInv'
<1>1. objects' \in Seq(Values) /\ Refs' = Refs
  BY DEF Insert, ContainersInv, Data, Refs, Items
<1>. QED  BY <1>1, EntryInv DEF Insert

(* Dictionary::apply, of a key that is there or of one that is not. *)
LEMMA ApplyInv ==
  ASSUME ContainersInv, NEW k \in Keys, NEW o \in Refs, NEW op, Apply(k, o, op)
  PROVE  ContainersInv'
<1>. DEFINE target == IF k \in DOMAIN dict THEN dict[k] ELSE None
<1>1. CASE Bad(target, o) \/ op \notin Supported
  BY <1>1, ThrowInv DEF Apply
<1>2. CASE ~Bad(target, o) /\ op \in Supported /\ k \in DOMAIN dict
  <2>1. ApplyPresent(k, o, op) /\ result' = None /\ UNCHANGED <<list, loops, status>>
    BY <1>2 DEF Apply
  <2>2. dict[k] \in Refs /\ IsInteger(dict[k]) /\ IsInteger(o)
    BY <1>2 DEF Bad, Refs, Items, None, ContainersInv, Data
  <2>3. PICK q \in Supported : Update(dict[k], o, q)
    BY <1>2, <2>1 DEF ApplyPresent, Supported
  <2>4. objects' \in Seq(Values) /\ Refs' = Refs
    BY <2>2, <2>3, UpdateType DEF ContainersInv
  <2>5. dict' = dict
    BY <2>1 DEF ApplyPresent
  <2>6. Data'
    BY <2>1, <2>4, <2>5 DEF ContainersInv, Data, Items
  <2>. QED  BY <2>1, <2>4, <2>5, <2>6, LoopsKept DEF ContainersInv, Data
<1>3. CASE ~Bad(target, o) /\ op \in Supported /\ k \notin DOMAIN dict
  <2>1. ApplyMissing(k, o, op) /\ result' = None /\ UNCHANGED <<list, loops, status>>
    BY <1>3 DEF Apply
  <2>2. IsInteger(o)
    BY <1>3 DEF Bad
  <2>3. CASE op = "Add"
    BY <2>1, <2>3, EntryInv DEF ApplyMissing, ContainersInv, Data, Refs, Items
  <2>4. CASE op = "Sub"
    <3>. DEFINE v == Integer(Wrap(-(objects[o].data)))
    <3>1. objects[o].data \in Int
      BY <2>2, IntegerData DEF ContainersInv
    <3>2. v \in Values
      <4>1. -(objects[o].data) \in Int
        BY <3>1
      <4>. QED  BY <4>1, IntegerType
    <3>3. objects' = [objects EXCEPT ![o] = v] /\ dict' = With(k, o)
      BY <2>1, <2>4 DEF ApplyMissing
    <3>. HIDE DEF v
    <3>4. objects' \in Seq(Values) /\ Refs' = Refs
      BY <3>2, <3>3 DEF ContainersInv, Data, Refs, Items
    <3>. QED  BY <2>1, <3>3, <3>4, EntryInv
  <2>5. CASE op = "Mult"
    <3>1. Integer(0) \in Values
      BY HalfRangeAssumption DEF Integer, Values, Storable, Int64
    <3>2. objects' = Append(objects, Integer(0)) /\ dict' = With(k, Len(objects'))
      BY <2>1, <2>5 DEF ApplyMissing
    <3>3. objects' \in Seq(Values) /\ Refs \subseteq Refs' /\ Len(objects') \in Refs'
      BY <3>1, <3>2, AppendType DEF ContainersInv
    <3>. QED  BY <2>1, <3>2, <3>3, EntryInv
  <2>. QED  BY <1>3, <2>3, <2>4, <2>5 DEF Supported
<1>. QED  BY <1>1, <1>2, <1>3

-----------------------------------------------------------------------------
(* The loops.  What the other loop has yielded stays as it is. *)
LEMMA SameDictLoop ==
  ASSUME ContainersInv, UNCHANGED <<dict, dictIt, seenKeys, startKeys>>
  PROVE  DictLoop'
BY DEF ContainersInv, DictLoop

(* And the other way round. *)
LEMMA SameListLoop ==
  ASSUME ContainersInv, UNCHANGED <<objects, list, listPos, seen>>
  PROVE  ListLoop'
BY DEF ContainersInv, ListLoop, Refs, Items

(* The loop over the list: begun, moved on or left. *)
LEMMA ListLoopInv ==
  ASSUME ContainersInv, status = "running", BeginListLoop \/ ListNext \/ EndListLoop
  PROVE  ContainersInv'
<1>1. /\ UNCHANGED <<objects, list, dict, dictIt, seenKeys, startKeys, status>>
      /\ result' \in {result, None}
  BY DEF BeginListLoop, ListNext, EndListLoop
<1>2. Data' /\ DictLoop'
  BY <1>1, SameData, SameDictLoop DEF ContainersInv, Data, Items
<1>3. ASSUME BeginListLoop PROVE ListLoop'
  BY <1>1, <1>3 DEF BeginListLoop, ContainersInv, ListLoop, Data, Refs, Items, NoLoop
<1>4. ASSUME ListNext PROVE ListLoop'
  <2>1. /\ listPos \in Nat /\ listPos < Len(list) /\ listPos # NoLoop
        /\ Len(list) \in Nat /\ list \in Seq(Items)
    BY <1>4 DEF ListNext, ContainersInv, Data, Size, NoLoop
  <2>2. list[listPos + 1] \in Items
    BY <2>1
  <2>3. seen \in Seq(Items) /\ Len(seen) = listPos
    BY <2>1 DEF ContainersInv, ListLoop
  <2>4. seen' = Append(seen, list[listPos + 1]) /\ listPos' = listPos + 1
    BY <1>4 DEF ListNext, NextElement
  <2>5. /\ seen' \in Seq(Items) /\ Len(seen') = listPos + 1
        /\ \A m \in 1 .. Len(seen') : seen'[m] = list[m]
    BY <2>1, <2>2, <2>3, <2>4 DEF ContainersInv, ListLoop
  <2>6. listPos' # NoLoop /\ listPos' \in 0 .. Len(list)
    BY <2>1, <2>4 DEF NoLoop
  <2>. QED  BY <1>1, <2>4, <2>5, <2>6 DEF ListLoop, Refs, Items
<1>5. ASSUME EndListLoop PROVE ListLoop'
  BY <1>1, <1>5 DEF EndListLoop, ListLoop, NoLoop, Refs, Items
<1>. QED  BY <1>2, <1>3, <1>4, <1>5 DEF ContainersInv

(* The loop over the dictionary: the keys behind the mark are still to come. *)
LEMMA DictLoopInv ==
  ASSUME ContainersInv, status = "running", BeginDictLoop \/ DictNext \/ EndDictLoop
  PROVE  ContainersInv'
<1>1. /\ UNCHANGED <<objects, list, dict, listPos, seen, status>>
      /\ result' \in {result, None}
  BY DEF BeginDictLoop, DictNext, EndDictLoop
<1>2. Data' /\ ListLoop'
  BY <1>1, SameData, SameListLoop DEF ContainersInv, Data, Items
<1>0. DOMAIN dict \subseteq Keys
  BY DEF ContainersInv, Data
<1>3. ASSUME BeginDictLoop PROVE DictLoop'
  <2>1. /\ dictIt' = After(0) /\ startKeys' = DOMAIN dict
        /\ seenKeys' = seenKeys /\ seenKeys = <<>>
    BY <1>3 DEF BeginDictLoop, ContainersInv, DictLoop
  <2>2. CASE DOMAIN dict = {}
    <3>1. After(0) = Min({End})
      BY <2>2 DEF After
    <3>2. Min({End}) = End
      BY KeyBounds DEF Min
    <3>3. dictIt' = End /\ End # NoLoop
      BY <2>1, <3>1, <3>2, KeyBounds
    <3>. QED  BY <1>1, <2>1, <2>2, <3>3 DEF DictLoop
  <2>3. CASE DOMAIN dict # {}
    <3>1. 0 < End
      BY <1>0, <2>3, KeyBounds
    <3>2. After(0) \in {End} \cup DOMAIN dict /\ \A j \in DOMAIN dict : After(0) <= j
      BY <1>0, <3>1, AfterKey, KeyBounds
    <3>3. After(0) # NoLoop /\ \A j \in DOMAIN dict : j >= After(0)
      BY <1>0, <3>2, KeyBounds
    <3>. QED  BY <1>0, <1>1, <2>1, <3>2, <3>3 DEF DictLoop
  <2>. QED  BY <2>2, <2>3
<1>4. ASSUME DictNext PROVE DictLoop'
  <2>1. /\ dictIt \in DOMAIN dict /\ dictIt \in Keys /\ dictIt \in Nat
        /\ dictIt < End /\ dictIt # NoLoop
    BY <1>0, <1>4, KeyBounds DEF DictNext
  <2>2. /\ seenKeys' = Append(seenKeys, dictIt) /\ dictIt' = After(dictIt)
        /\ startKeys' = startKeys
    BY <1>4 DEF DictNext
  <2>3. /\ After(dictIt) \in {End} \cup DOMAIN dict /\ After(dictIt) \in Nat
        /\ dictIt < After(dictIt)
        /\ \A j \in DOMAIN dict : j > dictIt => After(dictIt) <= j
    BY <1>0, <2>1, AfterKey
  <2>4. /\ seenKeys \in Seq(Keys) /\ startKeys \subseteq Keys
        /\ startKeys \subseteq DOMAIN dict
        /\ \A m, n \in 1 .. Len(seenKeys) : m < n => seenKeys[m] < seenKeys[n]
        /\ \A m \in 1 .. Len(seenKeys) : seenKeys[m] < dictIt
        /\ \A k \in startKeys :
             k >= dictIt \/ \E m \in 1 .. Len(seenKeys) : seenKeys[m] = k
    BY <2>1 DEF ContainersInv, DictLoop
  <2>5. /\ seenKeys' \in Seq(Keys) /\ Len(seenKeys') = Len(seenKeys) + 1
        /\ Len(seenKeys) \in Nat
        /\ \A m \in 1 .. Len(seenKeys) : seenKeys'[m] = seenKeys[m]
        /\ seenKeys'[Len(seenKeys) + 1] = dictIt
    BY <2>1, <2>2, <2>4
  <2>6. \A m \in 1 .. Len(seenKeys') : m \in 1 .. Len(seenKeys) \/ m = Len(seenKeys) + 1
    BY <2>5
  <2>7. \A m \in 1 .. Len(seenKeys) : seenKeys[m] \in Nat
    BY <2>4, KeyBounds
  <2>8. \A m, n \in 1 .. Len(seenKeys') : m < n => seenKeys'[m] < seenKeys'[n]
    <3>. TAKE m, n \in 1 .. Len(seenKeys')
    <3>. HAVE m < n
    <3>1. m \in 1 .. Len(seenKeys)
      BY <2>5
    <3>. QED  BY <2>4, <2>5, <2>6, <3>1
  <2>9. \A m \in 1 .. Len(seenKeys') : seenKeys'[m] < After(dictIt)
    <3>. TAKE m \in 1 .. Len(seenKeys')
    <3>. QED  BY <2>1, <2>3, <2>4, <2>5, <2>6, <2>7
  <2>10. ASSUME NEW k \in startKeys
         PROVE  k >= After(dictIt) \/ \E m \in 1 .. Len(seenKeys') : seenKeys'[m] = k
    <3>1. k \in Nat /\ k \in DOMAIN dict
      BY <2>4, KeyBounds
    <3>2. CASE \E m \in 1 .. Len(seenKeys) : seenKeys[m] = k
      BY <2>5, <3>2
    <3>3. CASE k = dictIt
      BY <2>5, <3>3
    <3>4. CASE k > dictIt
      BY <2>3, <3>1, <3>4
    <3>. QED  BY <2>1, <2>4, <3>1, <3>2, <3>3, <3>4
  <2>11. After(dictIt) # NoLoop
    BY <2>3 DEF NoLoop
  <2>. QED  BY <1>1, <2>2, <2>3, <2>4, <2>5, <2>8, <2>9, <2>10, <2>11 DEF DictLoop
<1>5. ASSUME EndDictLoop PROVE DictLoop'
  BY <1>1, <1>5 DEF EndDictLoop, DictLoop
<1>. QED  BY <1>2, <1>3, <1>4, <1>5 DEF ContainersInv

-----------------------------------------------------------------------------
(* Empty containers, no loop. *)
LEMMA InitInv == Init => ContainersInv
<1>. SUFFICES ASSUME Init PROVE ContainersInv
  OBVIOUS
<1>1. Data
  BY WordSizeAssumption DEF Init, Data, Refs, Items
<1>2. ListLoop /\ DictLoop
  BY DEF Init, ListLoop, DictLoop
<1>. QED  BY <1>1, <1>2 DEF ContainersInv

(* Every step keeps the invariant. *)
LEMMA StepInv == ContainersInv /\ [Next]_vars => ContainersInv'
<1>. SUFFICES ASSUME ContainersInv, [Next]_vars PROVE ContainersInv'
  OBVIOUS
<1>1. CASE UNCHANGED vars
  BY <1>1, LoopsKept DEF vars, loops, ContainersInv, Data, Refs, Items
<1>2. ASSUME NEW v \in Literals, Create(v) PROVE ContainersInv'
  BY <1>2, CreateInv
<1>3. ASSUME NEW o \in Items, AppendElement(o) PROVE ContainersInv'
  BY <1>3, AppendElementInv
<1>4. ASSUME NEW i \in Indices, GetItem(i) PROVE ContainersInv'
  BY <1>4, GetItemInv, IndicesAssumption
<1>5. ASSUME NEW i \in Indices, NEW o \in Refs, NEW op \in Operators, ApplyItem(i, o, op)
      PROVE  ContainersInv'
  <2>1. SetRejects(i)
    BY EveryIndexRefused, IndicesAssumption DEF ContainersInv
  <2>. QED  BY <1>5, <2>1, ThrowInv DEF ApplyItem
<1>6. ASSUME NEW o \in Refs, NEW p \in Refs, NEW op \in Operators, Augment(o, p, op)
      PROVE  ContainersInv'
  BY <1>6, AugmentInv
<1>7. ASSUME NEW k \in Keys, GetKey(k) PROVE ContainersInv'
  <2>1. result' \in Items /\ UNCHANGED <<objects, list, dict, loops, status>>
    BY <1>7 DEF GetKey, ContainersInv, Data, Items
  <2>2. Data'
    BY <2>1, SameData DEF ContainersInv, Data
  <2>. QED  BY <2>1, <2>2, LoopsKept DEF ContainersInv, Data, Refs, Items
<1>8. ASSUME NEW k \in Keys, NEW o \in Refs, Insert(k, o) PROVE ContainersInv'
  BY <1>8, InsertInv
<1>9. ASSUME NEW k \in Keys, NEW o \in Refs, NEW op \in Operators, Apply(k, o, op)
      PROVE  ContainersInv'
  BY <1>9, ApplyInv
<1>10. CASE status = "running" /\ (BeginListLoop \/ ListNext \/ EndListLoop)
  BY <1>10, ListLoopInv
<1>11. CASE status = "running" /\ (BeginDictLoop \/ DictNext \/ EndDictLoop)
  BY <1>11, DictLoopInv
<1>12. ASSUME NEW i \in Indices, NEW o \in Refs, SetItem(i, o) PROVE ContainersInv'
  <2>1. SetRejects(i)
    BY EveryIndexRefused, IndicesAssumption DEF ContainersInv
  <2>. QED  BY <1>12, <2>1, ThrowInv DEF SetItem
<1>. QED
  BY <1>1, <1>2, <1>3, <1>4, <1>5, <1>6, <1>7, <1>8, <1>9, <1>10, <1>11, <1>12 DEF Next

(* The containers and the loops over them are right in every state. *)
THEOREM ContainersSafe == Spec => []ContainersInv
<1>. QED  BY InitInv, StepInv, PTL DEF Spec

(* List, Dictionary and their iterators: every reference is to an object   *)
(* there is, for any keys, values and lengths.                             *)
THEOREM ContainersTypeOK == Spec => []TypeOK
<1>1. ContainersInv => TypeOK
  BY DEF ContainersInv, Data, ListLoop, DictLoop, TypeOK, Size
<1>. QED  BY <1>1, ContainersSafe, PTL

(* ListIterator: a loop over a list of any length yields its elements in   *)
(* order, whatever its body appends.                                       *)
THEOREM ContainersListLoop == Spec => []ListLoopInOrder
<1>1. ContainersInv => ListLoopInOrder
  <2>. SUFFICES ASSUME ContainersInv, listPos # NoLoop
                PROVE  IsPrefix(seen, list) /\ Len(seen) = listPos
    BY DEF ListLoopInOrder
  <2>1. /\ Len(seen) = listPos /\ Len(seen) <= Len(list) /\ Len(seen) \in Nat
        /\ Len(list) \in Nat
        /\ \A m \in 1 .. Len(seen) : seen[m] = list[m]
        /\ seen \in Seq(Items) /\ list \in Seq(Items)
    BY DEF ContainersInv, Data, ListLoop
  <2>2. SubSeq(seen, 1, Len(seen)) = SubSeq(list, 1, Len(seen))
    BY <2>1
  <2>. QED  BY <2>1, <2>2 DEF IsPrefix
<1>. QED  BY <1>1, ContainersSafe, PTL

(* DictKeyIterator, DictItemIterator: a loop over a dictionary with any    *)
(* keys misses none of those there were, whatever its body inserts.        *)
THEOREM ContainersDictLoop == Spec => []DictLoopSeesAll
<1>1. ContainersInv => DictLoopSeesAll
  <2>. SUFFICES ASSUME ContainersInv, dictIt # NoLoop PROVE DictLoopSeesAll
    BY DEF DictLoopSeesAll
  <2>1. DOMAIN seenKeys = 1 .. Len(seenKeys)
    BY DEF ContainersInv, DictLoop
  <2>. QED  BY <2>1 DEF ContainersInv, DictLoop, DictLoopSeesAll, ToSet
<1>. QED  BY <1>1, ContainersSafe, PTL
=============================================================================
