----------------------------- MODULE Containers -----------------------------
(***************************************************************************)
(* A list and a dictionary of a running program, and the loops over them.  *)
(* Both hold shared objects: objects[o] is the value of object o, and a    *)
(* list element, a dictionary entry and a variable may all be the same o,  *)
(* so that "x += 1" is seen through every one of them.  A loop's iterator  *)
(* refers to the container itself, and the body may change the container   *)
(* between two of its elements.                                            *)
(*                                                                         *)
(* The variables of the program are abstracted: any object may be the      *)
(* operand of any operation.  An exception ends the program, which cannot  *)
(* catch it.                                                               *)
(***************************************************************************)
EXTENDS StoreValues, FiniteSetsExt, SequencesExt

CONSTANTS
  End,          (* end() of the map: a bound above every key               *)
  WordSize,     (* 2^32, what size() counts modulo                         *)
  Literals,     (* the values a program makes                              *)
  Indices,      (* the indices a program uses                              *)
  MaxObjects,   (* bound on the objects made                               *)
  MaxLength     (* bound on the length of the list                         *)

(* std::map keeps its keys sorted; they are numbered in that order. *)
ASSUME KeysAreOrdered     == Keys \subseteq 1 .. (End - 1) /\ End \in Nat
(* Memory ends before a list has 2^31 elements. *)
ASSUME WordSizeAssumption == MaxLength \in Nat /\ WordSize \in Nat \ {0} /\ 2 * MaxLength <= WordSize
ASSUME LiteralsAssumption == Literals \subseteq Values
ASSUME IndicesAssumption  == Indices \subseteq Int

VARIABLES
  objects,      (* the value of each object                                *)
  list,         (* List::m_elements                                        *)
  dict,         (* Dictionary::m_elements                                  *)
  listPos,      (* ListIterator::m_pos, NoLoop without a loop              *)
  dictIt,       (* the key m_it points at, End, NoLoop without a loop      *)
  seen,         (* history: what the running list loop has yielded         *)
  seenKeys,     (* history: the keys the running dictionary loop yielded   *)
  startKeys,    (* history: the keys there were when that loop began       *)
  result,       (* what the last subscript gave, None for nullptr          *)
  status        (* "running" or "thrown"                                   *)

vars == <<objects, list, dict, listPos, dictIt, seen, seenKeys, startKeys, result, status>>

loops == <<listPos, dictIt, seen, seenKeys, startKeys>>

NoLoop == -1

None == 0

Refs == DOMAIN objects

(* What a list may hold: a function that returns nothing gives nullptr,     *)
(* which append takes like any other value, and an assignment refuses.      *)
Items == {None} \cup Refs

Init ==
  /\ objects = <<>>
  /\ list = <<>>
  /\ dict = [k \in {} |-> None]
  /\ listPos = NoLoop
  /\ dictIt = NoLoop
  /\ seen = <<>>
  /\ seenKeys = <<>>
  /\ startKeys = {}
  /\ result = None
  /\ status = "running"

Throw ==
  /\ status' = "thrown"
  /\ UNCHANGED <<objects, list, dict, loops, result>>

(* An expression that makes a value makes an object. *)
Create(v) ==
  /\ Len(objects) < MaxObjects
  /\ objects' = Append(objects, v)
  /\ result' = Len(objects')
  /\ UNCHANGED <<list, dict, loops, status>>

-----------------------------------------------------------------------------
(* Lists.  get compares a 64-bit index with -(int32_t)size(); set and apply *)
(* compare it with -size(), which is computed without a sign.               *)
Size == Len(list)

NegatedSize == (WordSize - Size) % WordSize

GetRejects(i) == i >= Size \/ i <= -Size

SetRejects(i) == i >= Size \/ i <= NegatedSize

Position(i) == IF i < 0 THEN Size + i + 1 ELSE i + 1

AppendElement(o) ==
  /\ Size < MaxLength
  /\ list' = Append(list, o)
  /\ result' = None
  /\ UNCHANGED <<objects, dict, loops, status>>

GetItem(i) ==
  IF GetRejects(i) THEN Throw
  ELSE result' = list[Position(i)] /\ UNCHANGED <<objects, list, dict, loops, status>>

SetItem(i, o) ==
  IF SetRejects(i) THEN Throw
  ELSE /\ list' = [list EXCEPT ![Position(i)] = o]
       /\ result' = None
       /\ UNCHANGED <<objects, dict, loops, status>>

-----------------------------------------------------------------------------
(* Numeric updates, in place. *)
IsInteger(o) == objects[o].type = "Integer"

Bad(target, o) == ~IsInteger(o) \/ (target # None /\ ~IsInteger(target))

Update(target, o, op) ==
  objects' = [objects EXCEPT ![target] =
                Integer(Compute(op, objects[target].data, objects[o].data))]

(* "x op= y". *)
Augment(target, o, op) ==
  IF Bad(target, o) \/ op \notin Supported THEN Throw
  ELSE /\ Update(target, o, op)
       /\ result' = None
       /\ UNCHANGED <<list, dict, loops, status>>

(* "list[i] op= y". *)
ApplyItem(i, o, op) ==
  IF SetRejects(i) \/ list[Position(i)] = None THEN Throw
  ELSE Augment(list[Position(i)], o, op)

-----------------------------------------------------------------------------
(* Dictionaries. *)
GetKey(k) ==
  /\ result' = IF k \in DOMAIN dict THEN dict[k] ELSE None
  /\ UNCHANGED <<objects, list, dict, loops, status>>

With(k, o) == [j \in DOMAIN dict \cup {k} |-> IF j = k THEN o ELSE dict[j]]

Insert(k, o) ==
  /\ dict' = With(k, o)
  /\ result' = None
  /\ UNCHANGED <<objects, list, loops, status>>

(* The entry of a key that was missing: the operand itself, negated in     *)
(* place by Sub, or for Mult a new zero.                                   *)
ApplyMissing(k, o, op) ==
  /\ op \in Supported
  /\ CASE op = "Add"  -> dict' = With(k, o) /\ UNCHANGED objects
       [] op = "Sub"  -> /\ dict' = With(k, o)
                         /\ objects' = [objects EXCEPT ![o] = Integer(Wrap(-(@.data)))]
       [] op = "Mult" -> /\ Len(objects) < MaxObjects
                         /\ objects' = Append(objects, Integer(0))
                         /\ dict' = With(k, Len(objects'))

(* With Mult the code adds. *)
ApplyPresent(k, o, op) ==
  /\ op \in Supported
  /\ Update(dict[k], o, IF op = "Mult" THEN "Add" ELSE op)
  /\ UNCHANGED dict

(* "dict[k] op= y". *)
Apply(k, o, op) ==
  IF Bad(IF k \in DOMAIN dict THEN dict[k] ELSE None, o) \/ op \notin Supported THEN Throw
  ELSE /\ IF k \in DOMAIN dict THEN ApplyPresent(k, o, op) ELSE ApplyMissing(k, o, op)
       /\ result' = None
       /\ UNCHANGED <<list, loops, status>>

-----------------------------------------------------------------------------
(* Loops.  One over the list and one over the dictionary may be running,    *)
(* one nested in the other; break may end a loop at any element.            *)
BeginListLoop ==
  /\ listPos = NoLoop
  /\ listPos' = 0
  /\ UNCHANGED <<objects, list, dict, dictIt, seen, seenKeys, startKeys, result, status>>

NextElement_SkipsOne == listPos + 2

NextElement == listPos + 1

ListNext ==
  /\ listPos \in 0 .. (Size - 1)
  /\ result' = None
  /\ seen' = Append(seen, list[listPos + 1])
  /\ listPos' = NextElement
  /\ UNCHANGED <<objects, list, dict, dictIt, seenKeys, startKeys, status>>

(* stop_iteration_exception, break or return. *)
EndListLoop ==
  /\ listPos # NoLoop
  /\ listPos' = NoLoop
  /\ seen' = <<>>
  /\ UNCHANGED <<objects, list, dict, dictIt, seenKeys, startKeys, result, status>>

(* The node after key k, as the map stands when the iterator is advanced;   *)
(* begin() is the one after 0.                                              *)
After_NotAdvanced(k) == Min({j \in DOMAIN dict : j >= k} \cup {End})

After(k) == Min({j \in DOMAIN dict : j > k} \cup {End})

BeginDictLoop ==
  /\ dictIt = NoLoop
  /\ dictIt' = After(0)
  /\ startKeys' = DOMAIN dict
  /\ UNCHANGED <<objects, list, dict, listPos, seen, seenKeys, result, status>>

(* Iterating a dictionary yields its values; items() yields the pairs. *)
DictNext ==
  /\ dictIt \in DOMAIN dict
  /\ result' = None
  /\ seenKeys' = Append(seenKeys, dictIt)
  /\ dictIt' = After(dictIt)
  /\ UNCHANGED <<objects, list, dict, listPos, seen, startKeys, status>>

EndDictLoop ==
  /\ dictIt # NoLoop
  /\ dictIt' = NoLoop
  /\ seenKeys' = <<>>
  /\ startKeys' = {}
  /\ UNCHANGED <<objects, list, dict, listPos, seen, result, status>>

Next ==
  /\ status = "running"
  /\ \/ \E v \in Literals : Create(v)
     \/ \E o \in Items : AppendElement(o)
     \/ \E i \in Indices : GetItem(i)
     \/ \E i \in Indices, o \in Refs : SetItem(i, o)
     \/ \E i \in Indices, o \in Refs, op \in Operators : ApplyItem(i, o, op)
     \/ \E o, p \in Refs, op \in Operators : Augment(o, p, op)
     \/ \E k \in Keys : GetKey(k)
     \/ \E k \in Keys, o \in Refs : Insert(k, o)
     \/ \E k \in Keys, o \in Refs, op \in Operators : Apply(k, o, op)
     \/ BeginListLoop \/ ListNext \/ EndListLoop
     \/ BeginDictLoop \/ DictNext \/ EndDictLoop

Spec == Init /\ [][Next]_vars

-----------------------------------------------------------------------------
(* Every reference is to an object there is, an iterator points into its   *)
(* container, and numbers stay 64-bit integers.                            *)
TypeOK ==
  /\ objects \in Seq(Values)
  /\ list \in Seq(Items)
  /\ DOMAIN dict \subseteq Keys /\ \A k \in DOMAIN dict : dict[k] \in Refs
  /\ listPos \in {NoLoop} \cup 0 .. Size
  /\ dictIt \in {NoLoop, End} \cup DOMAIN dict
  /\ seen \in Seq(Items) /\ seenKeys \in Seq(Keys) /\ startKeys \subseteq Keys
  /\ result \in Items
  /\ status \in {"running", "thrown"}

(* ListIterator: whatever the body appends, a loop over the list yields its *)
(* elements in order, none twice and none left out.                         *)
ListLoopInOrder == listPos # NoLoop => IsPrefix(seen, list) /\ Len(seen) = listPos

(* DictKeyIterator and DictItemIterator: whatever the body inserts, a loop  *)
(* over the dictionary yields keys in ascending order and misses none of    *)
(* those there were when it began.                                          *)
DictLoopSeesAll ==
  dictIt # NoLoop =>
    /\ \A m, n \in DOMAIN seenKeys : m < n => seenKeys[m] < seenKeys[n]
    /\ \A k \in startKeys : k \in ToSet(seenKeys) \/ k >= dictIt
    /\ \A m \in DOMAIN seenKeys : seenKeys[m] < dictIt

(* test/basic.cpp:49-60: "a[0] = 'loop'" replaces an element. *)
AssignmentInRange ==
  [][\A i \in Indices, o \in Refs :
       status = "running" /\ SetItem(i, o) /\ i \in 0 .. (Size - 1) => status' = "running"]_vars
=============================================================================
