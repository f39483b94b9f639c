---------------------------- MODULE NumbersProofs ----------------------------
(***************************************************************************)
(* Theorems about Numbers, for every set of variables and both widths:     *)
(* integers keep to their widths, no variable is left with an object that  *)
(* was freed, and a range yields Python's numbers whatever its loops do.   *)
(***************************************************************************)
EXTENDS Numbers, FiniteSetTheorems, TLAPS

(* What the objects of the variables are. *)
Store ==
  /\ holds \in [Variables -> Variables]
  /\ objects \in [{holds[x] : x \in Variables} -> Int64]

(* The position is the next number of the range, as long as the history is *)
(* complete, and a range that has come to its end stays there.             *)
Iteration ==
  /\ range \in Ranges /\ loops \in 0 .. MaxLoops
  /\ yielded \in Seq(Int) /\ Len(yielded) <= MaxYields
  /\ StaysInWidth =>
       /\ \A k \in 1 .. Len(yielded) : yielded[k] = Element(k) /\ yielded[k] < range.end
       /\ Len(yielded) < MaxYields => range.pos = Element(Len(yielded) + 1)
       /\ ended => range.pos >= range.end

NumbersInv == Store /\ Iteration /\ status \in {"running", "thrown", "trapped"}

-----------------------------------------------------------------------------
(* The narrow integers are integers of the wide type. *)
LEMMA Widths ==
  /\ Half32 \in Nat \ {0} /\ Half64 \in Nat \ {0}
  /\ Int32 \subseteq Int64 /\ Int64 \subseteq Int
  /\ Literals \subseteq Int32 /\ {0, 1} \subseteq Int32
BY WidthsAssumption, LiteralsAssumption DEF Int32, Int64

(* Two's complement keeps an integer in its width ... *)
LEMMA WrapType ==
  ASSUME NEW n \in Int, NEW half \in Nat \ {0}
  PROVE  Wrap(n, half) \in -half .. half - 1
<1>. DEFINE m == 2 * half
            a == n + half
<1>1. m \in Nat \ {0} /\ a \in Int
  OBVIOUS
<1>2. a % m \in 0 .. m - 1
  <2>. HIDE DEF m, a
  <2>. QED  BY <1>1
<1>. QED  BY <1>2 DEF Wrap

(* ... and does not change one that fits. *)
LEMMA WrapFits ==
  ASSUME NEW half \in Nat \ {0}, NEW n \in -half .. half - 1
  PROVE  Wrap(n, half) = n
<1>. DEFINE m == 2 * half
            a == n + half
<1>1. m \in Nat \ {0} /\ a \in 0 .. m - 1
  OBVIOUS
<1>2. a % m = a
  <2>. HIDE DEF m, a
  <2>. QED  BY <1>1
<1>. QED  BY <1>2 DEF Wrap

(* Both conversions land in their widths. *)
LEMMA WidthTypes ==
  ASSUME NEW n \in Int
  PROVE  Narrow(n) \in Int32 /\ Wrap64(n) \in Int64
BY Widths, WrapType DEF Narrow, Wrap64, Int32, Int64

(* The operators compute integers; the smallest integer divided by -1 ends *)
(* the program before it has a value.                                      *)
LEMMA ComputeType ==
  ASSUME NEW op \in Operators, NEW n \in Int64, NEW d \in Int64, Divides(op) => d # 0
  PROVE  Compute(op, n, d) \in Int
<1>1. n \in Int /\ d \in Int
  BY Widths
<1>2. CASE op \in {"Add", "Sub", "Mult"}
  <2>1. n + d \in Int /\ n - d \in Int /\ n * d \in Int
    BY <1>1
  <2>2. Wrap64(n + d) \in Int /\ Wrap64(n - d) \in Int /\ Wrap64(n * d) \in Int
    BY <2>1, WidthTypes, Widths
  <2>. QED  BY <1>2, <2>2 DEF Compute
<1>3. CASE op \in {"Div", "Mod"}
  <2>1. d # 0
    BY <1>3 DEF Divides
  <2>2. Magnitude(n) \in Nat /\ Magnitude(d) \in Nat \ {0}
    BY <1>1, <2>1 DEF Magnitude
  <2>3. Magnitude(n) \div Magnitude(d) \in Int
    BY <2>2
  <2>4. Quotient(n, d) \in Int
    BY <2>3 DEF Quotient
  <2>5. d * Quotient(n, d) \in Int
    BY <1>1, <2>4
  <2>6. Remainder(n, d) \in Int
    BY <1>1, <2>5 DEF Remainder
  <2>7. Wrap64(Quotient(n, d)) \in Int
    BY <2>4, WidthTypes, Widths
  <2>. QED  BY <1>3, <2>6, <2>7 DEF Compute
<1>4. CASE op \in {"Min", "Max"}
  BY <1>1, <1>4 DEF Compute
<1>. QED  BY <1>2, <1>3, <1>4 DEF Operators

(* A variable holds a 64-bit integer. *)
LEMMA ValueType == ASSUME Store, NEW x \in Variables PROVE Value(x) \in Int64
BY DEF Store, Value

(* What an expression makes is an integer: what it computes fits in 32     *)
(* bits, what it is given in 64.                                           *)
LEMMA ResultsType == ASSUME Store PROVE Results \subseteq Int64
<1>. SUFFICES ASSUME NEW r \in Results PROVE r \in Int64
  OBVIOUS
<1>1. CASE r \in Literals \cup Inputs
  BY <1>1, Widths, InputsAssumption
<1>2. CASE \E y \in Variables : r = Narrow(-Value(y))
  <2>. PICK y \in Variables : r = Narrow(-Value(y))
    BY <1>2
  <2>0. Value(y) \in Int
    BY ValueType, Widths
  <2>1. -Value(y) \in Int
    BY <2>0
  <2>. QED  BY <2>1, WidthTypes, Widths
<1>3. CASE \E op \in Operators, y, z \in Variables :
             /\ ~(Divides(op) /\ Value(z) = 0)
             /\ r = Narrow(Compute(op, Value(y), Value(z)))
  <2>. PICK op \in Operators, y \in Variables, z \in Variables :
             /\ ~(Divides(op) /\ Value(z) = 0)
             /\ r = Narrow(Compute(op, Value(y), Value(z)))
    BY <1>3
  <2>1. Compute(op, Value(y), Value(z)) \in Int
    BY ValueType, ComputeType
  <2>. QED  BY <2>1, WidthTypes, Widths
<1>4. r \in Literals \cup Inputs \/ (\E y \in Variables : r = Narrow(-Value(y)))
        \/ \E op \in Operators, y, z \in Variables :
             /\ ~(Divides(op) /\ Value(z) = 0)
             /\ r = Narrow(Compute(op, Value(y), Value(z)))
  BY Zenon DEF Results
<1>. QED  BY <1>1, <1>2, <1>3, <1>4

-----------------------------------------------------------------------------
(* A variable is bound to an object: only those in use are kept. *)
LEMMA KeepStore ==
  ASSUME NEW h \in [Variables -> Variables], NEW values,
         \A x \in Variables : values[h[x]] \in Int64, Keep(h, values)
  PROVE  Store'
BY DEF Keep, Store

(* There is always a name left for a new object: the other variables hold  *)
(* fewer objects than there are variables.                                 *)
LEMMA NameLeft ==
  ASSUME Store, NEW x \in Variables
  PROVE  \E o \in Variables : o \notin {holds[y] : y \in Variables \ {x}}
<1>. DEFINE others == Variables \ {x}
            used == {holds[y] : y \in others}
            f == [y \in others |-> holds[y]]
<1>1. IsFiniteSet(Variables) /\ Cardinality(Variables) \in Nat
  BY VariablesAssumption, FS_CardinalityType
<1>2. IsFiniteSet(others) /\ Cardinality(others) = Cardinality(Variables) - 1
  BY <1>1, FS_RemoveElement
<1>3. f \in Surjection(others, used)
  BY DEF Surjection
<1>4. IsFiniteSet(used) /\ Cardinality(used) <= Cardinality(others)
  <2>. HIDE DEF others, used, f
  <2>. QED  BY <1>2, <1>3, FS_Surjection
<1>5. Cardinality(used) \in Nat
  BY <1>4, FS_CardinalityType
<1>6. ~(Variables \subseteq used)
  <2>. SUFFICES ASSUME Variables \subseteq used PROVE FALSE
    OBVIOUS
  <2>1. Cardinality(Variables) <= Cardinality(used)
    BY <1>4, FS_Subset
  <2>. HIDE DEF others, used
  <2>. QED  BY <1>1, <1>2, <1>4, <1>5, <2>1
<1>. QED  BY <1>6

(* The new object leaves those of the other variables alone. *)
LEMMA RebindStore ==
  ASSUME Store, NEW x \in Variables, NEW v \in Int64, Rebind(x, v)
  PROVE  Store'
<1>. DEFINE used == {holds[y] : y \in Variables \ {x}}
            o == CHOOSE y \in Variables : y \notin used
            h == [holds EXCEPT ![x] = o]
            values == [y \in Variables |-> IF y = o THEN v ELSE objects[y]]
<1>1. o \in Variables /\ o \notin used
  BY NameLeft
<1>2. h \in [Variables -> Variables]
  BY <1>1 DEF Store
<1>3. \A y \in Variables : values[h[y]] \in Int64
  <2>. TAKE y \in Variables
  <2>1. CASE y = x
    BY <1>1, <2>1 DEF Store
  <2>2. CASE y # x
    <3>1. h[y] = holds[y] /\ holds[y] \in used /\ holds[y] \in Variables
      BY <2>2 DEF Store
    <3>2. objects[holds[y]] \in Int64
      BY DEF Store
    <3>. QED  BY <1>1, <3>1, <3>2
  <2>. QED  BY <2>1, <2>2
<1>4. Keep(h, values)
  BY DEF Rebind
<1>. HIDE DEF h, values
<1>. QED  BY <1>2, <1>3, <1>4, KeepStore

(* A second name for the same object. *)
LEMMA CopyStore ==
  ASSUME Store, NEW x \in Variables, NEW y \in Variables,
         Keep([holds EXCEPT ![x] = holds[y]], objects)
  PROVE  Store'
<1>. DEFINE h == [holds EXCEPT ![x] = holds[y]]
<1>1. h \in [Variables -> Variables]
  BY DEF Store
<1>2. \A z \in Variables : objects[h[z]] \in Int64
  BY DEF Store
<1>. HIDE DEF h
<1>. QED  BY <1>1, <1>2, KeepStore DEF h

(* An update in place changes the value of an object and binds nothing. *)
LEMMA AugmentStore ==
  ASSUME Store, NEW x \in Variables, NEW y \in Variables, NEW op \in InPlace,
         Augment(x, op, y)
  PROVE  Store'
<1>1. objects[holds[x]] \in Int /\ Value(y) \in Int
  BY ValueType, Widths DEF Value
<1>. DEFINE v == Compute(op, objects[holds[x]], Value(y))
<1>2. v \in Int64
  <2>1. /\ objects[holds[x]] + Value(y) \in Int
        /\ objects[holds[x]] - Value(y) \in Int
        /\ objects[holds[x]] * Value(y) \in Int
    BY <1>1
  <2>. QED  BY <2>1, WidthTypes DEF Compute, InPlace
<1>3. objects' = [objects EXCEPT ![holds[x]] = v] /\ holds' = holds
  BY DEF Augment
<1>. HIDE DEF v
<1>. QED  BY <1>2, <1>3 DEF Store

(* Nothing but the loops and range itself touches the iterator. *)
LEMMA SameIteration == ASSUME Iteration, UNCHANGED iteration PROVE Iteration'
BY DEF Iteration, iteration, StaysInWidth, Element

(* No assignment disturbs the iterator or leaves a variable empty. *)
LEMMA AssignmentInv == ASSUME NumbersInv, Assignment PROVE NumbersInv'
<1>. USE DEF NumbersInv
<1>1. PICK x \in Variables :
        \/ \E v \in Results : Assign(x, v)
        \/ DivideByZero(x)
        \/ \E y \in Variables :
             \/ Copy(x, y)
             \/ Overflow(x, y)
             \/ \E op \in InPlace : Augment(x, op, y)
  BY DEF Assignment
<1>2. ASSUME NEW v \in Results, Assign(x, v) PROVE NumbersInv'
  <2>1. v \in Int64
    BY ResultsType DEF NumbersInv
  <2>2. Store'
    BY <1>2, <2>1, RebindStore DEF Assign
  <2>. QED  BY <1>2, <2>2, SameIteration DEF Assign, Running
<1>3. ASSUME NEW s \in {"thrown", "trapped"}, Stop(s) PROVE NumbersInv'
  BY <1>3, SameIteration DEF Stop, Store
<1>4. ASSUME NEW y \in Variables, Copy(x, y) PROVE NumbersInv'
  <2>1. Store'
    BY <1>4, CopyStore DEF Copy
  <2>. QED  BY <1>4, <2>1, SameIteration DEF Copy, Running
<1>5. ASSUME NEW y \in Variables, NEW op \in InPlace, Augment(x, op, y) PROVE NumbersInv'
  <2>1. Store'
    BY <1>5, AugmentStore
  <2>. QED  BY <1>5, <2>1, SameIteration DEF Augment, Running
<1>. QED  BY <1>1, <1>2, <1>3, <1>4, <1>5 DEF DivideByZero, Overflow

-----------------------------------------------------------------------------
(* The numbers of a range lie one step apart. *)
LEMMA NextElementOf ==
  ASSUME range \in Ranges, NEW k \in Nat
  PROVE  Element(k + 1) + range.step = Element(k + 2)
<1>. DEFINE s == range.step
            b == range.start
<1>1. s \in Int /\ b \in Int
  BY Widths DEF Ranges
<1>2. (k + 1 - 1) * s = k * s /\ (k + 2 - 1) * s = k * s + s /\ k * s \in Int
  BY <1>1
<1>. QED  BY <1>1, <1>2 DEF Element

(* Where no sum leaves int32_t the position does not wrap around. *)
LEMMA NextPosExact ==
  ASSUME range \in Ranges, StaysInWidth, ~Exhausted, NEW x
  PROVE  NextPos(x) = range.pos + range.step
<1>1. /\ range.pos \in -Half32 .. Half32 - 1 /\ range.step \in -Half32 .. Half32 - 1
      /\ range.end \in -Half32 .. Half32 - 1 /\ Half32 \in Nat \ {0}
  BY Widths DEF Ranges, Int32
<1>2. range.pos + range.step \in -Half32 .. Half32 - 1
  BY <1>1 DEF StaysInWidth, Exhausted
<1>. QED  BY <1>1, <1>2, WrapFits DEF NextPos, Narrow

(* One round of a loop binds its variable, records the number and moves on. *)
LEMMA IterateInv == ASSUME NumbersInv, NEW x \in Variables, Iterate(x) PROVE NumbersInv'
<1>. DEFINE n == Len(yielded)
            p == NextPos(x)
<1>1. /\ range \in Ranges /\ range.pos \in Int32
      /\ range.pos \in Int /\ range.end \in Int /\ range.step \in Int
  BY Widths DEF NumbersInv, Iteration, Ranges
<1>2. Store'
  BY <1>1, Widths, RebindStore DEF NumbersInv, Iterate
<1>3. p \in Int32
  <2>1. range.pos + range.step \in Int
    BY <1>1
  <2>. QED  BY <2>1, WidthTypes DEF NextPos
<1>4. /\ range' = [range EXCEPT !.pos = p] /\ range' \in Ranges
      /\ range'.pos = p /\ range'.start = range.start
      /\ range'.end = range.end /\ range'.step = range.step
  <2>. HIDE DEF p
  <2>1. range' = [range EXCEPT !.pos = p]
    BY DEF Iterate, p
  <2>. QED  BY <1>1, <1>3, <2>1 DEF Ranges
<1>5. /\ StaysInWidth' <=> StaysInWidth
      /\ \A k : Element(k)' = Element(k)
  BY <1>4 DEF StaysInWidth, Element
<1>6. ~Exhausted /\ UNCHANGED <<loops, ended, status>> /\ range.pos < range.end
  BY <1>1 DEF Iterate, Running, Exhausted
<1>7. yielded \in Seq(Int) /\ n \in Nat /\ n <= MaxYields /\ MaxYields \in Nat
  BY BoundsAssumption DEF NumbersInv, Iteration
<1>8. CASE ~StaysInWidth
  BY <1>2, <1>4, <1>5, <1>6, <1>7, <1>8 DEF NumbersInv, Iteration, Iterate
<1>9. CASE StaysInWidth /\ ~(n < MaxYields)
  <2>1. yielded' = yielded
    BY <1>9 DEF Iterate
  <2>2. ~ended
    BY <1>6, <1>9, <1>1 DEF NumbersInv, Iteration
  <2>. QED  BY <1>2, <1>4, <1>5, <1>6, <1>7, <1>9, <2>1, <2>2 DEF NumbersInv, Iteration
<1>10. CASE StaysInWidth /\ n < MaxYields
  <2>1. yielded' = Append(yielded, range.pos)
    BY <1>10 DEF Iterate
  <2>2. /\ yielded' \in Seq(Int) /\ Len(yielded') = n + 1 /\ n + 1 <= MaxYields
        /\ \A k \in 1 .. n + 1 : yielded'[k] = IF k = n + 1 THEN range.pos ELSE yielded[k]
    BY <1>1, <1>7, <1>10, <2>1
  <2>3. ~ended /\ range.pos = Element(n + 1)
    BY <1>1, <1>6, <1>10 DEF NumbersInv, Iteration
  <2>4. p = Element(n + 2)
    <3>1. p = range.pos + range.step
      BY <1>1, <1>6, <1>10, NextPosExact
    <3>. QED  BY <1>1, <1>7, <2>3, <3>1, NextElementOf
  <2>5. \A k \in 1 .. n + 1 : yielded'[k] = Element(k) /\ yielded'[k] < range.end
    <3>1. \A k \in 1 .. n : yielded[k] = Element(k) /\ yielded[k] < range.end
      BY <1>10 DEF NumbersInv, Iteration
    <3>. SUFFICES ASSUME NEW k \in 1 .. n + 1
                  PROVE  yielded'[k] = Element(k) /\ yielded'[k] < range.end
      OBVIOUS
    <3>2. CASE k = n + 1
      <4>1. yielded'[k] = range.pos
        BY <2>2, <3>2
      <4>. QED  BY <1>6, <2>3, <3>2, <4>1
    <3>3. CASE k # n + 1
      <4>1. k \in 1 .. n
        BY <1>7, <3>3
      <4>2. yielded'[k] = yielded[k]
        BY <2>2, <3>3
      <4>. QED  BY <3>1, <4>1, <4>2
    <3>. QED  BY <3>2, <3>3
  <2>6. n + 1 + 1 = n + 2
    BY <1>7
  <2>7. Iteration'
    BY <1>4, <1>5, <1>6, <1>7, <2>2, <2>3, <2>4, <2>5, <2>6 DEF NumbersInv, Iteration
  <2>. QED  BY <1>2, <1>6, <2>7 DEF NumbersInv
<1>. QED  BY <1>8, <1>9, <1>10

(* A new range starts with an empty history. *)
LEMMA MakeRangeInv ==
  ASSUME NumbersInv, NEW start \in Int32, NEW end \in Int32, NEW step \in Int32,
         MakeRange(start, end, step)
  PROVE  NumbersInv'
<1>1. /\ range' = [start |-> start, end |-> end, step |-> step, pos |-> start]
      /\ range' \in Ranges /\ yielded' = <<>> /\ ended' = FALSE
      /\ UNCHANGED <<objects, holds, loops, status>>
  BY DEF MakeRange, Running, Ranges
<1>2. Len(yielded') = 0 /\ yielded' \in Seq(Int)
  BY <1>1
<1>3. Element(1)' = start
  <2>1. start \in Int /\ step \in Int
    BY Widths
  <2>2. (1 - 1) * step = 0
    BY <2>1
  <2>. QED  BY <1>1, <2>1, <2>2 DEF Element
<1>4. Iteration'
  BY <1>1, <1>2, <1>3, BoundsAssumption DEF NumbersInv, Iteration
<1>. QED  BY <1>1, <1>4 DEF NumbersInv, Store

(* Each form of the call of range makes one from narrow integers. *)
LEMMA NewRangeInv == ASSUME NumbersInv, NewRange PROVE NumbersInv'
<1>1. Bounds \subseteq Int32 /\ 0 \in Int32 /\ 1 \in Int32
  <2>1. \A x \in Variables : Narrow(Value(x)) \in Int32
    BY ValueType, Widths, WidthTypes DEF NumbersInv
  <2>. QED  BY <2>1, Widths DEF Bounds
<1>2. PICK start \in Int32, end \in Int32, step \in Int32 :
        MakeRange(start, end, step)
  BY <1>1 DEF NewRange
<1>. QED  BY <1>2, MakeRangeInv

(* The program begins with literals or inputs and an empty range. *)
LEMMA InitInv == Init => NumbersInv
<1>. SUFFICES ASSUME Init PROVE NumbersInv
  OBVIOUS
<1>1. Store
  <2>1. {holds[x] : x \in Variables} = Variables
    BY DEF Init
  <2>2. holds \in [Variables -> Variables] /\ objects \in [Variables -> Int64]
    BY Widths, InputsAssumption DEF Init
  <2>. QED  BY <2>1, <2>2 DEF Store
<1>2. range \in Ranges /\ range.pos = 0 /\ range.start = 0 /\ range.step = 0
  BY Widths DEF Init, Ranges
<1>3. yielded \in Seq(Int) /\ Len(yielded) = 0 /\ ~ended /\ loops = 0
  BY DEF Init
<1>4. ~StaysInWidth
  BY <1>2 DEF StaysInWidth
<1>5. Iteration
  BY <1>2, <1>3, <1>4, BoundsAssumption DEF Iteration
<1>. QED  BY <1>1, <1>5 DEF NumbersInv, Init

(* The steps that begin or leave a loop and yield nothing. *)
LEMMA LoopsInv ==
  ASSUME NumbersInv, BeginLoop \/ EndLoop \/ Break
  PROVE  NumbersInv'
<1>1. /\ UNCHANGED <<objects, holds, range, yielded, status>>
      /\ ended' \in {ended, TRUE} /\ (ended' # ended => range.pos >= range.end)
  BY DEF BeginLoop, EndLoop, Break, Running, Exhausted
<1>2. loops' \in 0 .. MaxLoops
  BY BoundsAssumption DEF NumbersInv, Iteration, BeginLoop, EndLoop, Break
<1>3. Iteration'
  BY <1>1, <1>2 DEF NumbersInv, Iteration, StaysInWidth, Element
<1>. QED  BY <1>1, <1>3 DEF NumbersInv, Store

(* Every step keeps the invariant. *)
LEMMA StepInv == NumbersInv /\ [Next]_vars => NumbersInv'
<1>. SUFFICES ASSUME NumbersInv, [Next]_vars PROVE NumbersInv'
  OBVIOUS
<1>1. CASE UNCHANGED vars
  BY <1>1, SameIteration DEF NumbersInv, vars, iteration, Store
<1>2. CASE Next
  BY <1>1, <1>2, AssignmentInv, NewRangeInv, IterateInv, LoopsInv DEF Next, Loop, Done
<1>. QED  BY <1>1, <1>2

(* Widths, objects and the iterator are right in every reachable state. *)
THEOREM NumbersSafe == Spec => []NumbersInv
<1>. QED  BY InitInv, StepInv, PTL DEF Spec

(* IntVal, create_integer, RangeIterator: every integer keeps to its width *)
(* and every variable holds an object, for any variables and any widths.   *)
THEOREM NumbersTypeOK == Spec => []TypeOK
<1>1. NumbersInv => TypeOK
  BY DEF NumbersInv, Store, Iteration, TypeOK
<1>. QED  BY <1>1, NumbersSafe, PTL

(* RangeIterator::next: a range yields Python's numbers, once over all the *)
(* loops that use it, and stops behind the last, whatever the loops do to  *)
(* their variables.                                                        *)
THEOREM NumbersRange == Spec => []RangeIsPythons
<1>1. NumbersInv => RangeIsPythons
  <2>. SUFFICES ASSUME NumbersInv, StaysInWidth PROVE RangeIsPythons
    BY DEF RangeIsPythons
  <2>1. DOMAIN yielded = 1 .. Len(yielded)
    BY DEF NumbersInv, Iteration
  <2>. QED  BY <2>1 DEF NumbersInv, Iteration, RangeIsPythons
<1>. QED  BY <1>1, NumbersSafe, PTL
=============================================================================
