------------------------------- MODULE Numbers -------------------------------
(***************************************************************************)
(* The integers of a running program and the loops over a range.  An       *)
(* integer is a shared object of 64 bits.  An operator makes a new object, *)
(* which create_integer cuts to 32 bits; an augmented assignment changes   *)
(* the object itself, for every variable that shares it.  A range is an    *)
(* object too, with a position of its own: it is used up by whichever loop *)
(* runs over it, and two nested loops may run over the same one.           *)
(*                                                                         *)
(* The statements are abstracted to any order of assignments, and of the   *)
(* steps of the loops.  An exception ends the program.                     *)
(*                                                                         *)
(* A definition named D_Flaw is not part of the model: it is D with one    *)
(* plausible programming error, for the mutation checks PROJECT.json lists.*)
(***************************************************************************)
EXTENDS Integers, Sequences, FiniteSets

CONSTANTS
  Variables,   (* the names of the program that hold integers              *)
  Literals,    (* its integer literals                                     *)
  Inputs,      (* integers from elsewhere: arguments of calldata, numbers  *)
               (* in the store, int("..."), len(x)                         *)
  Steps,       (* bound on the third argument of range                     *)
  Half32,      (* an int32_t ranges over -Half32 .. Half32 - 1             *)
  Half64,      (* an int64_t ranges over -Half64 .. Half64 - 1             *)
  MaxLoops,    (* bound on the loops nested over one range                 *)
  MaxYields    (* bound on the history of what the range yielded           *)

Int32 == -Half32 .. Half32 - 1
Int64 == -Half64 .. Half64 - 1

ASSUME WidthsAssumption   == /\ Half32 \in Nat \ {0, 1} /\ Half64 \in Nat \ {0}
                             /\ Half32 <= Half64 /\ Half64 % Half32 = 0
ASSUME LiteralsAssumption == Literals \subseteq Int32
ASSUME InputsAssumption   == Inputs \subseteq Int64
ASSUME VariablesAssumption == IsFiniteSet(Variables)
ASSUME BoundsAssumption   == MaxLoops \in Nat /\ MaxYields \in Nat

VARIABLES
  objects,     (* the value of each object that a variable holds           *)
  holds,       (* the object each variable holds                           *)
  range,       (* the RangeIterator that was made last                     *)
  loops,       (* the loops that run over it                               *)
  yielded,     (* history: the first MaxYields numbers it yielded, kept    *)
               (* while no sum wraps around                                *)
  ended,       (* history: it has thrown stop_iteration_exception          *)
  status       (* "running", "thrown" or "trapped"                         *)

vars == <<objects, holds, range, loops, yielded, ended, status>>

iteration == <<range, loops, yielded, ended>>

Ranges == [start : Int32, end : Int32, step : Int32, pos : Int32]

-----------------------------------------------------------------------------
(* Two's complement.  A sum beyond it is undefined; the build wraps around. *)
Wrap(n, half) == ((n + half) % (2 * half)) - half

Wrap64(n) == Wrap(n, Half64)

(* The int32_t parameter of create_integer; the ints of range, min and max. *)
Narrow(n) == Wrap(n, Half32)

(* Division of C: towards zero. *)
Magnitude(n) == IF n < 0 THEN -n ELSE n

Quotient(n, d) ==
  LET q == Magnitude(n) \div Magnitude(d) IN IF (n < 0) = (d < 0) THEN q ELSE -q

Remainder(n, d) == n - d * Quotient(n, d)

Compute(op, n, d) ==
  CASE op = "Add"  -> Wrap64(n + d)
    [] op = "Sub"  -> Wrap64(n - d)
    [] op = "Mult" -> Wrap64(n * d)
    [] op = "Div"  -> Wrap64(Quotient(n, d))
    [] op = "Mod"  -> Remainder(n, d)
    [] op = "Min"  -> IF n < d THEN n ELSE d
    [] op = "Max"  -> IF n > d THEN n ELSE d

Operators == {"Add", "Sub", "Mult", "Div", "Mod", "Min", "Max"}

InPlace == {"Add", "Sub", "Mult"}

Value(x) == objects[holds[x]]

(* Holding h, only the objects in use are kept: the others are freed. *)
Keep(h, values) ==
  /\ holds' = h
  /\ objects' = [o \in {h[x] : x \in Variables} |-> values[o]]

Rebind_FreesShared(x, v) ==
  LET used == {holds[y] : y \in Variables \ {x}}
      o    == CHOOSE y \in Variables : y \notin used
      h    == [holds EXCEPT ![x] = o] IN
  /\ holds' = h
  /\ objects' = [p \in {o} \cup ({h[y] : y \in Variables} \ {holds[x]}) |->
                   IF p = o THEN v ELSE objects[p]]

(* x is bound to a new object.  An object is named by a variable that      *)
(* held it when it was made, or by one of the others if that is in use.    *)
Rebind(x, v) ==
  LET used == {holds[y] : y \in Variables \ {x}}
      o    == CHOOSE y \in Variables : y \notin used IN
  Keep([holds EXCEPT ![x] = o], [y \in Variables |-> IF y = o THEN v ELSE objects[y]])

Init ==
  /\ holds = [x \in Variables |-> x]
  /\ objects \in [Variables -> Literals \cup Inputs]
  /\ range = [start |-> 0, end |-> 0, step |-> 0, pos |-> 0]
  /\ loops = 0 /\ yielded = <<>> /\ ended = FALSE
  /\ status = "running"

Running == status = "running" /\ UNCHANGED status

-----------------------------------------------------------------------------
Divides(op) == op \in {"Div", "Mod"}

(* The integers that an expression over the variables makes: a literal, a  *)
(* negation, an operation, or one of 64 bits that was not computed.        *)
Results ==
  Literals \cup Inputs
           \cup {Narrow(-Value(y)) : y \in Variables}
           \cup {Narrow(Compute(r[1], Value(r[2]), Value(r[3]))) :
                   r \in {q \in Operators \X Variables \X Variables :
                            ~(Divides(q[1]) /\ Value(q[3]) = 0)}}

(* x = expression. *)
Assign(x, v) == Running /\ Rebind(x, v) /\ UNCHANGED iteration

(* x = y, x = +y, x = int(y): no new object is made. *)
Copy(x, y) ==
  Running /\ Keep([holds EXCEPT ![x] = holds[y]], objects) /\ UNCHANGED iteration

Stop(s) == status = "running" /\ status' = s /\ UNCHANGED <<objects, holds, iteration>>

DivideByZero(z) == Value(z) = 0 /\ Stop("thrown")

(* The quotient is out of range: undefined, and a trap on many processors. *)
Overflow(y, z) == Value(y) = -Half64 /\ Value(z) = -1 /\ Stop("trapped")

(* x op= y. *)
Augment(x, op, y) ==
  /\ Running
  /\ objects' = [objects EXCEPT ![holds[x]] = Compute(op, @, Value(y))]
  /\ UNCHANGED holds /\ UNCHANGED iteration

-----------------------------------------------------------------------------
(* range(end), range(start, end), range(start, end, step): the numbers are *)
(* copied.  The range followed is the one made last while no loop ran over *)
(* the one before.                                                         *)
MakeRange(start, end, step) ==
  /\ Running
  /\ loops = 0
  /\ range' = [start |-> start, end |-> end, step |-> step, pos |-> start]
  /\ yielded' = <<>> /\ ended' = FALSE
  /\ UNCHANGED <<objects, holds, loops>>

BeginLoop ==
  /\ Running
  /\ loops < MaxLoops
  /\ loops' = loops + 1
  /\ UNCHANGED <<objects, holds, range, yielded, ended>>

(* No sum on the way to the end leaves the range of int32_t. *)
StaysInWidth == range.step > 0 /\ range.end + range.step <= Half32

Exhausted_AtEndOnly == range.pos = range.end

Exhausted == range.pos >= range.end

(* RangeIterator::next hands out a new object and moves on. *)
NextPos_FromVariable(x) == Narrow(Value(x) + range.step)

NextPos(x) == Narrow(range.pos + range.step)

(* One iteration of the innermost loop, whose variable is x. *)
Iterate(x) ==
  /\ Running
  /\ loops > 0 /\ ~Exhausted
  /\ Rebind(x, range.pos)
  /\ range' = [range EXCEPT !.pos = NextPos(x)]
  /\ yielded' = IF StaysInWidth /\ Len(yielded) < MaxYields THEN Append(yielded, range.pos)
                                                            ELSE yielded
  /\ UNCHANGED <<loops, ended>>

(* The innermost loop is left: at the end, by a break or by a return. *)
EndLoop ==
  /\ Running
  /\ loops > 0 /\ Exhausted
  /\ loops' = loops - 1
  /\ ended' = TRUE
  /\ UNCHANGED <<objects, holds, range, yielded>>

Break ==
  /\ Running
  /\ loops > 0
  /\ loops' = loops - 1
  /\ UNCHANGED <<objects, holds, range, yielded, ended>>

Done == status # "running" /\ UNCHANGED vars

Loop == EndLoop \/ \E x \in Variables : Iterate(x)

Assignment ==
  \E x \in Variables :
    \/ \E v \in Results : Assign(x, v)
    \/ DivideByZero(x)
    \/ \E y \in Variables :
         \/ Copy(x, y)
         \/ Overflow(x, y)
         \/ \E op \in InPlace : Augment(x, op, y)

Bounds == {Narrow(Value(x)) : x \in Variables} \cup Literals

NewRange ==
  \/ \E end \in Bounds : MakeRange(0, end, 1)
  \/ \E start, end \in Bounds : MakeRange(start, end, 1)
  \/ \E start, end \in Bounds, step \in Bounds \cap Steps : MakeRange(start, end, step)

Next == Assignment \/ NewRange \/ BeginLoop \/ Loop \/ Break \/ Done

Spec == Init /\ [][Next]_vars

(* The body of a loop comes to its end, and the loop then goes on. *)
FairSpec == Spec /\ WF_vars(Loop)

-----------------------------------------------------------------------------
(* IntVal, RangeIterator: widths are kept, and no variable is left with an *)
(* object that was freed.                                                  *)
TypeOK ==
  /\ holds \in [Variables -> Variables]
  /\ objects \in [{holds[x] : x \in Variables} -> Int64]
  /\ range \in Ranges
  /\ loops \in 0 .. MaxLoops
  /\ Len(yielded) <= MaxYields
  /\ status \in {"running", "thrown", "trapped"}

(* The k-th number of the range, without wrapping around. *)
Element(k) == range.start + (k - 1) * range.step

(* RangeIterator::next: whatever the bodies do to the loop variable, to    *)
(* the variables the range was made from and to those that share them, and *)
(* however the loops over one range are nested, left and begun again, it   *)
(* yields Python's numbers, once over all of these loops, and stops behind *)
(* the last of them.  (Python's range is not used up by a loop.)           *)
RangeIsPythons ==
  StaysInWidth =>
    /\ \A k \in DOMAIN yielded : yielded[k] = Element(k) /\ yielded[k] < range.end
    /\ ended /\ Len(yielded) < MaxYields => Element(Len(yielded) + 1) >= range.end

(* A loop over a range whose sums stay in width comes to its end: it does  *)
(* not step over it.                                                       *)
RangeEnds == (loops > 0 /\ StaysInWidth) ~> (loops = 0 \/ ended \/ status # "running")
=============================================================================
