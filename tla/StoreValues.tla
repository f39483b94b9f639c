---------------------------- MODULE StoreValues -----------------------------
(***************************************************************************)
(* The values a contract may keep between transactions, and the arithmetic *)
(* of "store[key] op= number".  A value is a type tag and an opaque datum; *)
(* only integers are ever computed with.                                   *)
(*                                                                         *)
(* A definition named D_Flaw here and in the modules that extend this one  *)
(* is not part of the model: it is D with one plausible programming error, *)
(* for the mutation checks PROJECT.json lists.                             *)
(***************************************************************************)
EXTENDS Integers

CONSTANTS
  Keys,         (* the keys of the store                                   *)
  Tokens,       (* opaque contents of strings                              *)
  Doubles,      (* doubles, numbered so that the even ones are floats too  *)
  HalfRange     (* an int64_t ranges over -HalfRange .. HalfRange - 1      *)

(* unpack_float returns a float: a double loses the precision a float     *)
(* does not have.                                                          *)
Narrow(d) == d - (d % 2)

ASSUME TokensAssumption    == Tokens \subseteq Int
ASSUME DoublesAssumption   == Doubles \subseteq Int /\ \A d \in Doubles : Narrow(d) \in Doubles
ASSUME HalfRangeAssumption == HalfRange \in Nat \ {0}

Int64 == -HalfRange .. HalfRange - 1

(* Two's complement: what the build leaves of a result out of range. *)
Wrap(n) == ((n + HalfRange) % (2 * HalfRange)) - HalfRange

Flags == {0, 1}

Integer(n) == [type |-> "Integer", data |-> n]

(* The nullptr of a key that is not in the store. *)
Absent == [type |-> "Absent", data |-> 0]

Storable ==
       [type : {"String"}, data : Tokens]
  \cup [type : {"Float"}, data : Doubles]
  \cup [type : {"Integer"}, data : Int64]
  \cup [type : {"Bool"}, data : Flags]

(* The doubles that are floats. *)
Floats == {Narrow(d) : d \in Doubles}

Stored_KeepsDoubles(v) == v

(* What is left of a value once it has passed through its unpack_ helper. *)
Stored(v) == IF v.type = "Float" THEN [v EXCEPT !.data = Narrow(v.data)] ELSE v

(* Lists, dictionaries, None, functions: nothing the store can keep. *)
Unstorable == [type : {"Other"}, data : {0}]

Values == Storable \cup Unstorable

Operators == {"Add", "Sub", "Mult", "Div"}

Supported == {"Add", "Sub", "Mult"}

(* "store[key] = value", or "store[key] op= value". *)
Requests == [key : Keys, value : Values, op : Operators \cup {"Assign"}]

NoRequest == [op |-> "None"]

(* The switch of PersistableDictionary::apply. *)
Compute(op, target, n) ==
  Wrap(CASE op = "Add"  -> n + target
         [] op = "Sub"  -> target - n
         [] op = "Mult" -> target * n
         [] OTHER       -> target)
=============================================================================
