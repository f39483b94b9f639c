------------------------------ MODULE Storage -------------------------------
(***************************************************************************)
(* PersistableDictionary: the contract's "store".  It keeps four maps, one *)
(* for each type it can serialise, and a key is read from the first map    *)
(* that holds it, in the order string, integer, float, bool.               *)
(***************************************************************************)
EXTENDS StoreValues

VARIABLES
  strings,      (* m_elements_string                                       *)
  ints,         (* m_elements_int                                          *)
  doubles,      (* m_elements_double                                       *)
  bools,        (* m_elements_bool                                         *)
  outcome,      (* how the latest operation ended                          *)
  request       (* history: what the latest operation was asked to do      *)

maps == <<strings, ints, doubles, bools>>
vars == <<strings, ints, doubles, bools, outcome, request>>

Outcomes == {"ok", "unsupported_type", "not_numeric", "unknown_operator"}

-----------------------------------------------------------------------------
Empty == [k \in {} |-> 0]

Has(map, k) == k \in DOMAIN map

Without(map, k) == [j \in DOMAIN map \ {k} |-> map[j]]

With(map, k, d) == [j \in DOMAIN map \cup {k} |-> IF j = k THEN d ELSE map[j]]

(* get: the first map that holds the key answers. *)
Get(k) ==
  IF Has(strings, k)      THEN [type |-> "String",  data |-> strings[k]]
  ELSE IF Has(ints, k)    THEN Integer(ints[k])
  ELSE IF Has(doubles, k) THEN [type |-> "Float",   data |-> doubles[k]]
  ELSE IF Has(bools, k)   THEN [type |-> "Bool",    data |-> bools[k]]
  ELSE Absent

(* remove(key), then the assignment to the map of the value's type.        *)
(* remove erases from the string, integer and float maps only.             *)
Replace(k, v) ==
  LET Put(map, type) == IF v.type = type THEN With(map, k, v.data) ELSE Without(map, k)
  IN  /\ strings' = Put(strings, "String")
      /\ ints'    = Put(ints, "Integer")
      /\ doubles' = Put(doubles, "Float")
      /\ bools'   = IF v.type = "Bool" THEN With(bools, k, v.data) ELSE bools

Refuse(why) == outcome' = why /\ UNCHANGED maps

-----------------------------------------------------------------------------
Init ==
  /\ strings = Empty /\ ints = Empty /\ doubles = Empty /\ bools = Empty
  /\ outcome = "ok"
  /\ request = NoRequest

(* insert of a value the store has a map for. *)
Insert(k, v) ==
  /\ v \in Storable
  /\ Replace(k, Stored(v))
  /\ outcome' = "ok"

(* insert of any other value: thrown before anything is removed. *)
InsertUnsupported(k, v) == v \in Unstorable /\ Refuse("unsupported_type")

NotNumeric_IgnoresFloats(k, v) ==
  \/ Has(bools, k) \/ Has(strings, k)
  \/ v.type # "Integer"

(* The checks of apply, in the map of every other type and on the operand. *)
NotNumeric(k, v) ==
  \/ Has(bools, k) \/ Has(doubles, k) \/ Has(strings, k)
  \/ v.type # "Integer"

Target_NoDefault(k) == IF Has(ints, k) THEN ints[k] ELSE 1

Target(k) == IF Has(ints, k) THEN ints[k] ELSE 0

(* apply that computes a new integer, from zero when the key is missing. *)
Apply(k, v, op) ==
  /\ ~NotNumeric(k, v)
  /\ op \in Supported
  /\ ints' = With(ints, k, Compute(op, Target(k), v.data))
  /\ outcome' = "ok"
  /\ UNCHANGED <<strings, doubles, bools>>

ApplyNotNumeric(k, v, op) == NotNumeric(k, v) /\ Refuse("not_numeric")

ApplyUnknown(k, v, op) ==
  /\ ~NotNumeric(k, v)
  /\ op \notin Supported
  /\ Refuse("unknown_operator")

Assign(k, v) == Insert(k, v) \/ InsertUnsupported(k, v)

Augment(k, v, op) ==
  Apply(k, v, op) \/ ApplyNotNumeric(k, v, op) \/ ApplyUnknown(k, v, op)

(* Interpreter::execute_next, on the two kinds of statement. *)
Serve(r) ==
  \/ r.op = "Assign" /\ Assign(r.key, r.value)
  \/ r.op \in Operators /\ Augment(r.key, r.value, r.op)

Next == \E r \in Requests : Serve(r) /\ request' = r

Spec == Init /\ [][Next]_vars

-----------------------------------------------------------------------------
IsMap(map, range) ==
  /\ DOMAIN map \subseteq Keys
  /\ map = [k \in DOMAIN map |-> map[k]]
  /\ \A k \in DOMAIN map : map[k] \in range

MapsOK ==
  /\ IsMap(strings, Tokens)
  /\ IsMap(ints, Int64)
  /\ IsMap(doubles, Floats)
  /\ IsMap(bools, Flags)
  /\ outcome \in Outcomes

(* Each map holds data of its own type, that of doubles only floats, since *)
(* insert unpacks its value as a float.                                    *)
TypeOK == MapsOK /\ request \in Requests \cup {NoRequest}

(* A key is in at most one of the string, integer and float maps, so the   *)
(* order in which get looks and the order in which a reload fills the maps *)
(* do not decide what a contract reads.                                    *)
OneTypePerKey ==
  \A k \in Keys :
    /\ ~(Has(strings, k) /\ Has(ints, k))
    /\ ~(Has(strings, k) /\ Has(doubles, k))
    /\ ~(Has(ints, k) /\ Has(doubles, k))

(* Although a flag stays in the bool map when a value of another type      *)
(* replaces it, what reading every key returns changes exactly as in one   *)
(* dictionary does under the same requests: the old flag is never read     *)
(* again, an accepted assignment or update is what the next read returns,  *)
(* and a refused one changes no answer.                                    *)
Abstract ==
  INSTANCE AbstractStore WITH dict     <- [k \in Keys |-> Get(k)],
                              accepted <- outcome = "ok"

ImplementsDictionary == Abstract!Spec
=============================================================================
