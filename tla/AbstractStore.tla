--------------------------- MODULE AbstractStore ----------------------------
(***************************************************************************)
(* What the store promises a contract: one dictionary.  An assignment puts *)
(* the value under its key, a float in single precision, and is refused    *)
(* only for a type the store has no room for.  An augmented assignment     *)
(* replaces an integer by the result, a missing key counting as zero, or   *)
(* is refused.  A refused request changes nothing.                         *)
(***************************************************************************)
EXTENDS StoreValues

VARIABLES
  dict,        (* the value, or Absent, that reading each key returns      *)
  request,     (* the latest request                                       *)
  accepted     (* whether it was accepted                                  *)

Init ==
  /\ dict = [k \in Keys |-> Absent]
  /\ request = NoRequest
  /\ accepted = TRUE

CanPut(r) == r.op = "Assign" /\ r.value \in Storable

Put(r) == CanPut(r) /\ dict' = [dict EXCEPT ![r.key] = Stored(r.value)]

Update(r) ==
  /\ r.op \in Supported
  /\ r.value.type = "Integer"
  /\ dict[r.key].type \in {"Integer", "Absent"}
  /\ dict' = [dict EXCEPT ![r.key] = Integer(Compute(r.op, dict[r.key].data, r.value.data))]

Accept(r) == accepted' = TRUE /\ (Put(r) \/ Update(r))

Refuse(r) == accepted' = FALSE /\ ~CanPut(r) /\ UNCHANGED dict

Next == \E r \in Requests : request' = r /\ (Accept(r) \/ Refuse(r))

Spec == Init /\ [][Next]_<<dict, request, accepted>>
=============================================================================
