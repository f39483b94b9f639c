-------------------------- MODULE AbstractContract --------------------------
(***************************************************************************)
(* What persistence promises a contract: a dictionary that lives through   *)
(* its transactions.  A transaction starts from the saved dictionary and   *)
(* works on a copy; when it is over, the host saves what it left, or does  *)
(* not.                                                                    *)
(***************************************************************************)
EXTENDS StoreValues

VARIABLES
  dict,       (* what reading each key returns                             *)
  saved,      (* what it would return in a new transaction                 *)
  running     (* whether a transaction is under way                        *)

Init == dict = [k \in Keys |-> Absent] /\ saved = dict /\ running = FALSE

(* A transaction starts, or is refused. *)
Load == ~running /\ dict' = saved /\ running' \in BOOLEAN /\ UNCHANGED saved

(* One key at a time; to what, AbstractStore says. *)
Work ==
  /\ running
  /\ \E k \in Keys, v \in Storable : dict' = [dict EXCEPT ![k] = v]
  /\ UNCHANGED <<saved, running>>

Stop == running /\ running' = FALSE /\ UNCHANGED <<dict, saved>>

Save == ~running /\ saved' = dict /\ UNCHANGED <<dict, running>>

Next == Load \/ Work \/ Stop \/ Save

Spec == Init /\ [][Next]_<<dict, saved, running>>
=============================================================================
