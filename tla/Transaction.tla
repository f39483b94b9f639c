---------------------------- MODULE Transaction -----------------------------
(***************************************************************************)
(* A contract over its transactions: execute_program.  Each transaction    *)
(* has a fresh interpreter, a store filled from the serialised one the     *)
(* host passes in, a budget of steps bought with gas, and the ledger of    *)
(* the blockchain module, whose state is global and outlives it.  Whatever *)
(* ends the transaction, the store is serialised as it then is.            *)
(*                                                                         *)
(* The store is an instance of Storage, the ledger is that of Ledger, and  *)
(* the step count is the one of the innermost interpreter of Calls.        *)
(*                                                                         *)
(* A definition named D_Flaw is not part of the model: it is D with one    *)
(* plausible programming error, for the mutation checks PROJECT.json lists.*)
(***************************************************************************)
EXTENDS StoreValues, Ledger

CONSTANTS
  Gases,       (* amounts of gas the host offers, of a uint64_t            *)
  Prices,      (* gas prices; the code divides by the price                *)
  Word32       (* a uint32_t ranges over 0 .. Word32 - 1                   *)

ASSUME GasAssumption    == Gases \subseteq Nat
ASSUME PriceAssumption  == Word32 \in Nat \ {0} /\ Prices \subseteq 1 .. Word32 - 1

VARIABLES
  strings, ints, doubles, bools, outcome,          (* the store            *)
  gas, gasprice,                                   (* what the host offers *)
  num,         (* num_execution_steps of the innermost interpreter         *)
  used_g,      (* the host's reference parameter                           *)
  rc,          (* the result of execute_program, "none" while it runs,     *)
               (* "refused" when it threw, "idle" before the first         *)
  kept         (* the serialised store the host keeps                      *)

store  == <<strings, ints, doubles, bools, outcome>>
offer  == <<gas, gasprice>>
vars   == <<store, ledger, offer, num, used_g, rc, kept>>

Store == INSTANCE Storage WITH request <- NoRequest

(* The store as the host's copy would be read. *)
Kept == INSTANCE Storage WITH strings <- kept.strings, ints <- kept.ints,
                              doubles <- kept.doubles, bools <- kept.bools,
                              request <- NoRequest

Running == status = "running"

Codes == {"0", "0x70", "0x69", "0x71", "0x80"}

Ended == rc \in Codes

-----------------------------------------------------------------------------
(* Both are computed in 32 bits. *)
Limit == (gas \div gasprice) % Word32

Bill_Wide == num * gasprice

Bill == (num * gasprice) % Word32

ReturnCode ==
  CASE status = "returned"    -> "0"
    [] status = "out_of_gas"  -> "0x70"
    [] status = "suicided"    -> "0x69"
    [] status = "reverted"    -> "0x71"
    [] OTHER                  -> "0x80"

Serialised == [strings |-> strings, ints |-> ints, doubles |-> doubles, bools |-> bools]

Restore_ForgetsFlags ==
  /\ strings' = kept.strings /\ ints' = kept.ints /\ doubles' = kept.doubles
  /\ UNCHANGED bools

Restore ==
  /\ strings' = kept.strings /\ ints' = kept.ints
  /\ doubles' = kept.doubles /\ bools' = kept.bools

(* A double that was cut to an infinite float is serialised as a word that *)
(* the archive does not read back.  Which doubles those are is left open.  *)
Unreadable == \E k \in Keys : k \in DOMAIN kept.doubles

-----------------------------------------------------------------------------
(* Before the first transaction: no store, and a ledger no program reads. *)
Init ==
  /\ Store!Init
  /\ contract_balance = 0 /\ funds = 0 /\ send_map = [a \in {} |-> 0]
  /\ status = "returned"
  /\ gas \in Gases /\ gasprice \in Prices
  /\ num = 0 /\ used_g = 0 /\ rc = "idle"
  /\ kept = Serialised

(* Refused by an exception that leaves execute_program: nothing is         *)
(* serialised or billed, but the ledger is already reset.                  *)
Refuse_KeepsPayments(b) ==
  /\ contract_balance' = b /\ funds' = b /\ UNCHANGED send_map
  /\ status' = "no_limit" /\ rc' = "refused"

Refuse(b) ==
  /\ contract_balance' = b /\ funds' = b /\ send_map' = [a \in {} |-> 0]
  /\ status' = "no_limit" /\ rc' = "refused"

(* execute_program up to the try block, outside of which the load of the   *)
(* kept store and a limit of zero throw.  A store whose load fails half    *)
(* way is filled all the same here: it goes away with its interpreter, and *)
(* nothing reads it again.                                                 *)
Begin(b, g, p) ==
  /\ rc # "none"
  /\ gas' = g /\ gasprice' = p
  /\ Restore /\ outcome' = "ok"
  /\ num' = 0
  /\ \/ (Limit' = 0 \/ Unreadable) /\ Refuse(b)
     \/ Limit' # 0 /\ Reset(b) /\ rc' = "none"
  /\ UNCHANGED <<used_g, kept>>

(* What a program does costs a step, and is done if there is one left. *)
Affordable_Late == num < Limit

Affordable == num + 1 < Limit

Pay == Running /\ Affordable /\ num' = num + 1 /\ UNCHANGED <<offer, used_g, rc, kept>>

Calculate == Pay /\ UNCHANGED <<store, ledger>>

(* An error of any other kind: a wrong type, an unknown name or index. *)
RunTimeError ==
  /\ Pay
  /\ status' = "failed"
  /\ UNCHANGED <<store, contract_balance, send_map, funds>>

(* A request the store refuses is an exception nobody catches before       *)
(* execute_program does.                                                   *)
UseStore ==
  /\ Pay
  /\ \E r \in Requests : Store!Serve(r)
  /\ status' = IF outcome' = "ok" THEN "running" ELSE "store_error"
  /\ UNCHANGED <<contract_balance, send_map, funds>>

UseMoney == Pay /\ LedgerNext /\ UNCHANGED store

(* The charge that reaches the limit throws. *)
OutOfGas ==
  /\ Running /\ ~Affordable
  /\ num' = num + 1
  /\ status' = "out_of_gas"
  /\ UNCHANGED <<store, contract_balance, send_map, funds, offer, used_g, rc, kept>>

(* An inner call returns: its caller goes on from its own, smaller count. *)
CallReturns ==
  /\ Running
  /\ num' \in 1 .. num - 1
  /\ UNCHANGED <<store, ledger, offer, used_g, rc, kept>>

(* The end of the try block, or one of its handlers. *)
Finish ==
  /\ ~Running /\ rc = "none"
  /\ used_g' = Bill
  /\ rc' = ReturnCode
  /\ UNCHANGED <<store, ledger, offer, num, kept>>

(* The host decides, whatever the result, to keep what was serialised. *)
Keep ==
  /\ Ended
  /\ kept' = Serialised
  /\ UNCHANGED <<store, ledger, offer, num, used_g, rc>>

Next ==
  \/ \E b \in Words, g \in Gases, p \in Prices : Begin(b, g, p)
  \/ Calculate \/ RunTimeError \/ UseStore \/ UseMoney \/ OutOfGas \/ CallReturns
  \/ Finish \/ Keep

Spec == Init /\ [][Next]_vars

-----------------------------------------------------------------------------
(* The parts are well formed, and the bill is a 32-bit number. *)
TypeOK ==
  /\ Store!TypeOK /\ Kept!TypeOK
  /\ contract_balance \in Words
  /\ num \in Nat /\ used_g \in 0 .. Word32 - 1
  /\ rc \in Codes \cup {"idle", "none", "refused"}

(* The host never bills more gas than was offered, although the limit and  *)
(* the bill are both cut to 32 bits; and the steps billed are the whole    *)
(* limit exactly for a program that ran out of gas, however its inner      *)
(* calls returned.  (The bill itself is cut, and may be less than those    *)
(* steps cost.)                                                            *)
BilledWithinGas ==
  Ended =>
    /\ used_g <= gas
    /\ num <= Limit
    /\ num = Limit <=> rc = "0x70"

(* In whatever way a transaction ends, and however the one before it       *)
(* ended, the payments the host finds add up, with the balance, to what    *)
(* this transaction started with; a refused one pays nothing.              *)
AccountsBalance ==
  /\ Conserved
  /\ rc = "refused" => DOMAIN send_map = {}

(* Over any number of transactions, kept or dropped, reading the store is  *)
(* reading one dictionary: serialising, loading and the flags that remove  *)
(* leaves behind never change an answer.                                   *)
Contract ==
  INSTANCE AbstractContract WITH dict  <- [k \in Keys |-> Store!Get(k)],
                                 saved <- [k \in Keys |-> Kept!Get(k)],
                                 running <- Running

ImplementsContract == Contract!Spec
=============================================================================
