------------------------------- MODULE Ledger -------------------------------
(***************************************************************************)
(* The money a contract moves in one transaction: blockchain.send,         *)
(* blockchain.suicide and blockchain.revert.  contract_balance is what the *)
(* contract still owns, send_map what each receiver is to be paid; both    *)
(* are unsigned words, and the host reads both when the transaction ends.  *)
(* Any exception ends the transaction: the language cannot catch one.      *)
(* Transaction extends this module, so names both would have begin with    *)
(* Ledger here.                                                            *)
(*                                                                         *)
(* A definition named D_Flaw is not part of the model: it is D with one    *)
(* plausible programming error, for the mutation checks PROJECT.json lists.*)
(***************************************************************************)
EXTENDS Integers, Functions

CONSTANTS
  ValidAddresses,    (* strings addr_check accepts                         *)
  InvalidAddresses,  (* strings it does not, the empty one among them      *)
  HalfWord           (* a uint64_t ranges over 0 .. 2 * HalfWord - 1       *)

ASSUME HalfWordAssumption == HalfWord \in Nat \ {0}

VARIABLES
  contract_balance,  (* cow::contract_balance                              *)
  send_map,          (* cow::send_map: receiver |-> amount                 *)
  funds,             (* the balance the host passed in                     *)
  status             (* "running", or how the transaction ended            *)

ledger == <<contract_balance, send_map, funds, status>>

Addresses == ValidAddresses \cup InvalidAddresses

Word == 2 * HalfWord

Words == 0 .. Word - 1

(* The amounts a contract can name: unpack_integer returns an int64_t. *)
Amounts == -HalfWord .. HalfWord - 1

Endings == {"returned", "bad_address", "bad_amount", "receiver_overflow",
            "sender_overflow", "suicide_overflow", "suicided", "reverted"}

-----------------------------------------------------------------------------
(* it->second += n for a receiver already in the map, in 64 bits; a new    *)
(* entry otherwise.                                                        *)
Credit_Overwrites(a, n) ==
  [b \in DOMAIN send_map \cup {a} |-> IF b = a THEN n ELSE send_map[b]]

Credit(a, n) ==
  [b \in DOMAIN send_map \cup {a} |->
     IF b # a                    THEN send_map[b]
     ELSE IF a \in DOMAIN send_map THEN (send_map[a] + n) % Word
     ELSE n]

(* The overflow check after the addition: the sum did not grow. *)
CreditOverflows(a, n) ==
  a \in DOMAIN send_map /\ Credit(a, n)[a] <= send_map[a]

Debit_TakesFee(n) == contract_balance - n - 1

Debit(n) == (contract_balance - n) % Word

Fail(why) == status' = why /\ UNCHANGED <<contract_balance, send_map, funds>>

-----------------------------------------------------------------------------
LedgerInit ==
  /\ contract_balance \in Words
  /\ funds = contract_balance
  /\ send_map = [a \in {} |-> 0]
  /\ status = "running"

(* execute_program, before the program runs. *)
Reset_KeepsPayments(b) ==
  /\ status # "running"
  /\ contract_balance' = b
  /\ funds' = b
  /\ UNCHANGED send_map
  /\ status' = "running"

Reset(b) ==
  /\ status # "running"
  /\ contract_balance' = b
  /\ funds' = b
  /\ send_map' = [a \in {} |-> 0]
  /\ status' = "running"

(* The called function returned. *)
Return == status = "running" /\ Fail("returned")

SendBadAddress(a) ==
  /\ status = "running"
  /\ a \notin ValidAddresses
  /\ Fail("bad_address")

BadAmount_OffByOne(v) == v <= 0 \/ v > contract_balance + 1

BadAmount_AcceptsNegative(v) == v = 0 \/ v > contract_balance

BadAmount(v) == v <= 0 \/ v > contract_balance

SendBadAmount(a, v) ==
  /\ status = "running"
  /\ a \in ValidAddresses
  /\ BadAmount(v)
  /\ Fail("bad_amount")

(* send: the receiver is credited before the balance is reduced, and each  *)
(* addition is checked for overflow only after it was made.                *)
Send(a, v) ==
  /\ status = "running"
  /\ a \in ValidAddresses
  /\ ~BadAmount(v)
  /\ send_map' = Credit(a, v)
  /\ IF CreditOverflows(a, v)
       THEN status' = "receiver_overflow" /\ UNCHANGED contract_balance
       ELSE /\ contract_balance' = Debit(v)
            /\ status' = IF Debit(v) >= contract_balance THEN "sender_overflow" ELSE "running"
  /\ UNCHANGED funds

(* suicide: any string is accepted as the receiver. *)
Suicide(a) ==
  /\ status = "running"
  /\ send_map' = Credit(a, contract_balance)
  /\ IF CreditOverflows(a, contract_balance)
       THEN status' = "suicide_overflow" /\ UNCHANGED contract_balance
       ELSE status' = "suicided" /\ contract_balance' = 0
  /\ UNCHANGED funds

(* revert: nothing is taken back. *)
Revert == status = "running" /\ Fail("reverted")

LedgerNext ==
  \/ \E b \in Words : Reset(b)
  \/ Return
  \/ Revert
  \/ \E a \in Addresses : Suicide(a) \/ SendBadAddress(a)
  \/ \E a \in Addresses, v \in Amounts : SendBadAmount(a, v) \/ Send(a, v)

LedgerSpec == LedgerInit /\ [][LedgerNext]_ledger

-----------------------------------------------------------------------------
(* Balances and payments are words, and only known strings are receivers.  *)
LedgerTypeOK ==
  /\ contract_balance \in Words
  /\ funds \in Words
  /\ DOMAIN send_map \subseteq Addresses
  /\ send_map = [a \in DOMAIN send_map |-> send_map[a]]
  /\ \A a \in DOMAIN send_map : send_map[a] \in Words
  /\ status \in Endings \cup {"running"}

(* No receiver is promised more than the contract has parted with: what    *)
(* keeps 64 bits wide enough for every addition send and suicide make.     *)
NoReceiverExceedsSpent ==
  /\ contract_balance <= funds
  /\ \A a \in DOMAIN send_map : send_map[a] + contract_balance <= funds

(* Money is neither made nor lost: the payments and the remaining balance  *)
(* always add up to what the contract started the transaction with,        *)
(* whichever way it ends and however often a receiver is paid.             *)
Conserved ==
  contract_balance + FoldFunction(LAMBDA x, y : x + y, 0, send_map) = funds

(* The two overflow errors of send are never raised: the amount was found  *)
(* to be at most the balance before the sums are made.                     *)
SendNeverOverflows == status \notin {"receiver_overflow", "sender_overflow"}

(* Within a transaction a payment once promised is never reduced, and the  *)
(* balance never grows.                                                    *)
PaymentsOnlyGrow ==
  [][status = "running" =>
       /\ contract_balance' <= contract_balance
       /\ \A a \in DOMAIN send_map : a \in DOMAIN send_map' /\ send_map'[a] >= send_map[a]]_ledger
=============================================================================
