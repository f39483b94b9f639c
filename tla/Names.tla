------------------------------- MODULE Names --------------------------------
(***************************************************************************)
(* Scopes and the names bound in them.  The scopes alive at any time form  *)
(* a chain: the global scope, and above it one scope per call and one per  *)
(* iteration of a loop, each with the scope below it as its parent.  So    *)
(* the parent of a function's scope is the scope it was CALLED from, not   *)
(* the one it was defined in.  A function's scope keeps what is assigned   *)
(* in it unless the name has a global tag there (m_require_global); a loop *)
(* body's scope hands on the names that any scope below it has.            *)
(*                                                                         *)
(* Control is abstracted to any order of assignments, calls, iterations    *)
(* and returns.  Values are references: what an assignment binds is one.   *)
(* An exception ends the program, and nothing is looked up after it.       *)
(*                                                                         *)
(* A definition named D_Flaw is not part of the model: it is D with one    *)
(* plausible programming error, for the mutation checks PROJECT.json lists.*)
(***************************************************************************)
EXTENDS Naturals, Sequences

CONSTANTS
  Identifiers,  (* the names of the program                                *)
  Builtins,     (* those of them get_value never looks for: range, len ... *)
  Values,       (* the objects                                             *)
  Unbound,      (* in place of a value: the scope has no such entry        *)
  Builtin,      (* what get_value makes for one of Builtins                *)
  MaxDepth      (* 128, the scope depth at which Scope's constructor throws*)

ASSUME BuiltinsAssumption == Builtins \subseteq Identifiers
ASSUME UnboundAssumption  == Unbound \notin Values
ASSUME MaxDepthAssumption == MaxDepth \in Nat \ {0}

VARIABLE scopes   (* the chain, scopes[1] the global scope                 *)

(* requires is m_require_global, values m_values, tags m_global_tags. *)
Bindings == [Identifiers -> Values \cup {Unbound}]

Scope == [requires : BOOLEAN, values : Bindings, tags : SUBSET Identifiers]

NoBindings == [n \in Identifiers |-> Unbound]

GlobalScope == [requires |-> FALSE, values |-> NoBindings, tags |-> {}]

-----------------------------------------------------------------------------
(* Scope::has_value of scope i, which asks its parents as well. *)
HasValue(ss, i, n) == \E j \in 1 .. i : ss[j].values[n] # Unbound

(* Scope::set_value leaves the assignment to the parent. *)
PassesOn_ParentOnly(ss, i, n) ==
  /\ i > 1
  /\ IF ss[i].requires THEN n \in ss[i].tags ELSE ss[i - 1].values[n] # Unbound

PassesOn_ParentsFirst(ss, i, n) ==
  /\ i > 1
  /\ HasValue(ss, i - 1, n) \/ (ss[i].requires /\ n \in ss[i].tags)

PassesOn(ss, i, n) ==
  /\ i > 1
  /\ IF ss[i].requires THEN n \in ss[i].tags ELSE HasValue(ss, i - 1, n)

(* The scope an assignment in the topmost scope arrives at. *)
Target(ss, n) ==
  CHOOSE i \in 1 .. Len(ss) :
    /\ ~PassesOn(ss, i, n)
    /\ \A j \in (i + 1) .. Len(ss) : PassesOn(ss, j, n)

SetValue(ss, n, v) == [ss EXCEPT ![Target(ss, n)].values[n] = v]

(* Scope::get_value: the innermost scope that has the name, Unbound when   *)
(* the code throws "No such value".                                        *)
Holders(ss, n) == {i \in 1 .. Len(ss) : ss[i].values[n] # Unbound}

Lookup_OuterFirst(ss, n) ==
  IF n \in Builtins           THEN Builtin
  ELSE IF Holders(ss, n) = {} THEN Unbound
  ELSE ss[CHOOSE i \in Holders(ss, n) : \A j \in Holders(ss, n) : j >= i].values[n]

Lookup(ss, n) ==
  IF n \in Builtins           THEN Builtin
  ELSE IF Holders(ss, n) = {} THEN Unbound
  ELSE ss[CHOOSE i \in Holders(ss, n) : \A j \in Holders(ss, n) : j <= i].values[n]

-----------------------------------------------------------------------------
(* The interpreter's constructor binds "store" here, as an assignment      *)
(* before any other would.                                                 *)
Init == scopes = <<GlobalScope>>

(* An assignment, a function definition or an import; at the top level,    *)
(* which holds nothing else, one of the latter two.                        *)
Assign(n, v) == scopes' = SetValue(scopes, n, v)

InFunction == Len(scopes) > 1

(* "m, n = v, w". *)
AssignPair(m, n, v, w) ==
  InFunction /\ scopes' = SetValue(SetValue(scopes, m, v), n, w)

(* "global n" tags the scope it is executed in, which in a loop is the     *)
(* body's.                                                                 *)
DeclareGlobal(n) ==
  /\ InFunction
  /\ scopes' = [scopes EXCEPT ![Len(scopes)].tags = @ \cup {n}]

(* Scope's constructor throws at the depth of 128. *)
Room_OffByOne == Len(scopes) <= MaxDepth

Room == Len(scopes) < MaxDepth

BodyScope == [requires |-> FALSE, values |-> NoBindings, tags |-> {}]

(* The scope of a call: the parameters are bound in it. *)
CalleeScope(args) == [requires |-> TRUE, values |-> args, tags |-> {}]

(* calldata from the global scope, a Call node from any other. *)
Call(args) == Room /\ scopes' = Append(scopes, CalleeScope(args))

(* One iteration: of a while loop, of a for loop or a list comprehension   *)
(* with one loop variable, of a for loop with two.                         *)
EnterWhile == InFunction /\ Room /\ scopes' = Append(scopes, BodyScope)

EnterFor(n, v) ==
  InFunction /\ Room /\ scopes' = SetValue(Append(scopes, BodyScope), n, v)

EnterForPair(m, n, v, w) ==
  /\ InFunction /\ Room
  /\ scopes' = SetValue(SetValue(Append(scopes, BodyScope), m, v), n, w)

(* The end of an iteration or of a call; a return inside a loop leaves the *)
(* bodies one by one.                                                      *)
Leave == InFunction /\ scopes' = SubSeq(scopes, 1, Len(scopes) - 1)

Next ==
  \/ \E n \in Identifiers, v \in Values : Assign(n, v) \/ EnterFor(n, v)
  \/ \E m, n \in Identifiers, v, w \in Values :
       AssignPair(m, n, v, w) \/ EnterForPair(m, n, v, w)
  \/ \E n \in Identifiers : DeclareGlobal(n)
  \/ \E args \in Bindings : Call(args)
  \/ EnterWhile
  \/ Leave

Spec == Init /\ [][Next]_scopes

-----------------------------------------------------------------------------
(* Scope's constructor: the chain begins with the global scope and is no   *)
(* longer than the depth limit.                                            *)
TypeOK ==
  /\ scopes \in Seq(Scope)
  /\ Len(scopes) \in 1 .. MaxDepth
  /\ scopes[1].requires = FALSE

(* Scope::set_value: a loop body only ever holds names that no scope below *)
(* it has, over all functions in between.  If it held one more, has_value  *)
(* and get_value would answer for different variables.                     *)
BodyNamesAreNew ==
  \A i, j \in 1 .. Len(scopes), n \in Identifiers :
    j < i /\ ~scopes[i].requires /\ scopes[i].values[n] # Unbound
      => scopes[j].values[n] = Unbound

(* A function that was called changes a variable of any scope it was       *)
(* called from only if it and every other function on the way declared the *)
(* name global (test/functions.cpp:83 tests a single function).            *)
VariablesKept ==
  \A i \in 1 .. Len(scopes), n \in Identifiers :
    /\ i <= Len(scopes')
    /\ scopes'[i].values[n] # scopes[i].values[n]
    => \A j \in (i + 1) .. Len(scopes) : scopes[j].requires => n \in scopes[j].tags

CalleesKeepVariables == [][VariablesKept]_scopes

(* A function that has bound the name before it declares it global, which  *)
(* the parser only warns of, goes on reading its own variable.             *)
Shadowed(n) ==
  \E i \in 1 .. Len(scopes) :
    scopes[i].requires /\ n \in scopes[i].tags /\ scopes[i].values[n] # Unbound

(* set_value and get_value walk the chain by different rules; a variable   *)
(* that was assigned nevertheless reads as what was assigned to it.        *)
AssignedIsRead ==
  \A n \in Identifiers \ Builtins, v \in Values :
    Assign(n, v) /\ ~Shadowed(n) => Lookup(scopes', n) = v

ReadsWhatWasAssigned == [][AssignedIsRead]_scopes
=============================================================================
