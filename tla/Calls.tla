------------------------------- MODULE Calls --------------------------------
(***************************************************************************)
(* Nested interpreters and the step limit.  Calling a function of the      *)
(* program creates an Interpreter of its own, which starts from a copy of  *)
(* the caller's step count; an exception travels up through all of them.   *)
(* frames holds the step count and the scope depth of each; frames[1] is   *)
(* the interpreter the host created, whose count is what is billed.        *)
(*                                                                         *)
(* The program itself is abstracted: at any point it may execute a node,   *)
(* enter or leave a loop body, call a function of the program or of a      *)
(* module, return, or raise an error.                                      *)
(*                                                                         *)
(* A definition named D_Flaw is not part of the model: it is D with one    *)
(* plausible programming error, for the mutation checks PROJECT.json lists.*)
(***************************************************************************)
EXTENDS Naturals, Sequences

CONSTANTS
  Limit,       (* m_execution_step_limit; set_execution_step_limit refuses 0 *)
  MaxDepth     (* 128, the scope depth at which Scope's constructor throws   *)

ASSUME LimitAssumption    == Limit \in Nat \ {0}
ASSUME MaxDepthAssumption == MaxDepth \in Nat \ {0}

VARIABLES
  frames,      (* the interpreters, the host's first                        *)
  status,      (* "running", "throwing" or "done"                           *)
  why,         (* the exception that is or was thrown, "none" without one   *)
  executed     (* history: charges made so far over all interpreters,       *)
               (* counted up to one more than Limit                         *)

vars == <<frames, status, why, executed>>

Exceptions == {"out_of_gas", "depth", "error"}

(* num is m_num_execution_steps; base and depth are the scope depth of the *)
(* frame's first scope and of its current one; fresh until the first node  *)
(* of the body is executed.                                                *)
Frame == [num : Nat, base : Nat, depth : Nat, fresh : BOOLEAN]

Top == frames[Len(frames)]

SetTop(f) == [frames EXCEPT ![Len(frames)] = f]

Throw(e) == status' = "throwing" /\ why' = e

-----------------------------------------------------------------------------
(* CHARGE_EXECUTION: the count is raised first and compared after.         *)
OutOfGas_Late(n) == n > Limit

OutOfGas(n) == n >= Limit

Charged_Free == [Top EXCEPT !.fresh = FALSE]

Charged == [num |-> Top.num + 1, base |-> Top.base, depth |-> Top.depth, fresh |-> FALSE]

Counted == executed' = IF executed <= Limit THEN executed + 1 ELSE executed

(* Scope's constructor refuses the scope that would be this deep. *)
TooDeep_OffByOne(d) == d > MaxDepth

TooDeep(d) == d >= MaxDepth

Init ==
  /\ frames = <<[num |-> 0, base |-> 0, depth |-> 0, fresh |-> TRUE]>>
  /\ status = "running"
  /\ why = "none"
  /\ executed = 0

(* Any charge of execute_next or skip_next: one node, one list element. *)
Charge ==
  /\ status = "running"
  /\ frames' = SetTop(Charged)
  /\ Counted
  /\ IF OutOfGas(Charged.num) THEN Throw("out_of_gas") ELSE UNCHANGED <<status, why>>

(* A node is charged, then a scope is made one level below the current     *)
(* one; frames become next when neither throws.                            *)
OpenScope(next) ==
  /\ Counted
  /\ IF OutOfGas(Charged.num)       THEN Throw("out_of_gas") /\ frames' = SetTop(Charged)
     ELSE IF TooDeep(Top.depth + 1) THEN Throw("depth") /\ frames' = SetTop(Charged)
     ELSE frames' = next /\ UNCHANGED <<status, why>>

(* The top level of a program holds neither loops nor calls. *)
InFunction_OrTopLevel == status = "running" /\ ~Top.fresh

InFunction == status = "running" /\ Len(frames) > 1 /\ ~Top.fresh

(* One iteration of a while loop, a for loop or a list comprehension. *)
EnterLoopBody ==
  /\ InFunction
  /\ OpenScope(SetTop([Charged EXCEPT !.depth = @ + 1]))

LeaveLoopBody ==
  /\ InFunction
  /\ Top.depth > Top.base
  /\ frames' = SetTop([Top EXCEPT !.depth = @ - 1])
  /\ UNCHANGED <<status, why, executed>>

(* The scope and the interpreter of a call; the count is handed on. *)
Callee_FreshCount(num) ==
  [num |-> 0, base |-> Top.depth + 1, depth |-> Top.depth + 1, fresh |-> TRUE]

Callee(num) ==
  [num |-> num, base |-> Top.depth + 1, depth |-> Top.depth + 1, fresh |-> TRUE]

(* A Call node of a function of the program, at the node that names the    *)
(* callee; the Call node itself and the arguments are charged by Charge.   *)
Call ==
  /\ InFunction
  /\ OpenScope(Append(SetTop(Charged), Callee(Charged.num)))

(* A Call node of a module's function, which has a scope of its own but no *)
(* interpreter; what else it may raise is Raise.                           *)
CallNative ==
  /\ InFunction
  /\ OpenScope(SetTop(Charged))

(* calldata of a function of the program, once the top level has been      *)
(* executed.                                                               *)
Calldata ==
  /\ status = "running"
  /\ Len(frames) = 1 /\ ~Top.fresh
  /\ IF TooDeep(Top.depth + 1)
       THEN Throw("depth") /\ UNCHANGED frames
       ELSE frames' = Append(frames, Callee(Top.num)) /\ UNCHANGED <<status, why>>
  /\ UNCHANGED executed

(* calldata of a module's function, or of a builtin, which has no scope:   *)
(* no interpreter is made, and the answer is there when it returns.        *)
CalldataNative ==
  /\ status = "running"
  /\ Len(frames) = 1 /\ ~Top.fresh
  /\ IF TooDeep(Top.depth + 1)
       THEN Throw("depth")
       ELSE status' = "done" /\ UNCHANGED why
  /\ UNCHANGED <<frames, executed>>

(* The body is finished.  calldata stores the callee's count in the first  *)
(* frame; a Call node does not: its caller goes on from its own count.     *)
AfterReturn(caller, callee) ==
  IF Len(frames) = 2 THEN [caller EXCEPT !.num = callee.num] ELSE caller

Return ==
  /\ InFunction
  /\ Top.depth = Top.base
  /\ LET n == Len(frames) - 1 IN
       /\ frames' = [SubSeq(frames, 1, n) EXCEPT ![n] = AfterReturn(@, Top)]
       /\ status' = IF n = 1 THEN "done" ELSE "running"
  /\ UNCHANGED <<why, executed>>

(* Anything else that throws: a run-time error, revert, suicide. *)
Raise ==
  /\ status = "running"
  /\ Throw("error")
  /\ UNCHANGED <<frames, executed>>

(* The catch(...) of a Call node and of calldata: the callee's count is    *)
(* stored and the exception goes on.                                       *)
AfterThrow_LosesCount(caller, callee) == caller

AfterThrow(caller, callee) == [caller EXCEPT !.num = callee.num]

Unwind ==
  /\ status = "throwing"
  /\ LET n == Len(frames) - 1 IN
       IF n = 0
         THEN status' = "done" /\ UNCHANGED frames
         ELSE /\ frames' = [SubSeq(frames, 1, n) EXCEPT ![n] = AfterThrow(@, Top)]
              /\ UNCHANGED status
  /\ UNCHANGED <<why, executed>>

(* The host has its answer; nothing more happens. *)
Done == status = "done" /\ UNCHANGED vars

Step ==
  \/ Charge \/ EnterLoopBody \/ LeaveLoopBody
  \/ Calldata \/ CalldataNative \/ Call \/ CallNative \/ Return \/ Raise \/ Unwind

Next == Step \/ Done

Spec == Init /\ [][Next]_vars

(* One thread executes the program without ever waiting for anything.      *)
FairSpec == Spec /\ WF_vars(Step)

-----------------------------------------------------------------------------
(* There is always the host's interpreter, and every frame is well formed. *)
TypeOK ==
  /\ frames \in Seq(Frame) /\ frames # <<>>
  /\ status \in {"running", "throwing", "done"}
  /\ why \in Exceptions \cup {"none"}
  /\ executed \in Nat

(* An interpreter's count is never ahead of the interpreters it called, so *)
(* storing a callee's count never takes back steps already charged.        *)
CountersNested ==
  \A i, j \in 1 .. Len(frames) : i <= j => frames[i].num <= frames[j].num

(* The limit is reached by exactly one charge in exactly one interpreter,  *)
(* and that charge throws: while the program runs, every interpreter still *)
(* has a step left, however the counts were copied.                        *)
LimitReachedOnlyByThrowing ==
  \A i \in 1 .. Len(frames) :
    /\ frames[i].num <= Limit
    /\ frames[i].num = Limit => why = "out_of_gas"

(* The steps the host bills: the whole limit when the program ran out of   *)
(* gas, fewer when it ended in any other way, and never more than were     *)
(* executed.                                                               *)
BillMatchesEnding ==
  /\ frames[1].num <= executed
  /\ status = "done" => (why = "out_of_gas" <=> frames[1].num = Limit)

(* Scopes never nest deeper than the constructor allows, over loops and    *)
(* calls together, so neither does the C++ stack of interpreters.          *)
DepthBounded ==
  /\ Len(frames) <= MaxDepth
  /\ \A i \in 1 .. Len(frames) : frames[i].depth < MaxDepth

(* Whatever the program does, the host gets an answer: the steps a         *)
(* finished call does not hand back are still bounded, because every call  *)
(* starts with a charge of its caller.                                     *)
Terminates == <>(status = "done")
=============================================================================
