------------------------------- MODULE Interp -------------------------------
(***************************************************************************)
(* How the interpreter walks over compiled code.  There is no syntax tree  *)
(* at run time: execute_next and skip_next read one node each from the     *)
(* bit stream at the cursor, and every branch, loop, break and return is a *)
(* matter of leaving the cursor at the right place.                        *)
(*                                                                         *)
(* Compiler turns statements into nodes as Compiler.cpp does.  The machine *)
(* below walks over them: stack holds the activations of execute_next, the *)
(* outermost first, and toSkip the nodes that skip_next, which never calls *)
(* execute_next, has yet to pass over in all its activations together.     *)
(*                                                                         *)
(* Expressions are single nodes here: Act stands for any whose effect is   *)
(* observable, Test for a condition, Iterable for what a loop runs over.   *)
(* The outcome of a test, and whether an iterator has a next element, is   *)
(* any; a walk that needs more than MaxDraws of them stops, as one that    *)
(* ran out of gas does.                                                    *)
(*                                                                         *)
(* A definition named D_Flaw is not part of the model: it is D with one    *)
(* plausible programming error, for the mutation checks PROJECT.json lists.*)
(***************************************************************************)
EXTENDS Naturals, SequencesExt

CONSTANTS
  Bodies,      (* function bodies: sequences of statements                  *)
  Nesting,     (* how deep their statements are nested at most              *)
  MaxDraws     (* how many outcomes are drawn in one execution              *)

ASSUME NestingAssumption == Nesting \in Nat
ASSUME MaxDrawsAssumption == MaxDraws \in Nat

VARIABLES
  body,        (* history: the function body being executed                 *)
  nodes,       (* m_data                                                    *)
  cursor,      (* its read position                                         *)
  stack,       (* the activations of execute_next                           *)
  toSkip,      (* how many nodes are being skipped, nested ones apart       *)
  terminated,  (* the flag of the function's scope and those inside it      *)
  draws,       (* the outcomes drawn so far                                 *)
  continued,   (* history: a continue was executed                          *)
  trace,       (* history: the effects before the first continue            *)
  ending       (* "none" while walking, "ok", or what stopped the walk      *)

walkVars ==
  <<body, nodes, cursor, stack, toSkip, terminated, draws, continued, trace, ending>>

-----------------------------------------------------------------------------
(* A statement is <<kind, argument...>>; its compiled form is a sequence of *)
(* nodes <<type, argument>> in which the type comes first.                  *)
Simple == {"Act", "Global", "Break", "Continue", "Return"}

(* A statement list, of which compiled gives the code of each statement. *)
Suite(b, compiled) ==
  << <<"StatementList", Len(b)>> >> \o FlattenSeq([i \in DOMAIN b |-> compiled[b[i]]])

(* A node followed by the test, or whatever else it begins with. *)
Clause(type, test) == << <<type, 0>>, <<test, 0>> >>

(* An elif is an If in the place of the else suite. *)
Compiled(s, inner) ==
  LET suite(k) == Suite(s[k], inner)
  IN CASE s[1] \in Simple  -> <<s>>
       [] s[1] = "If"      -> Clause("If", "Test") \o suite(2)
       [] s[1] = "IfElse"  -> Clause("IfElse", "Test") \o suite(2) \o suite(3)
       [] s[1] = "IfElif"  ->
            Clause("IfElse", "Test") \o suite(2) \o Clause("If", "Test") \o suite(3)
       [] s[1] = "While"   -> Clause("WhileLoop", "Test") \o suite(2)
       [] s[1] = "For"     -> Clause("ForLoop", "Iterable") \o suite(2)
       [] s[1] = "ListComp" ->
            << <<"ListComp", 0>>, <<"Act", s[2]>>, <<"Comprehension", 0>>, <<"Iterable", 0>>,
               <<"Pass", 0>> >>

(* Statements, given those that may stand in their suites. *)
Statements(nested) ==
  (Simple \cup {"ListComp"}) \X Nat
    \cup {"If", "While", "For"} \X Seq(nested)
    \cup {"IfElse", "IfElif"} \X Seq(nested) \X Seq(nested)

(* The code of statements in which others are nested at most d deep. *)
Compiler[d \in Nat] ==
  LET inner == IF d = 0 THEN <<>> ELSE Compiler[d - 1]
  IN [s \in Statements(DOMAIN inner) |-> Compiled(s, inner)]

ASSUME BodiesAssumption == Bodies \subseteq Seq(DOMAIN Compiler[Nesting])

-----------------------------------------------------------------------------
LoopStates == {"None", "Normal", "TopLevel", "Break", "Continue"}

(* An activation of execute_next: where its node starts, loop_state as it  *)
(* sees it, the for_loop_state a loop has for its body, how far it is, the *)
(* condition of an if or a while, and end_pos of a list comprehension.     *)
(* step is 0 until the type is read.                                       *)
Activation ==
  [start : Nat, ls : LoopStates, loop : LoopStates, step : Nat, cond : BOOLEAN, end : Nat]

Innermost == stack[Len(stack)]

Running == ending = "none"

IsPast(p) == p \notin DOMAIN nodes

KindAt(p) == nodes[p][1]

Kind(f) == KindAt(f.start)

(* Whether execute_next takes the cursor back to where it started. *)
Resets_NotOnBreak(ls) == ls \in {"TopLevel", "Continue"}

Resets(ls) == ls \notin {"Normal", "None"}

(* The statements of a loop body are not themselves loop bodies. *)
ChildState(ls) == IF ls = "TopLevel" THEN "Normal" ELSE ls

(* What a list takes over from a statement, so that a break or a continue  *)
(* travels up to the loop.                                                 *)
Inherited_Never(ls, child) == ls

Inherited(ls, child) == IF ls # "None" /\ child # "Normal" THEN child ELSE ls

(* An activation that is about to read its node's type. *)
Begun(p, ls) ==
  [start |-> p, ls |-> ls, loop |-> "TopLevel", step |-> 0, cond |-> FALSE, end |-> 0]

(* Activation f, of a node of this kind, when the node it called returns   *)
(* with loop_state ls and a value that is true or not.  A loop's test and  *)
(* what a for runs over see a loop_state of their own; an if hands on its  *)
(* own.                                                                    *)
Resumed(kind, f, ls, true) ==
  CASE kind = "StatementList"    -> [f EXCEPT !.step = @ + 1, !.ls = Inherited(@, ls)]
    [] kind \in {"If", "IfElse"} ->
         [f EXCEPT !.step = @ + 1, !.ls = ls, !.cond = IF f.step = 1 THEN true ELSE @]
    [] kind = "WhileLoop" -> IF f.step = 1 THEN [f EXCEPT !.step = 2, !.cond = true]
                                           ELSE [f EXCEPT !.step = 1, !.loop = ls]
    [] kind = "ForLoop"   -> IF f.step = 1 THEN [f EXCEPT !.step = 2]
                                           ELSE [f EXCEPT !.loop = ls]
    [] kind = "ListComp"  -> IF f.step = 2 THEN [f EXCEPT !.step = 3, !.ls = ls]
                                           ELSE [f EXCEPT !.loop = ls]

(* The innermost activation goes on as f. *)
GoesOn(f) == stack' = [stack EXCEPT ![Len(stack)] = f]

(* It calls execute_next, which starts at p. *)
Calls(p, ls) ==
  /\ cursor' = p
  /\ stack' = Append(stack, Begun(p, ls))
  /\ UNCHANGED <<toSkip, ending>>

(* It calls skip_next and goes on with this step after it. *)
Skips(step) ==
  /\ toSkip' = 1
  /\ GoesOn([Innermost EXCEPT !.step = step])
  /\ UNCHANGED <<cursor, ending>>

(* It returns with this loop_state, the cursor at p and a value that is    *)
(* true or not.  The outermost activation is kept to look at.              *)
Returns(ls, p, true) ==
  LET f == Innermost
      n == Len(stack) - 1
  IN /\ cursor' = IF Resets(ls) THEN f.start ELSE p
     /\ IF n = 0
          THEN stack' = <<[f EXCEPT !.ls = ls]>> /\ ending' = "ok"
          ELSE /\ stack' = [SubSeq(stack, 1, n) EXCEPT ![n] = Resumed(Kind(@), @, ls, true)]
               /\ UNCHANGED ending
     /\ UNCHANGED toSkip

(* An exception; what the machine leaves behind does not matter any more. *)
Throws(reason) == ending' = reason /\ UNCHANGED <<cursor, stack, toSkip>>

effects == <<terminated, draws, continued, trace>>

(* One more condition or iterator has an outcome. *)
Draws(outcome) ==
  /\ Len(draws) < MaxDraws
  /\ draws' = Append(draws, outcome)
  /\ UNCHANGED <<terminated, continued, trace>>

(* The innermost activation executes a node of this kind and is this far.  *)
Is(kind, step) ==
  /\ Running /\ toSkip = 0
  /\ ~IsPast(Innermost.start) /\ Kind(Innermost) = kind /\ Innermost.step = step

-----------------------------------------------------------------------------
(* skip_next: how many nodes it skips after the type it has read; the      *)
(* types it does not know, it refuses.                                     *)
Children(node) ==
  CASE node[1] \in Simple \cup {"Pass", "Test", "Iterable", "Comprehension"} -> 0
    [] node[1] = "StatementList"                     -> node[2]
    [] node[1] \in {"If", "WhileLoop", "ForLoop"}    -> 2
    [] node[1] = "IfElse"                            -> 3
    [] node[1] = "ListComp"                          -> 4

Unskippable == {"ListComp", "Comprehension", "Global"}

Skip ==
  /\ Running /\ toSkip > 0
  /\ UNCHANGED effects
  /\ IF IsPast(cursor)                      THEN Throws("past_end")
     ELSE IF KindAt(cursor) \in Unskippable THEN Throws("cannot_skip")
     ELSE /\ cursor' = cursor + 1
          /\ toSkip' = toSkip - 1 + Children(nodes[cursor])
          /\ UNCHANGED <<stack, ending>>

-----------------------------------------------------------------------------
(* Nodes that are executed at once. *)
Act ==
  /\ Is("Act", 0)
  /\ Returns(Innermost.ls, cursor + 1, TRUE)
  /\ trace' = IF continued THEN trace ELSE Append(trace, nodes[cursor][2])
  /\ UNCHANGED <<terminated, draws, continued>>

Quiet ==
  /\ \E kind \in {"Global", "Iterable"} : Is(kind, 0)
  /\ Returns(Innermost.ls, cursor + 1, TRUE)
  /\ UNCHANGED effects

Test(outcome) ==
  /\ Is("Test", 0)
  /\ Returns(Innermost.ls, cursor + 1, outcome)
  /\ Draws(outcome)

Jump(kind) ==
  /\ Is(kind, 0)
  /\ UNCHANGED <<terminated, draws, trace>>
  /\ IF Innermost.ls = "None"
       THEN Throws("not_a_loop") /\ UNCHANGED continued
       ELSE Returns(kind, cursor + 1, FALSE) /\ continued' = (continued \/ kind = "Continue")

ReturnNode ==
  /\ Is("Return", 0)
  /\ Returns(Innermost.ls, cursor + 1, FALSE)
  /\ terminated' = TRUE
  /\ UNCHANGED <<draws, continued, trace>>

(* The type of a node with others in it is read; a list reads its size.    *)
Compound == {"StatementList", "If", "IfElse", "WhileLoop", "ForLoop", "ListComp"}

Enter ==
  /\ \E kind \in Compound : Is(kind, 0)
  /\ cursor' = cursor + 1
  /\ GoesOn([Innermost EXCEPT !.step = 1])
  /\ UNCHANGED <<toSkip, ending>> /\ UNCHANGED effects

(* A statement that is not executed any more is skipped. *)
Passed(ls) == terminated \/ ls \in {"Break", "Continue"}

StatementList ==
  /\ UNCHANGED effects
  /\ LET i  == Innermost.step
         ls == Innermost.ls
     IN /\ Is("StatementList", i) /\ i > 0
        /\ IF i > nodes[Innermost.start][2] THEN Returns(ls, cursor, FALSE)
           ELSE IF Passed(ls)               THEN Skips(i + 1)
           ELSE Calls(cursor, ChildState(ls))

If ==
  /\ UNCHANGED effects
  /\ \/ Is("If", 1) /\ Calls(cursor, Innermost.ls)
     \/ Is("If", 2) /\ IF Innermost.cond THEN Calls(cursor, Innermost.ls) ELSE Skips(3)
     \/ Is("If", 3) /\ Returns(Innermost.ls, cursor, FALSE)

IfElse_SkipsTooLittle ==
  /\ UNCHANGED effects
  /\ \/ Is("IfElse", 1) /\ Calls(cursor, Innermost.ls)
     \/ Is("IfElse", 2) /\ IF Innermost.cond THEN Calls(cursor, Innermost.ls) ELSE Skips(3)
     \/ Is("IfElse", 3) /\ Innermost.cond /\ Returns(Innermost.ls, cursor, FALSE)
     \/ Is("IfElse", 3) /\ ~Innermost.cond /\ Calls(cursor, Innermost.ls)
     \/ Is("IfElse", 4) /\ Returns(Innermost.ls, cursor, FALSE)

(* With an else, the test has to be a boolean; without one, and in a       *)
(* while, it may have any value.                                           *)
IfElse ==
  /\ UNCHANGED effects
  /\ \/ Is("IfElse", 1) /\ Calls(cursor, Innermost.ls)
     \/ Is("IfElse", 2) /\ Throws("not_a_boolean")
     \/ Is("IfElse", 2) /\ IF Innermost.cond THEN Calls(cursor, Innermost.ls) ELSE Skips(3)
     \/ Is("IfElse", 3) /\ IF Innermost.cond THEN Skips(4) ELSE Calls(cursor, Innermost.ls)
     \/ Is("IfElse", 4) /\ Returns(Innermost.ls, cursor, FALSE)

(* No further iteration is begun. *)
LoopOver == terminated \/ Innermost.loop = "Break"

(* Each turn begins at the test, behind which the body is. *)
WhileLoop ==
  /\ UNCHANGED effects
  /\ \/ Is("WhileLoop", 1) /\ IF LoopOver THEN Skips(3) ELSE Calls(Innermost.start + 1, "None")
     \/ Is("WhileLoop", 2) /\ IF Innermost.cond THEN Calls(cursor, Innermost.loop) ELSE Skips(3)
     \/ Is("WhileLoop", 3) /\ Returns(Innermost.ls, cursor, FALSE)

ForLoop ==
  \/ Is("ForLoop", 1) /\ Calls(cursor, "None") /\ UNCHANGED effects
  \/ Is("ForLoop", 2) /\ LoopOver /\ Skips(3) /\ UNCHANGED effects
  \/ Is("ForLoop", 2) /\ ~LoopOver /\ Calls(cursor, Innermost.loop) /\ Draws(TRUE)
  \/ Is("ForLoop", 2) /\ ~LoopOver /\ Skips(3) /\ Draws(FALSE)
  \/ Is("ForLoop", 3) /\ Returns(Innermost.ls, cursor, FALSE) /\ UNCHANGED effects

(* The element is skipped to find the iterator behind it, and revisited    *)
(* for each that the iterator has. *)
ListComp ==
  \/ Is("ListComp", 1) /\ Skips(2) /\ UNCHANGED effects
  \/ /\ Is("ListComp", 2)
     /\ UNCHANGED effects
     /\ IF IsPast(cursor)                       THEN Throws("past_end")
        ELSE IF KindAt(cursor) # "Comprehension" THEN Throws("invalid_type")
        ELSE Calls(cursor + 1, Innermost.ls)
  \/ Is("ListComp", 3) /\ Skips(4) /\ UNCHANGED effects
  \/ /\ Is("ListComp", 4)
     /\ GoesOn([Innermost EXCEPT !.step = 5, !.end = cursor])
     /\ UNCHANGED <<cursor, toSkip, ending>> /\ UNCHANGED effects
  \/ Is("ListComp", 5) /\ LoopOver /\ Returns(Innermost.ls, Innermost.end, TRUE) /\ UNCHANGED effects
  \/ Is("ListComp", 5) /\ ~LoopOver /\ Calls(Innermost.start + 1, Innermost.loop) /\ Draws(TRUE)
  \/ /\ Is("ListComp", 5) /\ ~LoopOver
     /\ Returns(Innermost.ls, Innermost.end, TRUE) /\ Draws(FALSE)

NeedsOutcome ==
  \/ Is("Test", 0)
  \/ Is("ForLoop", 2) /\ ~LoopOver
  \/ Is("ListComp", 5) /\ ~LoopOver

(* There is no node where one is to be executed, or no outcome is left. *)
Stops ==
  /\ UNCHANGED effects
  /\ Running /\ toSkip = 0
  /\ IF IsPast(Innermost.start)
       THEN Throws("past_end")
       ELSE NeedsOutcome /\ Len(draws) = MaxDraws /\ Throws("out_of_draws")

(* The function has returned, or thrown. *)
Halted == ~Running /\ UNCHANGED <<cursor, stack, toSkip, ending>> /\ UNCHANGED effects

Walks ==
  \/ Skip \/ Act \/ Quiet \/ Jump("Break") \/ Jump("Continue") \/ ReturnNode
  \/ \E outcome \in BOOLEAN : Test(outcome)
  \/ Enter \/ StatementList \/ If \/ IfElse \/ WhileLoop \/ ForLoop \/ ListComp
  \/ Stops

(* A function's body is executed with no loop around it. *)
WalkInit ==
  /\ body \in Bodies
  /\ nodes = Suite(body, Compiler[Nesting])
  /\ cursor = 1
  /\ stack = <<Begun(1, "None")>>
  /\ toSkip = 0
  /\ terminated = FALSE /\ draws = <<>> /\ continued = FALSE /\ trace = <<>>
  /\ ending = "none"

WalkNext == (Walks \/ Halted) /\ UNCHANGED <<body, nodes>>

WalkSpec == WalkInit /\ [][WalkNext]_walkVars

-----------------------------------------------------------------------------
(* execute_next and skip_next: every read of the stream finds a node of a  *)
(* kind that is expected there, every walk ends in a way the code knows,   *)
(* and loop states never leak out of the loop they belong to.              *)
WalkTypeOK ==
  /\ ending \in {"none", "ok", "out_of_draws", "not_a_loop", "not_a_boolean", "cannot_skip"}
  /\ cursor \in 1 .. Len(nodes) + 1
  /\ stack \in Seq(Activation) /\ stack # <<>>
  /\ stack[1].ls = "None"
  /\ toSkip \in Nat
  /\ draws \in Seq(BOOLEAN) /\ Len(draws) <= MaxDraws
  /\ trace \in Seq(Nat)
  /\ terminated \in BOOLEAN /\ continued \in BOOLEAN

(* A body that was executed to its end leaves the cursor behind its last   *)
(* node, whatever was jumped over, repeated or broken out of: execution    *)
(* and skipping agree on where every statement ends.                       *)
CursorAtEnd == ending = "ok" => cursor = Len(nodes) + 1
=============================================================================
