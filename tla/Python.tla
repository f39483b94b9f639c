------------------------------- MODULE Python -------------------------------
(***************************************************************************)
(* What the statements of Interp mean in Python, over the syntax tree, and *)
(* whether walking over their compiled form has the same effects.          *)
(***************************************************************************)
EXTENDS Interp

(* A run: the outcomes still to be drawn, the value of the last test, the  *)
(* effects, what stopped it, the break, continue or return that is under   *)
(* way, and whether there is a loop around.                                *)
Stopped(p) == p.how # "ok"

Draw(p) ==
  IF Stopped(p)         THEN p
  ELSE IF p.coming = <<>> THEN [p EXCEPT !.how = "out_of_draws", !.val = FALSE]
  ELSE [p EXCEPT !.val = Head(p.coming), !.coming = Tail(@)]

RECURSIVE Do(_, _), DoSuite(_, _), DoLoop(_, _)

DoSuite(b, p) ==
  IF b = <<>> \/ Stopped(p) \/ p.jump # "no" THEN p ELSE DoSuite(Tail(b), Do(Head(b), p))

DoLoop(b, p) ==
  LET c == Draw(p)
      r == DoSuite(b, [c EXCEPT !.loop = TRUE])
  IN IF Stopped(c) \/ ~c.val                  THEN c
     ELSE IF Stopped(r) \/ r.jump = "Return"  THEN r
     ELSE IF r.jump = "Break"                 THEN [r EXCEPT !.jump = "no"]
     ELSE DoLoop(b, [r EXCEPT !.jump = "no"])

Do(s, p) ==
  LET c == Draw(p)
      out(q) == [q EXCEPT !.loop = p.loop]
  IN CASE s[1] = "Act"                   -> [p EXCEPT !.trace = Append(@, s[2])]
       [] s[1] = "Global"                -> p
       [] s[1] = "Return"                -> [p EXCEPT !.jump = "Return"]
       [] s[1] \in {"Break", "Continue"} ->
            IF p.loop THEN [p EXCEPT !.jump = s[1]] ELSE [p EXCEPT !.how = "not_a_loop"]
       [] s[1] = "If"                    -> IF c.val THEN DoSuite(s[2], c) ELSE c
       [] s[1] = "IfElse"                -> DoSuite(IF c.val THEN s[2] ELSE s[3], c)
       [] s[1] = "IfElif"                ->
            IF c.val THEN DoSuite(s[2], c) ELSE Do(<<"If", s[3]>>, c)
       [] s[1] \in {"While", "For"}      -> out(DoLoop(s[2], p))
       [] s[1] = "ListComp"              -> out(DoLoop(<< <<"Act", s[2]>> >>, p))

InPython ==
  DoSuite(body, [coming |-> draws, val |-> FALSE, trace |-> <<>>, how |-> "ok",
                 jump |-> "no", loop |-> FALSE])

(* README.md:8-9 "based on the Python 3 flavor", "an imperative subset":   *)
(* until the first continue, and until a node skip_next or a test an else  *)
(* refuses, the effects and the way the body ends are Python's.            *)
FollowsPython ==
  ~Running =>
    IF continued \/ ending \in {"cannot_skip", "not_a_boolean"}
      THEN IsPrefix(trace, InPython.trace)
      ELSE /\ trace = InPython.trace /\ ending = InPython.how
           /\ terminated <=> InPython.jump = "Return"
=============================================================================
