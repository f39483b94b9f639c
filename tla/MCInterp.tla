------------------------------ MODULE MCInterp ------------------------------
(* Programs for TLC: every kind of statement alone and before another, in   *)
(* a branch or a loop, in a loop around that, and, for the statements that  *)
(* jump, in a branch of a loop in a loop; each followed by one more effect. *)
EXTENDS Python

Suites(stmts) == {<<s>> : s \in stmts} \cup {<<s, <<"Act", 2>> >> : s \in stmts}

Leaves == {<<k, 0>> : k \in Simple \ {"Act"}} \cup {<<"Act", 1>>, <<"ListComp", 3>>}

Inner ==
  {<<k, b>> : k \in {"If", "While", "For"}, b \in Suites(Leaves)}
    \cup {<<k, <<s>>, <<t>> >> : k \in {"IfElse", "IfElif"}, s \in Leaves, t \in Leaves}

Loops(suites) == {<<k, b>> : k \in {"While", "For"}, b \in suites}

Nested ==
  LET branch == {<<"IfElse", <<s>>, <<t>> >> : s \in Leaves, t \in {<<"Act", 1>>, <<"Break", 0>>}}
  IN Loops({<<s, t>> : s \in Loops({<<b, <<"Act", 2>> >> : b \in branch}), t \in Leaves})

MCBodies == {<<s, <<"Act", 4>> >> : s \in Inner \cup Loops(Suites(Inner)) \cup Nested}
=============================================================================
