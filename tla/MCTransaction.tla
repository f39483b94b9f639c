--------------------------- MODULE MCTransaction ----------------------------
(* Instance of Transaction for TLC: one key, one receiver, and words so     *)
(* short that the limit and the bill are cut to them.                       *)
EXTENDS Transaction

MCTokens == {0}

MCDoubles == {0}

(* With prices 1 and 2 and words of five: limits that are exact, cut, and   *)
(* cut to zero, and bills that are cut.                                     *)
MCGases == {4, 5, 9}

MCPrices == {1, 2}
=============================================================================
