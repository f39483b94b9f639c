------------------------------- MODULE MCEntry -------------------------------
(* Instance of Entry for TLC.  All programs of up to three statements out   *)
(* of fourteen: functions with and without parameters, a default value, a   *)
(* private and a redefined name, imports of one and of two names, of an     *)
(* unknown module and under another name.  The messages are all that begin  *)
(* like a call with up to two arguments, cut off anywhere or too long.      *)
EXTENDS Entry, FiniteSets

f == <<3>>
g == <<4>>
hidden == <<0, 3>>
len == <<5>>
m == <<6>>
default == <<7>>

MCIdentifiers == {f, g, hidden, len, m, default}
MCModules == {m}
MCMembers == (<<m, f>> :> 1) @@ (<<m, g>> :> 0)
MCBuiltins == {len}

def(n, arity, default_, body) ==
  [kind |-> "def", name |-> n, arity |-> arity, default |-> default_, body |-> body]
import(names) == [kind |-> "import", names |-> names]
from(names) == [kind |-> "from", module |-> m, names |-> names]

Statements ==
  {def(default, 0, FALSE, 1), def(f, 2, FALSE, 2), def(f, 0, FALSE, 0), def(g, 1, TRUE, 1),
   def(hidden, 0, FALSE, 1),
   import(<<Alias(m, NoName)>>), import(<<Alias(m, g)>>),
   import(<<Alias(m, NoName), Alias(m, g)>>), import(<<Alias(f, NoName)>>),
   from(<<Alias(f, NoName)>>), from(<<Alias(f, NoName), Alias(g, default)>>),
   from(<<Alias(len, NoName)>>),
   [kind |-> "pass"], [kind |-> "other"]}

MCPrograms == UNION {[1 .. n -> Statements] : n \in 1 .. 3}

MCArguments ==
  {Argument(1, <<>>), Argument(1, <<3, 1>>), Argument(2, <<9>>), Argument(4, <<1>>), Argument(5, <<1>>)}

Calls ==
  {EncodedCall(n, as) : n \in {f, g, hidden, len, default, <<>>, <<8>>},
                        as \in UNION {[1 .. k -> MCArguments] : k \in 0 .. 2}}

MCMessages ==
  UNION {{SubSeq(c, 1, i) : i \in 0 .. Len(c)} \cup {c \o <<2>>} : c \in Calls}
=============================================================================
