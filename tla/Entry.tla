-------------------------------- MODULE Entry --------------------------------
(***************************************************************************)
(* From source text to the first call: the compiled top level of a program *)
(* is executed once, which binds functions and modules in the global       *)
(* scope, and calldata then decodes the host's message and calls one of    *)
(* them.  Both read a bit stream through a cursor.  In the code a cell is  *)
(* one node together with the word or the text that follows it; in a       *)
(* message it is one number or one character.  Sizes in bytes, the step    *)
(* limit (Calls) and what is executed inside a function (Interp) are left  *)
(* out.                                                                    *)
(*                                                                         *)
(* A definition named D_Flaw is not part of the model: it is D with one    *)
(* plausible programming error, for the mutation checks PROJECT.json lists.*)
(***************************************************************************)
EXTENDS Naturals, SequencesExt

CONSTANTS
  Programs,    (* the programs considered, sequences of Statements         *)
  Messages,    (* what the host may send, sequences of numbers             *)
  Identifiers, (* names, sequences of characters (numbers)                 *)
  Modules,     (* the modules registered with the interpreter, or "rand"   *)
  Members,     (* their functions: <<module, name>> to number of arguments *)
  Builtins,    (* names that get_value answers without looking             *)
  Default,     (* "default"                                                *)
  Underscore   (* the character a private name begins with                 *)

ASSUME DefaultAssumption == Default \in Identifiers
ASSUME ModulesAssumption == /\ DOMAIN Members \subseteq Modules \X Identifiers
                            /\ Members \in [DOMAIN Members -> Nat]
                            /\ Modules \cup Builtins \subseteq Identifiers
ASSUME MessagesAssumption == Messages \subseteq Seq(Nat)

VARIABLES
  program,     (* history: the program that was compiled                   *)
  code,        (* m_data of the interpreter                                *)
  pos,         (* its read position                                        *)
  left,        (* statements of the list still to be executed              *)
  globals,     (* m_values of the global scope                             *)
  message,     (* the data given to calldata                               *)
  at,          (* the read position in it                                  *)
  callee,      (* the function it names                                    *)
  count,       (* arguments announced and not yet read                     *)
  args,        (* the arguments read                                       *)
  status,      (* "loading", "loaded", "counting", "reading", "called" or  *)
               (* "threw"                                                  *)
  why          (* the exception                                            *)

vars == <<program, code, pos, left, globals, message, at, callee, count, args, status, why>>

loading == <<program, code, pos, left, globals>>
calling == <<message, at, callee, count, args>>

Statuses == {"loading", "loaded", "counting", "reading", "called", "threw"}

Reasons == {"none", "top_level", "bytecode", "cast", "unknown", "eof", "type", "arity"}

-----------------------------------------------------------------------------
(* Statements, and what the compiler makes of them. *)

NoName == <<>>

(* An alias without "as" has the empty text there. *)
Alias(n, as) == [name |-> n, as |-> as]

BoundAs(a) == IF a.as = NoName THEN a.name ELSE a.as

(* An import names one thing at least.  Default values belong to the last  *)
(* parameters; here at most one has one.                                   *)
Operands == Seq([name : Identifiers, as : Identifiers \cup {NoName}]) \ {<<>>}

Definitions ==
  [kind : {"def"}, name : Identifiers, arity : Nat, default : BOOLEAN, body : Nat]

Statement ==
  {s \in Definitions : s.default => s.arity > 0}
  \cup [kind : {"import"}, names : Operands]
  \cup [kind : {"from"}, module : Identifiers, names : Operands]
  \cup [kind : {"pass", "other"}]

ASSUME ProgramsAssumption == Programs \subseteq Seq(Statement)

Cell(type, data) == <<type, data>>
Node(type) == Cell(type, 0)
Type(i) == code[i][1]
Data(i) == code[i][2]

Repeat(n, c) == [i \in 1 .. n |-> c]

(* One name, or a tuple of them. *)
CompileAliases(as) ==
  LET cells == [i \in DOMAIN as |-> Cell("Alias", as[i])] IN
  IF Len(as) = 1 THEN cells ELSE <<Cell("Tuple", Len(as))>> \o cells

(* A parameter without a default value has a Pass in its place.            *)
Defaults(s) ==
  IF s.default THEN Append(Repeat(s.arity - 1, Node("Pass")), Node("Integer"))
               ELSE Repeat(s.arity, Node("Pass"))

(* The word after the name is written as 0 and overwritten with the length *)
(* of the body once that is known.                                         *)
StubLength_WithHeader(s) == s.body + 1

StubLength(s) == s.body

CompileDef(s) ==
  <<Node("FunctionDef"), Cell("Name", s.name), Cell("Length", StubLength(s)),
    Cell("FunctionStart", s.arity)>>
  \o Repeat(s.arity, Cell("Name", NoName))
  \o <<Cell("FunctionStartDefaults", s.arity)>> \o Defaults(s)
  \o <<Node("FunctionStartStub")>> \o Repeat(s.body, Node("Body"))
  \o <<Node("FunctionEnd")>>

CompileStatement(s) ==
  CASE s.kind = "def"    -> CompileDef(s)
    [] s.kind = "import" -> <<Node("Import")>> \o CompileAliases(s.names)
    [] s.kind = "from"   -> <<Node("ImportFrom"), Cell("Name", s.module)>>
                              \o CompileAliases(s.names)
    [] s.kind = "pass"   -> <<Node("Pass")>>
    [] s.kind = "other"  -> <<Node("Call")>>

Compile(p) ==
  <<Cell("StatementList", Len(p))>>
  \o FlattenSeq([i \in DOMAIN p |-> CompileStatement(p[i])])

-----------------------------------------------------------------------------
(* What a name may be bound to. *)
Unbound == [what |-> "nothing", arity |-> 0]
Module == [what |-> "module", arity |-> 0]
BuiltinFunction == [what |-> "builtin", arity |-> 0]
Native(n) == [what |-> "native", arity |-> n]
Function(n) == [what |-> "function", arity |-> n]

(* Scope::set_value of the global scope, which has no parent. *)
Bind(gs, n, v) == [gs EXCEPT ![n] = v]

Throw(e) == status' = "threw" /\ why' = e

(* The StatementList node has been read; its size is left. *)
Init ==
  /\ program \in Programs
  /\ code = Compile(program)
  /\ pos = 2 /\ left = Len(program)
  /\ globals = [n \in Identifiers |-> Unbound]
  /\ message = <<>> /\ at = 1 /\ callee = Default /\ count = 0 /\ args = <<>>
  /\ status = "loading" /\ why = "none"

Executes(type) == status = "loading" /\ left > 0 /\ Type(pos) = type

(* The statement at the cursor was executed and the cursor left at p; an   *)
(* exception ends the program, wherever it leaves the cursor.              *)
Executed(p) ==
  /\ pos' = p
  /\ left' = left - 1
  /\ UNCHANGED <<program, code, status, why>> /\ UNCHANGED calling

Fail(e) == Throw(e) /\ UNCHANGED loading /\ UNCHANGED calling

Pass == Executes("Pass") /\ Executed(pos + 1) /\ UNCHANGED globals

(* An import executes its operand with LoopState::IgnoreAll, after which   *)
(* the cursor is moved back to the operand's start.                        *)
AfterOperand_Advances(operand) == operand + 1

AfterOperand(operand) == operand

(* load_module. *)
Import ==
  /\ Executes("Import")
  /\ LET a == Data(pos + 1) IN
     IF Type(pos + 1) = "Tuple"  THEN Fail("cast")
     ELSE IF a.name \notin Modules THEN Fail("unknown")
     ELSE /\ globals' = Bind(globals, BoundAs(a), Module)
          /\ Executed(AfterOperand(pos + 1))

(* The aliases of an operand: its own, or the elements of the tuple. *)
Operand(i) ==
  IF Type(i) = "Tuple" THEN [k \in 1 .. Data(i) |-> Data(i + k)] ELSE <<Data(i)>>

(* load_from_module for each of them, in their order. *)
BindAll(gs, m, as) ==
  FoldLeft(LAMBDA g, a : Bind(g, BoundAs(a), Native(Members[<<m, a.name>>])), gs, as)

ImportFrom ==
  /\ Executes("ImportFrom")
  /\ LET m   == Data(pos + 1)
         as  == Operand(pos + 2)
         bad == {k \in DOMAIN as : <<m, as[k].name>> \notin DOMAIN Members} IN
     IF bad = {}
       THEN /\ globals' = BindAll(globals, m, as)
            /\ Executed(AfterOperand(pos + 2))
       ELSE /\ globals' = BindAll(globals, m, SubSeq(as, 1, Min(bad) - 1))
            /\ Throw("unknown")
            /\ UNCHANGED <<program, code, pos, left>> /\ UNCHANGED calling

(* The operand of an import again, now as a statement of its own. *)
OperandAgain == Executes("Alias") /\ Executed(pos + 1) /\ UNCHANGED globals

(* read_function_stub, with the cursor at the word after the name.  first  *)
(* is the cell of the first default value.  A default value is executed in *)
(* the global scope, where only a Pass is allowed.                         *)
ReadFunctionStub ==
  LET i     == pos + 2
      arity == Data(i + 1)
      first == i + 3 + arity
      stub  == first + arity
      end   == stub + Data(i) + 1 IN
  IF Type(i + 1) # "FunctionStart"                              THEN Fail("bytecode")
  ELSE IF \E k \in 1 .. arity : Type(i + 1 + k) # "Name"        THEN Fail("bytecode")
  ELSE IF Type(first - 1) # "FunctionStartDefaults"             THEN Fail("bytecode")
  ELSE IF Data(first - 1) # arity                               THEN Fail("bytecode")
  ELSE IF \E k \in first .. stub - 1 : Type(k) # "Pass"         THEN Fail("top_level")
  ELSE IF Type(stub) # "FunctionStartStub"                      THEN Fail("bytecode")
  ELSE IF end > Len(code) \/ Type(end) # "FunctionEnd"          THEN Fail("bytecode")
  ELSE /\ globals' = Bind(globals, Data(pos + 1), Function(arity))
       /\ Executed(end + 1)

(* Two refusals are left out: of an empty name, which the parser does not  *)
(* make, and of a parameter without a default behind one that has one,     *)
(* since at the top level any default is refused before.                   *)
FunctionDef == Executes("FunctionDef") /\ ReadFunctionStub

(* Any other node, a tuple among them, is refused at the top level. *)
Refuse ==
  /\ status = "loading" /\ left > 0
  /\ Type(pos) \notin {"Pass", "Import", "ImportFrom", "Alias", "FunctionDef"}
  /\ Fail("top_level")

(* As many statements were executed as the list has. *)
Loaded ==
  /\ status = "loading" /\ left = 0
  /\ status' = "loaded"
  /\ UNCHANGED loading /\ UNCHANGED calling /\ UNCHANGED why

-----------------------------------------------------------------------------
(* calldata. *)

(* Scope::get_value of the global scope. *)
Value(n) ==
  IF n \in Builtins THEN BuiltinFunction
  ELSE IF n \in Identifiers THEN globals[n] ELSE Unbound

IsCallable(v) == v.what \in {"builtin", "native", "function"}

IsPrivate(n) == n # <<>> /\ n[1] = Underscore

(* A text is its length and as many characters. *)
HasText(m, i) == i <= Len(m) /\ i + m[i] <= Len(m)

Text(m, i) == SubSeq(m, i + 1, i + m[i])

(* The name is read, unless there is no data at all, and looked up. *)
ReadName(m) ==
  /\ status = "loaded"
  /\ message' = m
  /\ UNCHANGED loading /\ UNCHANGED <<count, args>>
  /\ IF m # <<>> /\ ~HasText(m, 1)
       THEN Throw("eof") /\ UNCHANGED <<at, callee>>
       ELSE LET n == IF m = <<>> THEN Default ELSE Text(m, 1) IN
            /\ callee' = n
            /\ at' = IF m = <<>> THEN 1 ELSE 2 + m[1]
            /\ IF IsPrivate(n) \/ ~IsCallable(Value(n))
                 THEN Throw("unknown")
                 ELSE status' = "counting" /\ UNCHANGED why

(* "do not fail here": without a count there are no arguments. *)
ReadCount ==
  /\ status = "counting"
  /\ IF at > Len(message) THEN count' = 0 /\ UNCHANGED at
                          ELSE count' = message[at] /\ at' = at + 1
  /\ status' = "reading"
  /\ UNCHANGED loading /\ UNCHANGED <<message, callee, args, why>>

Argument(t, v) == [type |-> t, value |-> v]

(* The cells of an argument's value after its type: of a text, of anything else. *)
HasValueAt(t, i) == IF t = 1 THEN HasText(message, i) ELSE i <= Len(message)

ValueAt(t, i) == IF t = 1 THEN Text(message, i) ELSE <<message[i]>>

AfterValue_OneTooFar(t, i) == IF t = 1 THEN i + 1 + message[i] ELSE i + 2

AfterValue_SkipsNoText(t, i) == i + 1

AfterValue(t, i) == IF t = 1 THEN i + 1 + message[i] ELSE i + 1

(* One argument: a string (1), an integer (2), a float (3) or a bool (4). *)
ReadArgument ==
  /\ status = "reading" /\ count > 0
  /\ UNCHANGED loading /\ UNCHANGED <<message, callee>>
  /\ LET t == message[at] IN
     IF at > Len(message)              THEN Throw("eof")  /\ UNCHANGED <<at, count, args>>
     ELSE IF t \notin 1 .. 4           THEN Throw("type") /\ UNCHANGED <<at, count, args>>
     ELSE IF ~HasValueAt(t, at + 1)    THEN Throw("eof")  /\ UNCHANGED <<at, count, args>>
     ELSE /\ args' = Append(args, Argument(t, ValueAt(t, at + 1)))
          /\ at' = AfterValue(t, at + 1)
          /\ count' = count - 1
          /\ UNCHANGED <<status, why>>

(* Callable::call.  A builtin counts its arguments itself; the others have *)
(* no default values and want each argument.                               *)
WrongArguments(v) == v.what # "builtin" /\ Len(args) # v.arity

Invoke ==
  /\ status = "reading" /\ count = 0
  /\ IF WrongArguments(Value(callee)) THEN Throw("arity")
                                      ELSE status' = "called" /\ UNCHANGED why
  /\ UNCHANGED loading /\ UNCHANGED calling

(* The function runs, or the host has its error. *)
Done == status \in {"called", "threw"} /\ UNCHANGED vars

Next ==
  \/ Pass \/ Import \/ ImportFrom \/ OperandAgain \/ FunctionDef \/ Refuse \/ Loaded
  \/ \E m \in Messages : ReadName(m)
  \/ ReadCount \/ ReadArgument \/ Invoke
  \/ Done

Spec == Init /\ [][Next]_vars

-----------------------------------------------------------------------------
Bound == [what : {"nothing", "module", "native", "function"}, arity : Nat]

(* read_function_stub, calldata: positions, bindings and arguments are     *)
(* well formed, and the cursor never leaves the code.                      *)
TypeOK ==
  /\ pos \in 1 .. Len(code) + 1 /\ left \in 0 .. Len(program)
  /\ globals \in [Identifiers -> Bound]
  /\ at \in 1 .. Len(message) + 1 /\ count \in Nat
  /\ \A i \in DOMAIN args : args[i].type \in 1 .. 4
  /\ status \in Statuses /\ why \in Reasons

(* Where the code of statement k begins. *)
Start(k) ==
  2 + Len(FlattenSeq([i \in 1 .. k - 1 |-> CompileStatement(program[i])]))

IsImport(s) == s.kind \in {"import", "from"}

OperandStart(k) == Start(k) + (IF program[k].kind = "import" THEN 1 ELSE 2)

Imports(k) == Cardinality({i \in 1 .. k : IsImport(program[i])})

(* The compiler and read_function_stub: however functions and imports      *)
(* follow each other, what is executed next is a whole statement, or the   *)
(* operand of the import before, and the bytecode is never "hacked".       *)
CursorAtStatement ==
  /\ why # "bytecode"
  /\ status = "loading" /\ left > 0 =>
       LET done == Len(program) - left IN
       \E k \in DOMAIN program :
         \/ pos = Start(k) /\ done = k - 1 + Imports(k - 1)
         \/ IsImport(program[k]) /\ pos = OperandStart(k) /\ done = k + Imports(k - 1)

(* What Python binds in a statement, and in the first k of them. *)
Binds(s) ==
  CASE s.kind = "def"    -> {<<s.name, Function(s.arity)>>}
    [] s.kind = "import" -> {<<BoundAs(s.names[i]), Module>> : i \in DOMAIN s.names}
    [] s.kind = "from"   -> {<<BoundAs(s.names[i]), Native(Members[<<s.module, s.names[i].name>>])>> :
                               i \in DOMAIN s.names}
    [] OTHER             -> {}

Binders(k, n) == {i \in 1 .. k : \E v \in Binds(program[i]) : v[1] = n}

IsPythons(gs, k) ==
  \A n \in Identifiers :
    IF Binders(k, n) = {} THEN gs[n] = Unbound
                          ELSE <<n, gs[n]>> \in Binds(program[Max(Binders(k, n))])

(* Interpreter::execute_next, Import: an import takes the place of a       *)
(* statement at the end of the list.  The names are Python's for exactly   *)
(* the statements that are left with a place.                              *)
Reached == Cardinality({k \in DOMAIN program : k - 1 + Imports(k - 1) < Len(program)})

LoadedIsPrefix == status \in {"loaded", "counting", "reading", "called"} => IsPythons(globals, Reached)

(* A message that calls f: its name, the number of arguments, and each     *)
(* argument's type and value.                                              *)
EncodedText(s) == <<Len(s)>> \o s

EncodedArgument(a) ==
  <<a.type>> \o (IF a.type = 1 THEN EncodedText(a.value) ELSE a.value)

EncodedCall(f, as) ==
  EncodedText(f) \o <<Len(as)>> \o FlattenSeq([i \in DOMAIN as |-> EncodedArgument(as[i])])

(* calldata: a function is called with what was sent and nothing else,     *)
(* however the message was cut off; a message that ends after the name     *)
(* calls a function without parameters, and an empty one "default".        *)
CalledWithWhatWasSent ==
  status = "called" =>
    /\ Value(callee).what = "function" => Len(args) = Value(callee).arity
    /\ \/ IsPrefix(EncodedCall(callee, args), message)
       \/ args = <<>> /\ message = EncodedText(callee)
       \/ args = <<>> /\ message = <<>> /\ callee = Default

(* test/Persistency.cpp:14 and test/modules.cpp:66: the statements after   *)
(* an import are executed as well, so a program that was loaded without an *)
(* error has every function it defines.                                    *)
EveryDefinitionIsBound ==
  status = "loaded" =>
    \A k \in DOMAIN program :
      program[k].kind = "def" => globals[program[k].name].what # "nothing"
=============================================================================
