# A formal model of Contract Python

TLA+ modules, TLC runs and TLAPS proofs about the interpreter, its scopes,
containers and integers, the contract store, the ledger and the transaction
wrapper of Contract Python (`cowlang`).
Paths are relative to the repository: `src/...` and `include/...` are its own
directories, `test/...` its tests.

A contract is a Python program, compiled to a bit stream. The host calls
`execute_program` once per transaction with the compiled program, an amount of
gas, the serialised store and the call data, and gets back a return code, the
gas used, the new serialised store and, in a global, the payments to make.
Everything runs in one thread. What is hard here is not concurrency but long
sequences: state that is copied between nested interpreters, exceptions that
cross them with nothing rolled back, globals that outlive a transaction, a
cursor that has to be in the right place after every jump, and fixed-width
arithmetic at each boundary.

## Inventory

| Component | State | Operations | Interacts with | Hard part | Correct when |
|---|---|---|---|---|---|
| Heap (`src/interpreter/MemoryManager.cpp`) | pages, live blocks, bump pointer | `malloc`, `free` | every object of the interpreter | gaps reused, page boundary, page limit | blocks never overlap, none crosses a page |
| Store (`src/interpreter/PersistableDictionary.cpp`) | four maps, one per type | `get`, `insert`, `apply` | `storage[k]` in programs, serialised by the transaction | a key changes type; `remove` forgets one map | it reads as one dictionary |
| Ledger (`src/modules/blockchain_module.cpp`) | `contract_balance`, `send_map` (globals) | `send`, `suicide`, `revert` | called by programs, reset and read by the transaction and the host | signed amounts, unsigned sums, checks after the fact | money is neither made nor lost |
| Calls (`Interpreter`, `CallableVMFunction`, `CallableCFunction`, `Scope`) | a step count per interpreter, scope depths | charge, call, return, throw | a new interpreter per call, linked through copied counts | counts across returns and exceptions | the bill says how the program ended; depth and steps bounded |
| Control flow (`Interpreter.cpp`, `Compiler.cpp`) | cursor, `LoopState`, terminated flags | `execute_next`, `skip_next` | the bit stream | two parsers of one format; jumps | the cursor ends behind the body; effects are Python's |
| Containers (`List.cpp`, `Dictionary.cpp`) | elements, iterators, shared integers | get, set, append, insert, apply, next | `for` loops, assignments | a body changes what its loop runs over; index arithmetic; aliases | loops miss and repeat nothing |
| Transaction (`src/shell/library.cpp`) | all of the above, and the host's copy | `execute_program` | the host | every way of ending serialises and bills; refusals do not | bill within gas, balances add up, one dictionary over time |
| Scopes and names (`Scope.cpp`) | values, global tags, parent | `set_value`, `get_value`, `has_value` | calls and loops put a scope on top | dynamic chaining; `global` | what is assigned is read; a callee keeps its caller's variables |
| Entry (`Interpreter.cpp`: definitions, imports, `calldata`; `Compiler.cpp`) | cursor in the code, global scope, cursor in the message | `FunctionDef`, `Import`, `ImportFrom`, `calldata` | compiler's layout, host's message | cursors; messages cut off anywhere | the cursor is at a statement; a function is called with what was sent |
| Numbers and ranges (`Value.h`, `RangeIterator.h`, `Builtin.h`) | shared 64-bit objects, an iterator's position | operators, `op=`, `range` | loops | 32-bit results, in-place updates, one iterator in two loops | widths are kept; a range yields Python's numbers and ends |
| Bit stream, parser, snappy, address check | vendored | — | — | — | not modelled |
| RC4 generator, geo, rand | pure functions | — | programs | — | not modelled |
| Shell, REPL, Python bindings | input and output | — | `execute_program` | — | not modelled |

`PROJECT.json` lists the components with the reason for each that is left out,
and the hazards with the line at which each bites.

## Modules

| Module | Models | Proofs |
|---|---|---|
| `AbstractHeap` | what an allocator promises: free space within one page | |
| `Heap`, `MCHeap` | `DefaultMemoryManager` | `HeapProofs` |
| `StoreValues` | the values of the store, 64-bit wrap-around, the numeric operators | |
| `AbstractStore` | one dictionary under requests, each accepted or refused | |
| `Storage`, `MCStorage` | `PersistableDictionary` | `StorageProofs` |
| `Ledger`, `MCLedger` | `send`, `suicide`, `revert` and the reset | `TransactionProofs` |
| `Calls`, `MCCalls` | nested interpreters, the step limit, the depth limit | `CallsProofs` |
| `Interp` | compiled control flow: the walk over the nodes of a function's body | `CodeProofs` |
| `Python`, `MCInterp` | what the same statements mean in Python; programs for TLC | |
| `Containers`, `MCContainers` | a list, a dictionary, a loop over each, shared integers | `ContainersProofs` |
| `Names`, `MCNames` | scopes, global tags, assignment and lookup | `NamesProofs` |
| `Entry`, `MCEntry` | the top level of a program, and the call the host's message makes | `CodeProofs` |
| `Numbers`, `MCNumbers` | integers, their widths, and the loops over a range | `NumbersProofs` |
| `AbstractContract` | one dictionary over transactions that are kept or dropped | |
| `Transaction`, `MCTransaction` | `execute_program`; extends `Ledger`, instances of `Storage` and `AbstractContract` | `TransactionProofs` |

A definition named `D_Flaw` stands before `D` and is not part of the model: it
is `D` with one plausible programming error. `PROJECT.json` ("mutants") names
one for each property, and TLC finds that property violated when `D` is
replaced by it.

### How state and actions correspond to the code

**Heap.** An address is `<<page, offset>>`; `allocs` is `m_allocs`, `buffers`
the number of pages, `buffer_pos` is `m_buffer_pos`, an offset into all pages
laid end to end. `malloc` is the disjunction of five actions, one per way it
ends: too large, in a gap, bump, new page, out of memory. `FirstHole` is the
first-fit scan, page by page, which sees a gap only *before* a block.
`m_allocs` is ordered by address, and within a page that is the order of the
offsets; between pages the scan filters by page, so their order does not
matter. `MaxPages >= 1` is assumed: with a limit of zero, which the shell
accepts, the test `==` is never met and the heap is unlimited.

**Storage.** One function per map. `Insert` includes the call of `remove`, with
its omission of the bools; `Apply` includes its checks in the order of the
code. Strings and doubles are opaque; a double passes through `float` on its
way in (`Narrow`), so that the double map holds `Floats` only; an integer is 64
bits wide (`Wrap`). The history variable
`request` holds the latest request, so that the refinement says which answer
follows which request.

**Ledger.** `contract_balance` and `send_map` are the globals; `funds` is a
history variable, the balance the transaction began with; words are
`2 * HalfWord` wide and amounts are signed. `Send` credits, checks, debits and
checks in that order: an error after the credit would leave it in place.
`Reset` is what `execute_program` does with both globals first. `Transaction`
extends the module: the variables and the operations are the same there, and
the specification of the ledger alone is `LedgerSpec`.

**Calls.** `frames` holds an interpreter per entry: its step count, the depth
of its first and of its current scope. `Charge` is `CHARGE_EXECUTION`. `Call`
makes a scope and an interpreter with a copy of the count, `CallNative` a scope
only; `Calldata` and `CalldataNative` are the same made from outside, and a
native function called from there ends the run at once. `Return` keeps the
caller's old count (a `Call` node) or takes the callee's (`calldata`);
`Unwind` takes the callee's. The program is abstracted to any order of these.
`executed` is a history variable: all charges made, counted up to one more than
the limit.

**Interp.** `Compiler` turns statements into the nodes `Compiler.cpp` emits, one
level of nesting on top of the other. `stack` holds the activations of
`execute_next`, each with where its node starts, `loop_state` as it sees it, and
how far it is in its `case` (`step`, 0 until the type is read); one action per
node type goes on with the innermost. `Calls` is a call of `execute_next`,
`Returns` its end, with the `move_to(start)` at the bottom of the function and
what the caller does with the result and the loop state (`Resumed`). `Skip` is
one node passed over by `skip_next`, which never calls `execute_next`: `toSkip`
counts the nodes all its activations together have still to pass. Expressions
are single nodes. A test of an `if` with an `else` may turn out to be no boolean,
which throws; without an `else`, and in a `while`, any value will do. Outcomes of
tests and iterators are drawn one at a time, so
that the state space is the tree of all executions. `Python` gives the same
statements their meaning in Python, over the syntax tree (`Do`, `DoSuite`,
`DoLoop`); it is a module of its own because it is recursive.

**Containers.** `objects` are the values that list elements, dictionary entries
and variables share; a list may also hold `None` (`Items`), which `append` takes
from a function that returned nothing and an assignment refuses. Index checks
are those of the code, with `size()` modulo `WordSize`. A dictionary's iterator
is the key of the node it points at, computed when it is *advanced*, before the
body runs. `result` is what the last subscript gave.

**Names.** `scopes` is the chain of all live scopes, the global one first: the
parent of a callee's scope is the scope it is *called* from. A scope has its
values, its `global` tags and `m_require_global`, which is set for calls and not
for loop bodies. That the interpreter binds `store` in the global scope first is
an assignment like any other. `PassesOn` is the test of `Scope::set_value`,
`Target` the scope its recursion ends in, `Lookup` is `get_value`. Which
statement an assignment comes from does not matter here; any order of them is a
behaviour.

**Entry.** `code` is what `Compile` makes of a list of statements, one cell per
node with its word or text. `Import`, `ImportFrom`, `FunctionDef`, `Pass` and
`OperandAgain` are the node types the top level allows, `Refuse` all others.
`AfterOperand` is where `LoopState::IgnoreAll` leaves the cursor. `Statement` is
the set of all statements, `Programs` some sequences of them, of any length, and
`Members` tells the functions of each module. `ReadName`,
`ReadCount`, `ReadArgument` and `Invoke` are `calldata`, one read at a time; a
message is a sequence of numbers, and reading past its end throws, except for
the number of arguments.

**Numbers.** `holds` maps a variable to the object it shares; `Assign` makes a
new object, whose value `create_integer` cut to 32 bits unless it is one of
`Inputs`: an argument of `calldata`, a stored integer or the result of
`int("...")`, which keep 64 bits. `Augment` changes the shared object in 64
bits. `range` is the iterator made last, with the 32-bit
fields of `RangeIterator`; `loops` counts the loops that run over it.
`yielded` and `ended` are history variables.

**Transaction.** `Begin` is everything before the `try` block. Two things throw
there and leave `execute_program` (`Refuse`): a limit of zero, and a kept store
the archive cannot read back, which is one with an infinite double; since
doubles are opaque, any store with a double may be one (`Unreadable`). `Finish`
is the end of the `try` block and its four handlers; in between a program pays
one step for each thing it does, as in the innermost interpreter of `Calls`, and
`CallReturns` sets the count back as a returning call does. `Keep` is the host
storing what was serialised. The limit and the bill are cut to `Word32`.

## Runs

| Run | Bounds | Shows |
|---|---|---|
| `heap` | page of 5 units, 2 pages, sizes 1, 2, 3, 5 | no overlap, no more pages than the limit, the bump area unused, "Invalid offset" never thrown; refines `AbstractHeap` |
| `storage` | 2 keys, 1 string, 2 doubles, integers of 2 bits | at most one type per key apart from old bools; refines `AbstractStore` |
| `ledger` | 2 valid and 1 invalid address, 3-bit words | conservation, no overflow in `send`, payments only grow |
| `calls` | limit 7, depth 4 | counts nested, limit reached only by throwing, the bill matches the ending, depth bounded, termination |
| `interp` | the bodies of `MCBodies`, nested at most 4 deep, 8 outcomes | cursor at the end, loop states contained, Python's effects up to a `continue` or a refused test |
| `containers` | 3 keys, 2 objects, list of 2, integers of 1 bit | loops see all elements in order |
| `list_assign` (violation) | as `containers` | `a[0] = x` throws |
| `transaction` | 1 key, 1 receiver, 2-bit balance, 32-bit words cut to 5 values, gas 4, 5, 9, prices 1, 2 | billing, payments and the store across transactions |
| `names` | a name and a builtin's, 2 objects, depth 4 | what is assigned is read; callees keep variables; body names are new |
| `entry` | all programs of up to 3 of 14 statements, all prefixes of messages with up to 2 arguments | cursor at a statement, names bound as in Python, called with what was sent |
| `import_drops` (violation) | as `entry` | a function behind an import is not bound |
| `numbers` | 2 variables, `int32_t` -3 .. 2, `int64_t` -6 .. 5, inputs -6 and 3, steps 0 and 2, 2 loops | widths, the numbers of a range, the end of a loop over it |

Why the bounds are enough. In the heap, a page holds two or three blocks, so
that gaps appear before, between and after blocks, and are filled exactly and
in part; the largest size is the refused one. In the store, one operation
involves one key, and a second shows that it leaves others alone. In the
ledger every sum of two words is tried, including those that overflow. A limit
of seven lets one call finish, be forgotten, and another be made; a depth of
four is reached by loops and calls together. `MCBodies` has each statement in
each position the cursor rules distinguish: alone, before another statement, in
a taken and an untaken branch, in a loop and in a loop in a loop, and eight
outcomes are two iterations of a nested loop. With three keys one can be
inserted before, between and behind the nodes an iterator has reached. In the
transaction, the gas amounts give a limit that is exact, one that is cut, and
one that is cut to zero. A chain of four scopes has every combination of calls
and loop bodies that the rules of `set_value` tell apart: two scopes of either
kind between a variable and an assignment to it. Three statements put an import
before, between and behind definitions, and two arguments end a message in
every part of an argument, including one whose text looks like the next. In
`numbers` the position wraps around in a few steps, results of operators do not
fit in 32 bits, and in-place updates wrap in 64; the third argument of `range`
is bounded (`Steps`) to zero and two, a negative one being either empty or
without an end.

Two runs switch deadlock checking off: `containers` and `list_assign`, because
an exception ends the program. The walk of `interp` ends in a step of its own
(`Halted`), so that a machine that gets stuck in the middle of a node would be
a deadlock.

### Fairness

`Calls`: `FairSpec` assumes weak fairness of `Step`, all that an interpreter
does: one thread executes the program and never waits for anything, so it takes
some step as long as there is one. No fairness is assumed between different
steps, and a program may loop for ever as far as fairness goes. That it ends
nevertheless is what `Terminates` shows: steps a finished call does not hand
back are bounded, because each call begins with a charge of its caller.

`Numbers`: `FairSpec` assumes weak fairness of `Loop`, the next round of the
innermost loop or its end. A body is finite, or it is ended by the step limit
(`Terminates`), so the loop goes on. `RangeEnds` then says that the loop does
not step over its end.

### What the violation runs found

* `import_drops`: an import leaves the cursor at its operand, which is executed
  again as a statement and uses up one turn of the statement list. For each
  import that is not the last statement, one statement at the end of the program
  is never executed, and nothing is thrown. `LoadedIsPrefix` says exactly which
  statements are reached.
* `list_assign`: `List::set` and `List::apply` refuse every index, because
  `-size()` is computed without a sign. As a consequence elements of a list are
  never replaced, which `ListLoopInOrder` relies on.

### Other disagreements with Python or with intent

The models have the following behaviours as the code has them; the properties
above are stated so that they hold in spite of them.

* `PersistableDictionary::remove` erases the int map twice and the bool map
  never; a numeric update of such a key is refused ever after.
* A call that returns normally does not hand its step count back, so more steps
  than the limit are executed and the bill is too low. (`BillMatchesEnding` and
  `BilledWithinGas` hold nevertheless.)
* The bill is the number of steps times the price, cut to 32 bits. A program that
  ran out of gas has used up the steps of its limit, which is what
  `BilledWithinGas` says, but can be billed less than they cost.
* A kept store with an infinite double, which a double beyond the range of
  `float` becomes, makes every later transaction throw before it begins.
* The loop state is not reset between iterations: one `continue` disables the
  body for the rest of the loop. `FollowsPython` therefore compares the
  effects only up to the first `continue`.
* `skip_next` does not know list comprehensions and `global`, so neither may
  stand in a branch that is not taken.
* An `if` with an `else` throws "not a boolean!" for a test that an `if` without
  one accepts (`Interpreter.cpp:1097-1100`).
* `suicide` reports an overflow when the balance is zero and the receiver was
  paid before (`blockchain_module.cpp:241`, `<=`).
* A heap whose blocks have all been freed still reports out of memory once the
  bump pointer has reached the end (`MemoryManager.cpp:90-96`).
* Names are dynamic. A `global` assignment in `f`, called from `g`, lands in
  `g`'s scope, or in the body of `g`'s loop, where it is lost with the
  iteration. `global` in a loop body has no effect, since only a call's scope
  looks at its tags. A function that bound a name before it declares it global,
  of which the parser only warns, goes on reading its own variable.
* Default values of parameters are executed in the interpreter's own global
  scope, at depth 0, where only definitions, imports and `pass` are allowed:
  any default value throws "Wrong code". `import a, b` throws "Invalid value
  cast".
* Operators and literals make 32-bit integers out of 64-bit computations,
  augmented assignments do not. A range is used up by the first loop over it, where
  Python's can be iterated again. A range whose position leaves `int32_t` wraps
  around; one with step zero never ends, one with a negative step is empty or
  never ends. The quotient of the smallest `int64_t` and -1 is undefined
  (status "trapped"); augmented assignments and inputs reach that value.
* Several of the repository's tests run statements at the top level, or use
  default values there (`test/functions.cpp:40-66`), which the interpreter now
  refuses (`Interpreter.cpp:390-397`). They disagree with the code as a whole,
  and no property is about them.

## Proofs

TLAPS proves the following for every value of the constants that meets the
assumptions named in the modules.

* `HeapProofs` (any page size, page limit and set of sizes): `HeapSafe`, the
  inductive invariant; `NoOverlap`, `HeapTypeOK`, `BumpAreaFree` and
  `OffsetsValid` from it; `HeapRefines`, the refinement of `AbstractHeap`.
  `BlocksDisjoint` alone is not inductive: a bump allocation needs that nothing
  lies behind the bump pointer (`BumpAreaUnused`), and that the pointer is in
  the last page (`BufferPosInLastPage`); a gap's allocation needs that
  `LastPos` is the end of the nearest earlier block.
* `StorageProofs` (any keys, values and integer width): `StorageSafe`, the
  types and `OneTypePerKey`; `StorageTypeOK`; `StorageRefines`, the refinement
  of `AbstractStore`. Without `OneTypePerKey` the order in which `get` looks at
  the maps would matter after an `insert`; with it, a stale bool is shadowed
  for ever, because nothing ever removes a key from all three other maps
  without putting it into one.
* `TransactionProofs`, of the ledger (any word size and receivers):
  `LedgerSafe`, the inductive invariant; `LedgerTyped`; `ReceiversBounded`;
  `SendExact`, the overflow errors of `send` are unreachable; `LedgerMonotone`;
  `LedgerConserves`. `SendNeverOverflows` needs that a receiver's payments and
  the balance together are at most `funds`, a word (`NoReceiverExceedsSpent`):
  then both sums are exact. Conservation is about the sum of a map, which is a
  fold over the set of its keys; that changing one entry changes the sum by as
  much is proved by induction over finite sets of keys.
* `CallsProofs` (any limit and depth): `CallsSafe`, the inductive invariant
  `CInv` over the whole sequence of frames, and all five invariants of the run
  from it. It says that along the chain the counts rise and the depths rise
  strictly, that no count exceeds the history, and that a count at the limit
  goes with the exception; `Unwind` needs the first, `Call` the second.
* `NamesProofs` (any names, objects and depth): `NamesTypeOK`,
  `NamesBodyNamesAreNew` and the action properties `NamesCalleesKeepVariables`
  and `NamesReadsWhatWasAssigned`. The invariant `Chain` is stated of any chain
  of scopes rather than of the variable, because an assignment of a pair goes
  through a chain that is never a state. That an assignment arrives somewhere
  (`TargetExists`) rests on the least element of a set of numbers.
* `NumbersProofs` (any finite set of variables, any widths): `NumbersSafe`,
  `NumbersTypeOK`, `NumbersRange`. The invariant ties the position to the
  history: as long as the history is complete, `pos` is the next number of the
  range, so no loop, however nested or left, can repeat or miss one. A new
  object always finds a name that is not in use (`NameLeft`), because the other
  variables hold fewer objects than there are variables.
* `ContainersProofs` (any keys, values, indices and lengths below half of
  `WordSize`): `ContainersSafe`, `ContainersTypeOK`, `ContainersListLoop`,
  `ContainersDictLoop`. The list loop needs `EveryIndexRefused`: were an index
  ever accepted by `set`, an element already yielded could change. The
  dictionary loop needs that the keys that were there when it began still are.
* `TransactionProofs`, of `execute_program` (any gas, prices, keys, values and
  widths): `TransactionBill`, `TransactionTypeOK`, `TransactionBalances`, and
  `TransactionRefines`, the refinement of `AbstractContract`. `TransactionBill`
  is about the steps that are billed as well as about the bill. It rests on
  two facts: the count is at the limit exactly when the program ran out of gas
  (`Counting`), and the limit, cut or not, costs at most the gas (`LimitType`).
  The balance rests on the ledger's conservation; the refinement on the lemmas
  of `StorageProofs`, stated again for the instance `Store`.
* `CodeProofs`, of `Entry` (any programs, messages, modules and names):
  `EntryCursorAtStatement`, `EntryLoadedIsPrefix`, `EntryCalledWithWhatWasSent`
  and `EntryTypeOK`, from two inductive invariants, `EntryLoads` and
  `EntryReads`.
  - `LoadInv` says that for some `j` the names are Python's for the first `j`
    statements and the cursor is either at statement `j + 1`, with `j` and the
    imports among them counted, or at the operand of statement `j`, an import,
    whose second turn is still to come (`Loads`). `LoadedIsPrefix` alone speaks
    only of the end, and `CursorAtStatement` does not say what was bound on the
    way. Each action uses the layout of the node it reads (`StatementLayout`,
    `DefLayout`, `ImportLayout`): that `read_function_stub` ends at the next
    statement is the sum of what `CompileDef` wrote.
  - `CallInv` says that the part of the message before the cursor is, cell by
    cell, the encoding of the name, of the arguments announced and of the
    arguments read. `CalledWithWhatWasSent` speaks of a finished call only.
  - Both need to know what a flattened sequence and a left fold are. `FlatSteps`
    proves that `FlattenSeq` adds one sequence at a time, `BindAllBinds` that
    the fold over an import's names leaves each name with the last binding.

* `CodeProofs`, of `Interp` (function bodies of any length and depth, any
  number of outcomes): `WalkTypeCorrect` and `EndsAtEnd`, from the inductive
  invariant `WalkInv`.
  - The cursor says nothing of the structure of the code, since the nodes of a
    body are a flat sequence. What gives it back is a number per position: how
    many nodes are still to come there (`Counts`). It starts at one, a node
    takes one away and adds its `Children`, and it is zero behind the last.
    `CodeIsWhole` proves, one level of nesting after the other, that the
    compiler's code has such numbers, and that what a clause begins with is
    followed by what it needs (`Shaped`): a suite stands where a loop expects
    its body.
  - `Spans(h, i, k, j)` says that `k` nodes that start at `i` end before `j`:
    the number falls to its old value less `k` at `j` and not before. This is
    what `skip_next` computes, and the lemmas about it are those of a bracket
    language: spans begin, end and join.
  - `Walking` says of the stack that every activation stands between two of its
    children (`Stands`, `Behind`), that the one above it is at the child it
    called and was given the loop state it hands on (`Parent`), and that the
    loop state it sees is one its place allows (`Fits`): only a loop body, or
    what is in a loop body, sees `Break` or `Continue`, and only after a
    statement that jumped. `CursorAtEnd` alone is far from inductive: that a
    loop whose body broke out ends at the right place needs that a loop body
    goes back to its start, that this is where the body begins, and that
    skipping it from there ends where executing it would have.
  - A return is the difficult step: the caller goes on, behind the child or at
    its beginning, and takes over a loop state. `Comes`, `Waits` and `Resumes`
    split it into what comes back, who waits for it, and how it goes on; there
    is one lemma per kind of caller.

Where a fact is about data of any size, the induction is made by hand: a set of
numbers that has zero, and with a number its successor, has all of them
(`SetInduction`), because a non-empty set of numbers has a least one
(`LeastNumber`), and that because the finite sets are well-founded under strict
inclusion. The recursive functions inside the library's folds are introduced
the same way: a function that satisfies the equation up to `n` is extended to
`n + 1`.

Assumptions are those of the modules (`PAGE_SIZE` positive, at least one page,
positive sizes, valid and invalid addresses disjoint, words not empty, keys
between the marks of a map, memory that ends before a list has 2^31 elements,
literals of 32 bits, imports of one name at least, messages of numbers, names
of modules and builtins among the names); TLC evaluates them in every run.

Only model-checked:

* `Terminates` and `RangeEnds`: liveness under fairness.
* `FollowsPython`: the meaning of a statement in Python is a recursive operator
  over the syntax tree, which the provers cannot use, and that the walk follows
  it is an induction over that tree.

## Not modelled

* In `Entry`, the throw for a function name of length zero
  (`Interpreter.cpp:1446`), which the parser never makes, and the refusal of a
  parameter without a default behind one that has one (`Interpreter.cpp:105`): at
  the top level any default is refused before.
* Which doubles become infinite floats, and what else the text of the archive
  does to the digits of a double.
* Definitions and imports inside functions, and the argument helpers of native
  functions (`args.h`).
* Strings, floats, comparisons, `and`/`or`, tuples, `contains`, `print`, `len`
  and `str`: pure functions of their operands that keep no state.
* Vendored code: the parser, the bit stream's bytes, snappy, and the address
  check, of which `Ledger` takes the result as a constant.
* The RC4 generator, a pure function whose quality is a statistical question;
  the geo and rand modules, which are stateless.
* The shell, the REPL and the Python bindings: input and output.
* A gas price of zero, which divides by zero before anything else happens.

## Plan

Done, in this order: `Heap`, `Storage`, `Ledger` with their abstract
specifications and proofs; `Calls`; `Interp`; `Transaction`, which composes
`Storage` and `Ledger`; `Containers`; `Names`; `Entry`; `Numbers`; the proofs of
`Calls`, `Names`, `Numbers`, `Containers`, `Transaction`, `Entry` and `Interp`.

Next:

1. `Entry`: definitions and imports inside functions, where the same cursor
   rules meet loop states; composition with `Interp`.
2. `Containers`: tuples and `contains`, and unpacking in loops with two
   variables.
