# Verification of joyeer

joyeer is a small Swift-like language: a single-threaded compiler to bytecode and a
stack-based virtual machine that runs it (`src/lib`, `src/include`). This directory holds
TLA+ models of its parts, their model-checking configurations and machine-checked proofs.

    tlc -workers 2 -config ExecutorStatic.cfg MCExecutor     # any run: see the table below
    tlapm ExecutorProofs.tla                                 # the proofs, one module of them

## The system

`main` hands the source file to `Driver`, which boots the compiler and the VM in one process.
`CompilerService::compile` runs five stages over one `CompileContext`, and stops after a stage
that has reported an error; the VM runs only when there is no error at all.

| part | state it keeps | operations | hard behaviour | what makes it correct |
|---|---|---|---|---|
| Scanner `LexParser` | iterator, line, tokens | one loop per token class | loops that must advance, look-ahead at the end | ends on every text; tokens cover the text |
| Syntax parser | token cursor, scope flags | ~60 `tryParse..`/`parse..` functions that backtrack | a failing alternative after tokens were consumed | a failed parse is reported; no token is skipped |
| `TypeGen` | type table, symbol tables, current class/function | a visitor per node; flattening of expressions to postfix | operator precedence in one pass, duplicate declarations | postfix order = the precedence grammar; slots are unique |
| `TypeBinding` | symbol tables, `typeSlot` of nodes | resolution of names, members, calls | order of declarations, Optional promotion | every node the generator reads is resolved |
| `IRGen` | bytecode writers, one per block | a visitor per node, `autoWrapping` | operand balance, jump offsets | code leaves the stack as the statement found it |
| Executor | word stack, `fp`, `sp`, `frames`, C++ recursion | one handler per opcode, `execute` per call | who removes arguments, receiver and result; nesting | calls are balanced and isolated |
| Heap and objects | one page, `used` | `allocate`, arrays, dictionaries, strings, builders | capacities, chains of objects in flat memory | objects behave as maps, sequences, strings |
| Bytecode, buffers | 32-bit words, doubling buffer | encode, decode, append | signed operands in 24 bits | decoding inverts encoding |
| Compiler service, driver | type table, symbol tables, diagnostics | bootstrap, `declare`, optional registration, `compile` | fixed slots, stages after errors | a slot names one type; nothing runs after an error |
| Descriptor parser, debug printers | - | - | - | not used by the pipeline / output only |

How they interact: the compiler stages communicate through the syntax tree and the shared
type table; the compiler and the VM through the type table (`Function::bytecodes`,
`paramCount`, `localVars`, `returnTypeSlot`, `isStatic`) and the string table; the executor
calls the built-in C functions of `sys.cpp`, which call the heap. There is no thread, no
callback from another process, no I/O beyond reading the source and printing: what is hard
is not concurrency but protocols split over several parts (who pops what), limits nobody
checks (capacities, the stack, the page), and loops and early returns.

## Modules

| module | what it is |
|---|---|
| `RuntimeFunctions` | `struct Function` and the operand words a call site provides (IRGen) against the words `execute` removes |
| `CallMachine` | abstract: activations that own their locals and operands, no stack |
| `Executor` | `InterpretedExecutor` and the instruction handlers over one flat stack |
| `ExecutorProps` | its properties, and the mapping to `CallMachine` |
| `ExecutorProofs` | the proofs, that it implements `CallMachine` included |
| `MCExecutor` | two function tables for TLC |
| `Heap` | the page, `GC::allocate`, the layout and the operations of the built-in objects, as operators from heap to heap |
| `ObjectStore` | abstract: dictionaries are maps, arrays sequences, strings values |
| `Objects` | programs over `Heap`: any order of NEW, ONEWARRAY, SCONST and built-in calls; the mapping to `ObjectStore` |
| `ObjectsProofs` | the proofs |
| `MCObjects` | key sets for TLC |
| `Scanner` | `LexParser`: one action per loop, one step per iteration |
| `ScannerProps` | the lexical grammar, stated without loops, and the scanner's properties against it |
| `ScannerProofs` | the proofs |
| `MCScanner` | the texts TLC scans |
| `Parser` | `SyntaxParser`: every parse function as a list of steps, and the machine that runs them over the cursor |
| `ParserProps` | the grammar, stated without a cursor, and the parser's properties against it |
| `ParserProofs` | the proofs |
| `MCParser` | the texts TLC parses, by part of the grammar |
| `Flatten` | `TypeGen::visit(Expr)`: assignment or postfix list, one action per branch of its loops |
| `FlattenProofs` | the proofs |
| `MCFlatten` | the expressions TLC flattens |
| `Statements` | the statements of a body, and what is to be executed after each |
| `StructuredRun` | abstract: a body executed statement by statement, without code |
| `CodeGen` | IRGen's visitors of statements: the bytecode of a body |
| `ControlFlow` | the interpreter's program counter and operand count over that code; the mapping to `StructuredRun` |
| `ControlFlowProofs` | the proofs, those about `Bytecode` included |
| `MCControlFlow` | the bodies TLC generates code for and runs |
| `Bytecode` | the eight bytes of an instruction, their decoding, and the growing buffer |
| `Induction` | induction and recursion over the numbers in a form the provers can use, and `FlattenSeq`; the proofs rest on it |
| `TypeTable` | names, types, `declare`, optional registration, the bootstrap of the built-in types |
| `Compilation` | what the passes share: syntax tree, symbol tables, `CompileContext` |
| `TypeGen` | the pass that declares types and symbols |
| `TypeBinding` | the pass that resolves names, members, calls and types |
| `IRGen` | the pass that emits loads, stores, calls and returns, `autoWrapping` included |
| `Compiler` | `CompilerService::compile`: the passes in a row, with the checks between them |
| `CompilerProps` | what names, types and places a program means, and the compiler's properties against it |
| `CompilerProofs` | the proofs |
| `MCCompiler` | the programs TLC compiles |

### The executor

Addresses count words of `kValueSize` bytes. `fp`, `sp`, `frames` and `stack` are the
fields of `Executor` and `InterpretedExecutor`. `calls` is the C++ stack: `execute(function)`
recurses for each INVOKE and keeps `savedFP` in a local. Two ghost fields of an activation
record what no variable of the program does: `depth` counts the operands the code generator
has pushed and not consumed, `lost` counts the words its completed calls removed in excess.

The bytecode is any code the generator may emit. An instruction is enabled if the operands
it takes are there by the generator's count (`Takes`), not by the stack pointer: where the
two part is what the properties are about. Instructions with the same stack effect are one
action (`Compute`, `Discard`) with any result value, and branches are invisible because any
instruction may follow any other. `Start` is `execute(module)`; `InvokeVM` is `Handle_INVOKE`
and `execute(function)` up to the interpreter's loop; `Leave` is everything from the
interpreter's return to the next instruction of the caller: reading the return slot,
`pop(savedFP)`, removing the arguments, pushing the result. A C function runs no bytecode,
so `InvokeC` is one action. The words of a frame header are not written (nothing reads the
frame type and the slot), except the return slot, which RETURN leaves as it was.

Properties: `FrameDiscipline` (`frames`, the recursion and `fp` agree: the assertion in
`pop(Slot)` holds), `StackPointerLaw` (where `sp` is, exactly, with the excess counted),
`CallsBalanced` (no excess), `LayeredActivations`, `LocalsIsolated` (only an ISTORE of the
running activation changes a local) and `ImplementsCallMachine`.

What they show: in programs whose VM functions are static, calls are perfect. `execute` removes
`paramCount` words and one more for a function that is not static; for built-in methods,
whose `paramCount` does not count the receiver, that is right, but `FuncDecl::bindClass` has
made `self` a parameter of every method and constructor. So each call of a method or of a
constructor takes one word too many from its caller. In the trace of `ExecutorMethods` the
module pushes one operand, calls one of the two (which one TLC comes to first is up to its
workers) and has lost a word when the call returns. `StackPointerLaw` says what stays true
then.

### The heap and its objects

A heap is a record: the words, `used`, and `ok`, which turns FALSE where an assertion of
`Page::allocate` would abort. All objects are laid out in words as in `types.h` (a character
takes a word). `ArrayAppend` has the code's missing capacity check. Dictionary values are
Optional objects, and `DictEntry::setValue` allocates a second wrapper it drops, as the code
does. `Objects` lets a program make objects and call the built-ins in any order; `roots` are
the objects its variables hold.

`ImplementsObjectStore` maps each root to its abstract value by the get operations of the
code. `FreshWordsAreZero` is the assertion of `Page::allocate` as an invariant.
`DictsRemember` says an assignment `d[k] = v` changes at most one key of one dictionary.
They hold as long as a bucket has at most four keys and a builder eight strings
(the bounds `Full` of the run `Objects` reach both); `DictOverflow` shows what happens beyond. A concatenation of nine operands
likewise stores its ninth behind the builder's array, where the page's assertion finds it.
`ImplementsObjectStore` alone would accept an operation that does nothing (a stutter of the
store), so `OperationsTakeEffect` says that each operation that does not abort is the
store's operation of the same name.

### The scanner

A character of the model stands for all characters the scanner treats alike: `a` for
letters and `_`, `1` for the digits 1 to 7 and `0`, `8` for themselves, `!` for the
operators that may be followed by `=`, and so on. `mode` says which loop of `LexParser` is
running, `at` is the iterator, `start` the local `startAt`. A step is one iteration of the
loop, or one turn of the main loop's `switch`. `ScannerProps` states the lexical grammar
of `docs/grammar.md` without loops: a lexeme is the longest or shortest stretch of a form,
and a text is read lexeme by lexeme up to the first malformed one (`Readings`).
`TokensAreLexemes` and `MalformedReported` compare the two on every text the scanner reads as
documented; `Terminates` says that every loop advances. One thread runs the loops, so weak
fairness of `Next` is all it assumes: the scanner is not suspended for ever.

The scanner departs from that grammar in two places. The properties leave out the texts in
which one of them is met (`AsDocumented`), as they would be violated there:

- "single-line-comment-text-item -> Any unicode scalar value except U+000A or U+000D"
  (`grammar.md:40`), and U+000D is a line break (`grammar.md:36`). `parseCppComment` ends a
  comment at `\n` only (`lexparser.cpp:335`), so in a file whose lines end with a carriage return
  alone all that follows the first `//` is comment: with CR for the carriage return, `//CRa`
  has no token, and the comment that `//CR/*` does not close is not reported. A comment ended
  by a carriage return and a newline is read as documented, and is among the texts compared.
- "operator -> operator-head operator-characters /opt/" (`grammar.md:85`) makes `++`, `==+` or
  `*!` one operator. The scanner knows the pairs its `switch` looks ahead for
  (`lexparser.cpp:75`) and reads anything else as several operators.

Of the 13 164 texts of the run 1 637 depart, 100 of them through a comment. In one more place
the grammar is not followed by the code and is not compared with it: hexadecimal literals, for
`0x1f` is the number 0 and an identifier. Where `grammar.md` says nothing or too little
(octal literals, a `0` inside a decimal literal, what `\` does in a string) the grammar of
`ScannerProps` says what the code does.

A decimal literal with a fraction that is not the end of the file keeps
`parseNumberLiteral` in its loop (`ScannerFraction`); the texts of the run `Scanner` leave
such literals out. Abstracted: the values and columns of tokens (`std::stoi` throws beyond
31 bits, and an octal literal's value starts from an uninitialised integer), and the table
of keywords, which are identifiers here. The grammar of `ScannerProps` counts lines as the
code does: a line break inside a comment or a string does not count.

### The parser

A parse function is a list of steps, each with the step to go on with when it succeeds and
when it fails: eat a token (`tryEat`), call a parse function, report an error, step back
(`previous`). `Node` and `Null` are what it returns, and `Error` is `reportError` with
`return nullptr`. The machine has the cursor, the C++ stack of calls and a flag for
`diagnostics`; a token is its kind, or its text where the parser asks for it. Nodes are not
built: what the properties ask is which texts pass. The text is chosen token by token when
the parser first looks at one, so a run covers every text of a family; once an error is
reported the text ends, as more tokens cannot undo the report.

`ParserProps` states grammar.md as a grammar over positions (`Ends`), leaving out what the
parser has no function for. `AcceptedIsLenient` and `NoFalseAlarm` are the two directions:
what passes is in the grammar, or in the list of what the parser is known to abandon
silently (`Lenient`); an error is reported only when no text of the grammar begins like
the tokens seen. The second is stated for texts with one reading (`Separated`): a statement
that begins with `(`, `[` or an operator belongs to the expression before it. A trailing
comma in an array literal, which grammar.md allows, is reported, and so left out.
`BacktracksOrReports` is what backtracking rests on: a function that returns nullptr has
reported or has left the cursor where it was, except `tryParseIfStmt`,
`tryParseConstructorDecl`, `tryParseTypeArray` and their callers. `Terminates` assumes weak
fairness of `Next`: one thread runs the parser.

The exceptions are why `if a < 2 { .. } else while b { .. }` runs as the while loop alone
(`ParserLostIf`). They also let `{ if a }` pass as an empty block. A text whose next token
no statement begins with, such as `}`, is given up without a report; `compile` then goes on
with no module and crashes in TypeGen.

### Flattening of expressions

The parser makes `prefix op expr op expr ...`; `TypeGen::visit(Expr)` turns it into the
order in which IRGen emits operands and operators, in one pass over a list with two deques.
A node is represented by the operands and operators it emits. `Assign` and `Flat` are the
two ways in, with their two errors; one action per branch of the first loop, one step of
`Assemble` per iteration of the second. The reference `Postfix` knows no deques: the last
operator of the lowest priority is the root. `PostfixOfGrammar` compares them;
`NothingMissing` says that the places where the code reports "[Error] Except" and takes the
element all the same, or takes without looking, always find one.

There are two priorities, and comparisons are in the high one with the products: `a + 1 < b`
means `a + (1 < b)`. No document states a precedence, so that is how the grammar is stated
here. Sub-expressions are visited recursively; the model is one call of the visitor.

### Code generation and the program counter

`CodeGen` follows the visitors of statements: an if writes its branches into writers of
their own, and the sizes are jump operands (`EmitIf`, `EmitIfElse`); a while jumps back by
`position - writer.size() - 1` (`LoopBack`); a block pops the unused result of a call
(`PopUnused`); a module and a procedure get a return at the end (`EmitBody`). A visitor calls
`emit` for the statements of its block; here each takes the code of those statements as a
parameter, and `Emit[n]` is the code of all statements whose blocks are nested `n` deep, made
from `Emit[n - 1]`. The constant `Nesting` says how deep those of `Sources` are.
An instruction is its eight bytes (`Bytecode`), and a handler decodes its operand from them,
the negative one of a backward jump too.
`ControlFlow` runs the code: one action per handler, `cp` counts instructions, and a word of
the operand stack is 0 or 1. Calls and tests carry the number of their statement, so what
the code does can be compared with `StructuredRun`, which executes the statements
themselves: `ImplementsStatements`. Assignments and bare expressions are not seen, so what
remains of a body begins with the first statement that is (`Visible`). The ghost `rest` holds the statements that should
remain, `depths` the number of operands each instruction found first: `DepthIsStatic` says
that it is the same at every execution, which the stack's limit needs of a loop.
`Returns` says a body ends once its conditions are not true any more.

Conditions are `x < y`, other expressions one load: what a branch depends on is the word
the comparison pushes. (`IFNE` jumps at 0 and `IFLE` at or below 0, so with other
conditions an Int of -1 counts as true for an if and false for a while.) An `else if` is
emitted like an else block with one if. The statements of a module or function body are in
no block and get no POP; that costs at most a word each, and a body runs once.

`DepthIsStatic` holds for the bodies of `ControlFlow`, where a call in a loop is a plain
function or yields nothing. IRGen asks for the kind `funcCallExpr` before it emits a POP,
so `a.size()` as a statement in a loop leaves its result at each iteration, and so does a
bare expression `i`; a loop of enough iterations of either overruns the 4 MB stack.

### The compiler's passes

`compile` visits the syntax tree three times: TypeGen declares, TypeBinding resolves, IRGen
emits. A program is the sequence of its nodes in source order (`program`), each with its
depth; a node that opens a scope has an `end`, which stands for the rest of its visitor.
`at` is the node a pass visits next, and one step is one visit, the visits of its
expressions included: an action per visitor, a disjunct per way through it. `nodes` is what
the passes write to nodes; `stages`, `symbols` and `declTypes` are the three stacks of
`CompileContext`; `types` is the type table, `tables` all symbol tables, `exports` those of
classes by their slot, `errors` what `Diagnostics` holds, and `code` the instructions, each
with its function and the node it is for. An assertion, or a null or missing pointer the
code goes through, is `Abort`. The scanner and the parser are not run again: they have made
a module, or have reported an error, or have given up a text without a report, and then
there is no module and the first pass ends the process.

An expression is a tree: a literal, a variable, `self.x`, `o.x`, `x!`, `a[i]`, an operation
of two operands (`+`, `<`), an array, a dictionary, an empty dictionary of two types, a call
or a call of a member. TypeBinding visits what it is made of, then gives it a type
(`BindNode`); each node keeps what its visit reported and whether it came to its end, which
is what a visitor that stops half-way leaves behind. TypeGen rewrites it in methods
(`Rewritten`), IRGen emits it (`EmitNode`): a sum of strings goes through a builder from its
last operand to its first, a dictionary boxes its values, an array does not.

Types are declared by appending, and slots are numbers everywhere else. The bootstrap's
types are written out (`BootTypes`) because the slots of the built-in ones are enum
constants of the code. Names are tuples, and a signature is a name with its labels, as
`f(x:)` is. The binding pass enters a block twice: the visitor of an `if` enters it and then
visits the block, which enters itself.

`CompilerProps` reads the program without stacks, tables or passes: `Meant` is the innermost
declaration of a name around its use, `TypeOf` the type of an expression, `Reads` and
`Stored` the variables a statement uses in the order it does. Against this reading,

- `PlacesTellVariablesApart`: a statement's code reads and stores as many variables as the
  program does, in its order, and two accesses in the code reach the same place (a frame's word,
  a module's variable, a field) exactly when the program means the same variable. Places are
  counted per table, and a block counts on from its function;
- `CallsFindTheirArguments`: running a statement's code over a stack of types, each call
  finds its parameters, boxed where they have to be, with the object below them, and so do
  the built-in functions of arrays, dictionaries and builders, and ONEWARRAY as many items
  as it counts; the calls are those the program means, in its order; what is left is a
  call's result or nothing;
- `CompilesWhatIsWellFormed`: a well-formed program is compiled, and what is compiled
  declares every name it uses, once in a scope;
- `ContextIsThePathToTheNode`: the context's stacks are the scopes around the node, at every
  visit of every pass; `Leave` looks at the node's type again to decide what to pop;
- `SymbolsNameTypes`: the symbol of a class or a function names the type of that name; an
  optional type and what it wraps know each other; an initialiser returns its class;
- `NoCodeForErrors`: no code for a program a pass before the generator reported an error in,
  and no module with one; the action property `SlotsAreStable`: types keep their slots, names
  and kinds;
- `Ends`: every compilation comes to its end.

The passes do not do what this reading says for every program, and the properties say for
which they do: `Clear` (the names a statement uses are declared before it and may be used
there), `Typed` (values have the types that are asked for) and `WellFormed`. What these
leave out is what the code is seen to do:

- `k.b = 5` stores to the place `b` has in its class, but in the object of the running
  method, or over a local variable (`IRGen.cpp:353`);
- a member that a class does not have is looked up in the scopes around the access
  (`typebinding.cpp:529`);
- an assignment, and the first value of a local variable, is not boxed, though the types may
  differ (`IRGen.cpp:221`, `331`);
- a local variable of type String or Bool cannot be loaded (`IRGen.cpp:279`), and a string
  cannot be boxed into a `String?` (`IRGen.cpp:604`);
- an item is of type Int, and a dictionary's of type `Int?`, whatever was put in
  (`typebinding.cpp:555`); an array's literal does not look at its items at all;
- an operation has its second operand's type: that of `1 + a[0]` is the array's
  (`typebinding.cpp:771`), so `print` is handed a number that nobody boxed, and that of
  `n + s` is a string's;
- an operand that is a call ends the process, as its type is looked up under an empty name
  (`typebinding.cpp:710`), and so do `[Int]()` (`typebinding.cpp:186`), an item of what is
  not an array's or a dictionary's name (`typebinding.cpp:551`) and, where its value is
  used, `x!` of what is not optional (`typebinding.cpp:598`);
- the operands of an operation in a method are not rewritten, so a field there is read
  without an object (`typegen.cpp:711`);
- a variable of the module that is used in a method has the flag of a field, so a spare
  `self` is pushed below its value (`typegen.cpp:730`), and a constructor that is called
  there is taken for a method of the object (`typegen.cpp:750`);
- a variable in a block of the module is compiled as a field of an object, in a module that
  has none (`typegen.cpp:268`);
- a nested function that uses a local variable of the function around it reads its own
  frame;
- a variable used above its declaration in a function reads a place nothing was stored to,
  and a call of a function declared below ends the process (`typebinding.cpp:232`);
- so do two variables of one name (`symtable.cpp:40`), two parameters of one name, a class
  and a function of one name (`typegen.cpp:74`), an undeclared name in a function, a method
  with a result (`node.cpp:161`), a variable, a literal or anything made of one but an operation in a method's body
  (`typegen.h:98`), and an `init` outside of a class;
- a field's initial value that calls a method of its class does not give it the object; a
  method that uses a field declared below it does not make `self` explicit;
- a class in a class leaves its constructors in the tables of the outer one.

`autoWrapping(class:)`, the boxing of an object, takes the enum constant `ValueType::Class`
for the slot of its result (`compiler+service.cpp:243`).

## Runs

| run | result | bounds, and why they are enough |
|---|---|---|
| `ExecutorStatic` | passes | 14 words, 3 nested calls, 3 operands, 6 functions (with and without result, locals beyond parameters, C functions static and not): every pair of kinds nests and leaves operands below it |
| `ExecutorClasses` | passes | a class with `<cinit>`, constructor and method; 12 words, 3 calls: excess accumulates over several calls |
| `ExecutorMethods` | violated | the same program: `CallsBalanced` fails after one call of a method or of a constructor |
| `Objects` | passes | two programs. `Mixed`: 4 objects of any kind in 36 words, keys -8 and 0 of one bucket and 1 of another, 2 values, strings of 2 letters, builders of 2 strings: collisions, overwritten values and concatenations of different strings occur. `Full`: 4 keys of one bucket and 8 strings of one builder, exactly as many as fit |
| `DictOverflow` | violated | 6 keys of one bucket: the first key is lost |
| `Scanner` | passes | 13 164 texts: all of up to 3 characters; up to 5 over the characters of numbers, of strings and of comments: each loop meets each class of character after each, and the end of the file |
| `ScannerFraction` | violated | a digit, a point and a letter: `Terminates` fails |
| `Flatten` | passes | all sequences of up to 2 operators, `=` included; up to 5 over two operators of each priority, every operand different: each priority follows each, at every place |
| `ControlFlow` | passes | an if, if-else or while around up to two statements, or around another one and a statement, before or after a call, in a module, a procedure or a function with a result; 3 conditions true in a run: loops go round in loops, branches are taken both ways |
| `Parser` | passes | families of texts of 4 to 9 tokens: all short ones over the tokens of expressions, statements and declarations, and longer ones that begin as a call, an if-else, a loop, a class, a function or a typed variable; each step of each function is taken both ways (but the value after a key that is missing, which only an error leads to) |
| `Compiler` | passes | seven families, some 22 600 programs (346 000 states), each all texts of up to 3 nodes (4 for `Variables`, 2 for `Values`, a scope and its end counting as one) over 5 to 20 statements and scopes: variables in blocks and functions; functions with and without result and parameters; members of a class; its objects; annotations and optionals; what a pass does not expect; values: strings, optionals unwrapped, arrays, dictionaries, operations and calls in calls. Three nodes make a declaration, a scope and a use in every order and nesting, so a name is shadowed, missing, declared twice, used above its declaration, and used from a scope beside it; slots, tables and stages do not grow in kind beyond that |
| `ParserLostIf` | violated | `if return`: `AcceptedIsDocumented` fails |

`CHECK_DEADLOCK FALSE` everywhere: a program, a text or an expression comes to its end, and
the models stop at their bounds. The runs of the scanner,
the parser, the compiler and `ControlFlow` assume weak fairness of `Next`, nothing more: one thread runs
each of them and is not suspended for ever. The other runs check safety
only.

## Proofs

`ExecutorProofs` proves for every function table, stack size and bound:

- `InductiveInvariant`: `Spec => []IndInv`, where `IndInv` is the type invariant,
  `FrameDiscipline`, `StackPointerLaw`, `LocalsInStack` and `ResultsFit`. `StackPointerLaw`
  alone is not inductive: after a return, `fp` and `sp` come from `frames` and `savedFP`, so
  their agreement has to be known; loads and stores stay in the stack because of
  `LocalsInStack`; a result fits because of `ResultsFit`.
- from it `TypeCorrectness`, `FramesMatchActivations`, `StackPointer`;
- with the assumption `OnlyStaticCode`: `StaticInvariant` (`NothingLost`, `LayeredActivations`),
  hence `StaticCodeIsBalanced`, `StaticCodeIsLayered` and the action property
  `StaticCodeIsolatesLocals`.

One lemma per action and per part of the invariant. The assumptions are `FunctionTable` and
`StackBounds`, which TLC evaluates on every run.

It also proves, with `OnlyStaticCode`, that the executor implements `CallMachine`
(`StaticCodeImplementsCallMachine`). The mapping reads the words of each activation off the
stack: its locals above its frame, its operands above those. That an instruction on the flat
stack changes the words of the running activation and no others is `LayeredActivations`; that
the operands are where the mapping looks for them is `NothingLost`. Each action maps to the
machine's operation of that name, and `Leave` to a return, where the callee's words vanish and
the caller's operands change in one step.

`ObjectsProofs` proves for every page and every set of programs that keep to the room of the
arrays `append` stores to unchecked (`NothingOverfull`: four entries of a bucket, eight strings of a
builder; any keys, values, characters, number of objects and size of the page): `ThmHeapTypes`,
`ThmFreshWords`, `ThmImplementsObjectStore`, `ThmOperationsTakeEffect` and `ThmDictsRemember`,
the five properties of the run `Objects`. The hypothesis is not the provers' but the code's: the
programs of `Objects` reach it on both sides, and `DictOverflow` shows the sixth key of a bucket
overwriting the first.

None of the five is inductive, as nothing in a flat memory says whose word is whose. The
invariant (`IInv`, in `HeapIsLaidOut`) is that the words can be tagged: each with a purpose, an
owner and, for the value of an entry, a key, such that each word holds what its purpose asks for
(`Fits`: a slot nothing or a bucket of its dictionary, the length of a bucket at most four, with
that many entries behind it, a value a wrapper, ...), no two objects of the program share an
address, and each is found at its own. Constant words (keys, lengths, wrapped values, characters) are
never written again, so that what a later heap says of an object can differ only in words with
another tag (`Later`). A tag that is being allocated is raw, as an object is filled word by word
before anything points to it. `Step(h, t, g, u, x)` says that a program sees no difference between
two heaps but in what has the tag `x`; it is transitive, and an insert is a chain of
up to nine such stores and allocations (the wrapper, a bucket and its slot, an entry, its key, a
second wrapper, the value, the item of the bucket, its length), of which only one is seen:
the last, or the value's where the key was found. On top of that is one lemma per operation
(`NewDictStep`, `InsertStep`, `AppendStep`, ...), one for its effect on the abstract store
(`InsertEffect`, ...) and one for the action, which may also abort (`InsertKeeps`, ...).
That the key of an insert, found or not, is looked up in the bucket `get` looks in, for
negative keys too, is in `SlotIs` and `FoundIs`.

`ScannerProofs` proves for every set of texts, of any length. The invariant of
`ScannerFollowsGrammar` says for each loop what it has established of the characters since the
lexeme began (`InMode`: the stretch so far, the parity of the escapes before it, the place of a
comment's opening) and that the tokens and the line are those of a reading of the text up to
there, or that an error was reported and a reading has come to a malformed lexeme (`AsRead`).
These are readings of what the scanner takes (`Taken`: the grammar's lexeme but for the two
departures above); `ReadAsDocumented` shows by induction that in a text without departures they
are the grammar's own.
From it follow `ScannerTypes`, `ErrorsAreMalformedTexts` and `TokensAreTheLexemes`. What the
longest and the shortest stretch are, for each form, is a lemma with an induction of its own.
Texts with a fraction are included: the loop a fraction is not left by does nothing that
could violate them.

`ParserProofs` proves for every set of texts, of any length (`FamiliesAssumption` says no more
than that they are sequences of tokens):

- `CallsAreInOrder`: `Spec => []IInv`. The cursor alone says nothing while functions call each
  other, so the invariant is about the C++ stack. Every suspended call waits at the step that
  called the function above it, and has the cursor at which it was called (`Waits`); the call
  on top is fresh, or is where its own reads and the result it was last given put it (`Keeps`):
  back at its start where it may still give up without a report, one token behind it after
  the first token of a prefix expression; and a result that is nothing came with the cursor
  unmoved, or from one of the functions of `LosesTokens`, or with a report (`Frame`);
- from it `ParserTypes` and `NothingIsLost`.

`FlattenProofs` proves for every set of operands and expressions of any length:

- `FlattenInvariant`: `Spec => []IndInv`, the type invariant and `DequesBalanced`: operands
  and operators alternate in `nodes`, and the loop keeps as many operators as operands in
  the deques, or one fewer where an operator comes next;
- from it `NeverMissing` and `FlattenTypes`. That an operator of high priority finds an operand
  before it follows from the balance alone, not from the deque having been filled by the step
  before;
- `PostfixOrder`: the result is the postfix form of the whole expression. The invariant
  cuts the list at the operators of low priority the deque holds: each element of `temps` is
  the postfix form of the nodes between two cuts, and in the second loop `result` is that of
  everything before the first cut that is left. `Postfix`, a recursive function over the
  length of a stretch, satisfies its equation by `PrimitiveRecursion`; that the last
  operator of the lowest priority is its root makes assembly from the left right.

The assumption is `Expressions`: what the parser makes.

`ControlFlowProofs` proves for every set of bodies, with blocks nested to any depth, whose code
has fewer than 2^31 instructions (`SourcesAssumption`: jumps have 32 bits):

- `CodeFollowsStatements`: `Spec => ImplementsStatements`, without any other hypothesis;
- `CodeIsNotLeft`: `Spec => []WithinCode`, if functions with a result end in a return statement
  (`FunctionsReturn`);
- `OperandsAreBalanced` and `ControlFlowTypes`: `DepthIsStatic` and `TypeOK`, if no statement of a
  block leaves a word (`Tidy`).

The argument is a labelling. Every place of the code, the one behind it too, has a label: what
remains of the statements when the interpreter is there, and the number of operands. Where the
result of a comparison is on the stack there are two remainders, for 1 and for 0. `Leads` says
what one instruction asks of its label and of those it can go to, `StepFollows` that an
interpreter that is at a label stays at labels, and that what is seen on the way is what the
label's statements do next. What has to be shown then is that the generated code has labels:
`Runs` says of a piece of code that, whatever follows it, it has labels that begin with its
statements and end without them. Pieces with the same label between them join (jumps are
relative, so a piece keeps its labels wherever it is put); there is one lemma per statement,
for if and while from the same for their blocks, and the induction is over `Nesting`. In an
`if` the remainder behind the jump is the one behind the block; in a `while` the label of the
GOTO's target is that of the loop itself. With the depths left out (`x` is FALSE) no
hypothesis on the statements is needed, as nothing that is seen depends on a word that is
left on the stack. The two hypotheses say what the compiler does not enforce, and TLC evaluates
them for the bodies of the run.

`CompilerProofs` proves for every set of programs, of any length:

- `ThmNoCodeForErrors`. The invariant `CodeComesLast` adds what the property does not say:
  before the generating pass there is no code, and that pass begins without errors (the one
  report it may make itself, of a name without a variable, keeps the module from being handed
  on; in the programs run it is never made, as `TypeGen` ends at a name in a class's field and
  `TypeBinding` reports all others). A lemma per pass says where its steps may lead;
- `ThmSlotsAreStable`, from the invariant `IsTable(types)` (a sequence of types that have a
  kind and a name) and one lemma per way a visitor changes the table: `Follows` says that
  one table keeps what another has, and it is transitive, so a visitor that declares a type
  and registers its optional is two uses of it;
- `ThmContextIsThePath`: `Spec => []ContextIsThePathToTheNode`. `Pushed` puts together what the
  scopes around a node push; entering a scope, passing a node and leaving a scope each
  change it the way the stacks change (`PushedEnter`, `PushedPass`, `PushedLeave`; the end a
  pass reaches is the end of the innermost scope, `EndCloses`). What the property does not say, and
  the invariant `PathInv` adds, is why the second look at a node's type agrees with the
  first. A block never has a type. `TypeGen` gives one to every other scope it goes into when it
  goes in, so that all scopes around it have theirs; those it has passed over as declared
  twice have none, but then an error is reported and no pass comes behind (`Given`). Where
  `TypeGen` puts an initialiser with its assignments and its end in front of a class's end, the
  program stays a tree, and the scopes around the node the pass is at stay the same (`GrownIsTree`,
  `GrownPath`, `ConstructorIsPut`).

- `ThmSymbolsNameTypes`: `Spec => []SymbolsNameTypes`. The property looks only between two
  passes; the invariant `SymbolsInv` says at every visit that the type table is `Tied` (its
  links and initialisers lead back) and that every table names types (`Sound`), and adds what
  keeps it so. A symbol that TypeBinding writes must be a variable's, so every variable and
  parameter has to be in the table of its scope: `DeclaredTo` says so of the nodes TypeGen
  has come past (`FirstAreIn`: of a function it has just entered, of the first parameters),
  and `AllDeclared` of the whole program afterwards; that the current table is the one of
  the node's scope is `PathInv`. The function whose result TypeBinding sets must not be an
  initialiser, whose result ties it to its class (`FunctionsAreCalls`). While TypeGen
  declares, no symbol's slot lies behind the table (`Early`), so an optional is bound to a type
  that is there. One lemma per visitor of each pass follows: tables change by `Inserted`
  and `Retypes`, types by `Declare`, `DeclareOptional` and changes that tie nothing.

The assumptions are `ProgramsAreTrees` (the parser's scopes nest, each with an end, and the module
is around everything else) and, for the last one, `ParametersAreLists`. TLC evaluates them for
the programs of the run, and has checked `PathInv` and `SymbolsInv` on them.

About `Bytecode` the module `ControlFlowProofs` proves for all numbers: `OperandsAreKept` (an operand of 32 bits, negative
ones too, is decoded as it was encoded), `PairsAreKept` (two operands, the first one
unsigned in 24 bits, the second of 32) and `WritesFit` (the buffer doubles once at most for
a write, and that is enough for an instruction: it has room for eight bytes, and its size
counts one more).

The library's induction theorems take an operator as a parameter, which no prover here can
instantiate. `Induction` states what the proofs need with sets instead: a set with 0 and the
successors of its elements has every number (`NatInductionInSets`), from `WFMin`, which is
stated with sets; and a recursive function exists and satisfies its equation because those on
initial segments do and agree (`PrimitiveRecursion`, `EmitIs`). It also has what the two
compiler modules need of `FlattenSeq`, which is a fold: it is the concatenation, one sequence
after another.

Only model-checked: what the parser accepts and what the compiler makes of places and types (the grammar
and the reading of programs are RECURSIVE operators, which the provers do not know), and all liveness (`Terminates`, `Returns`, `Ends`), which needs ENABLED.

## Not modelled, and the plan

The bounds are guards: a program that overruns the stack (`kStackMaxSize` is never checked)
or the page is outside the models, except that the page's assertion is modelled.

Function bodies that declare a result and have a path without `return` run behind their
code; the bodies of `ControlFlow` end in one, and those the compiler's properties are about
too. In the compiler's passes, imports (which do nothing but report a wrong place), optional
chaining (which emits nothing), dictionary types, prefix and parenthesised expressions and
sums of more than two operands are not modelled; the flattening of longer expressions is,
in `Flatten`. The executor's and the heap's models have no instances of user
classes (one allocation, fields by index). Finding the file, the string table, the two calls
of the driver and the loader are left out: they keep no state that another part changes. The
descriptor parser is used by a unit test only; the debug printers only print.

Next, in this order:

1. Instances of user classes in `Objects`; sums of more than two operands in the passes.
2. The code of `IRGen` run by the executor's frames, instead of code that may be anything.
3. Proofs: the grammar and the reading of programs as recursive functions instead of operators,
   so that what the parser accepts and the places the compiler gives can be proved about.
