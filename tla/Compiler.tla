------------------------------ MODULE Compiler ------------------------------
(***************************************************************************)
(* CompilerService::compile: the passes one after another over one         *)
(* context, each only when no error was reported before it.  The scanner   *)
(* and the parser, which have modules of their own, have made a module,    *)
(* have reported an error, or have given the text up without one.          *)
(***************************************************************************)
EXTENDS TypeGen, TypeBinding, IRGen

Init ==
  /\ types = BootTypes
  /\ tables = BootTables
  /\ exports = [c \in DOMAIN BuiltInClasses |-> -c]
  /\ stages = <<>> /\ symbols = <<GlobalTable>> /\ declTypes = <<>>
  /\ code = <<>>
  /\ stage = "parsed"
  /\ at = 1
  /\ \/ \E k \in DOMAIN Programs : program \in Programs[k]
        /\ errors = {}
     \/ program = <<>> /\ errors \in {{}, {"syntax"}}
  /\ nodes = [i \in DOMAIN program |-> NodeOf(program[i])]

\* A null module is dereferenced by the next pass.
Parsed ==
  /\ stage = "parsed"
  /\ \/ program = <<>> /\ errors = {} /\ Abort({})
     \/ /\ program # <<>> \/ errors # {}
        /\ EndStage("typegen")
        /\ UNCHANGED <<syntax, context, service, errors, code>>

Next == Parsed \/ Generate \/ BindTypes \/ EmitCode

Spec == Init /\ [][Next]_vars /\ WF_vars(Next)

-----------------------------------------------------------------------------
Ended == stage \in {"done", "stopped", "aborted"}

(* No code is generated for a program a pass before the generator reported an error
   in, and no module is handed on with one: a pass goes on behind its errors, and
   compile looks at them only between two (compiler+service.cpp:15).  *)
NoCodeForErrors ==
  /\ errors \ {NoVariable} # {} => code = <<>>
  /\ stage = "done" => errors = {}

\* What the scopes around node i have pushed, from the outermost to the innermost.
Pushed(p, i, pushes) ==
  FlattenSeq([s \in 1..(i - 1) |->
    IF p[s].op \in Scopes /\ i <= EndOf(p, s) THEN pushes[s] ELSE <<>>])

(* The context's stacks are the scopes around the node the pass is at, whatever
   the visits before it entered and left: what is pushed depends on a node's
   type and so does what is popped, and the type may have come between
   (context.cpp:36).  The binding pass is in each block twice.  *)
ContextIsThePathToTheNode ==
  stage \in {"typegen", "binding", "irgen"} =>
    LET IsBlock(s) == program[s].op = "block"
        visits == Pushed(program, at, [s \in DOMAIN program |->
                    IF stage = "binding" /\ IsBlock(s) THEN <<s, s>> ELSE <<s>>])
        slots == Pushed(program, at, [s \in DOMAIN program |->
                   IF IsBlock(s) THEN <<>> ELSE <<nodes[s].slot>>])
    IN /\ symbols = <<GlobalTable>> \o visits
       /\ declTypes = slots
       /\ stages = [k \in DOMAIN visits |->
                      IF program[visits[k]].op = "init" THEN "func" ELSE program[visits[k]].op]

(* A symbol of a class or a function names the type of that name, an optional and
   what it wraps know each other, and a class's initialiser returns the class:
   passes pass these on as bare numbers.  (No table loses a symbol and no type goes
   away, so it is looked at between two passes and at the end.)  *)
SymbolsNameTypes ==
  at = 1 \/ Ended =>
    /\ \A t \in DOMAIN tables : \A n \in DOMAIN tables[t] :
         LET symbol == tables[t][n]
         IN symbol.flag \in {"func", "constructor", "klass"} =>
              /\ TypeAt(types, symbol.type).name = n
              /\ (TypeAt(types, symbol.type).kind = "Func") = (symbol.flag # "klass")
    /\ \A k \in DOMAIN types : types[k].link # NoSlot =>
         /\ TypeAt(types, types[k].link).link = k - 1
         /\ (types[k].kind = "Optional") # (TypeAt(types, types[k].link).kind = "Optional")
    /\ \A k \in DOMAIN types : types[k].cinit # NoSlot => TypeAt(types, types[k].cinit).result = k - 1

(* A type keeps its slot, its name and its kind for ever.  Nodes, symbols, other
   types and the code hold slots as numbers, and slots of built-in types are
   written into the compiler.  *)
SlotsAreStable ==
  [][/\ Len(types) <= Len(types')
     /\ \A k \in 1..Len(types) : /\ types'[k].kind = types[k].kind
                                 /\ types'[k].name = types[k].name]_vars

(* Every compilation comes to its end, whichever node a pass skips and whatever
   it adds behind the node it is at.  *)
Ends == <>Ended
=============================================================================
