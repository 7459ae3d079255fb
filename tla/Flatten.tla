------------------------------ MODULE Flatten -------------------------------
(***************************************************************************)
(* TypeGen::visit(Expr) (typegen.cpp): an expression `prefix op expr op    *)
(* expr ...` is an assignment, or becomes a list of nodes in the order the *)
(* generator emits them, in one pass with two deques.  A node is           *)
(* represented by the operands and operators it emits, in order.           *)
(***************************************************************************)
EXTENDS Integers, SequencesExt

CONSTANTS
  Operands,      (* what stands between operators: prefix expressions      *)
  Assignable,    (* those that are identifiers, self, members, subscripts  *)
  Exprs          (* the expressions the parser may make                    *)

\* Operators::getPriority.
LowOp  == {"+", "-", "&&"}
HighOp == {"*", "/", "%", "==", "!=", "<", "<=", ">", ">="}
Op     == LowOp \union HighOp

Symbol == Operands \union Op

\* BinaryExpr, or AssignExpr for "=".
Binary == [op : Op \union {"="}, expr : Operands]

ASSUME Expressions ==
  /\ Operands \intersect (Op \union {"="}) = {}
  /\ Assignable \subseteq Operands
  /\ \A e \in Exprs : e.prefix \in Operands /\ e.binaries \in Seq(Binary)

VARIABLES
  prefix, binaries,  (* the expression as the parser made it               *)
  phase,             (* where the function is: "visit", "flat", "assemble",*)
                     (* or how it returned: "done", "assign", "error"      *)
  nodes,             (* operands and operators in turn                     *)
  iterator,          (* the node the loop is at                            *)
  temps, operators,  (* the deques                                         *)
  result             (* the new decl->nodes                                *)

vars == <<prefix, binaries, phase, nodes, iterator, temps, operators, result>>

TypeOK ==
  /\ prefix \in Operands
  /\ binaries \in Seq(Binary)
  /\ phase \in {"visit", "flat", "assemble", "done", "assign", "error"}
  /\ nodes \in Seq(Symbol)
  /\ iterator \in Nat
  /\ temps \in Seq(Seq(Symbol))
  /\ operators \in Seq(LowOp)
  /\ result \in Seq(Symbol)

Init ==
  /\ \E e \in Exprs : prefix = e.prefix /\ binaries = e.binaries
  /\ phase = "visit"
  /\ nodes = <<>>
  /\ iterator = 1
  /\ temps = <<>>
  /\ operators = <<>>
  /\ result = <<>>

-----------------------------------------------------------------------------
Return(how) ==
  /\ phase' = how
  /\ UNCHANGED <<prefix, binaries, nodes, iterator, temps, operators, result>>

IsAssignment == Len(binaries) = 1 /\ binaries[1].op = "="

\* `left = right`; the left of an assignment must be a variable.
Assign ==
  /\ phase = "visit"
  /\ IsAssignment
  /\ Return(IF prefix \in Assignable THEN "assign" ELSE "error")

\* The operands and operators in their order; an assignment is no operand.
Flat ==
  /\ phase = "visit"
  /\ ~ IsAssignment
  /\ IF \E b \in DOMAIN binaries : binaries[b].op = "="
     THEN Return("error")
     ELSE /\ phase' = "flat"
          /\ nodes' = [i \in 1..(2 * Len(binaries) + 1) |->
                         IF i = 1 THEN prefix
                         ELSE IF i % 2 = 0 THEN binaries[i \div 2].op
                         ELSE binaries[i \div 2].expr]
          /\ UNCHANGED <<prefix, binaries, iterator, temps, operators, result>>

At(symbols) == /\ phase = "flat"
               /\ iterator \in DOMAIN nodes
               /\ nodes[iterator] \in symbols

Advance(n) == /\ iterator' = iterator + n
              /\ UNCHANGED <<prefix, binaries, phase, nodes, result>>

PushOperand ==
  /\ At(Operands)
  /\ temps' = Append(temps, <<nodes[iterator]>>)
  /\ UNCHANGED operators
  /\ Advance(1)

PushOperatorAlways ==                                           \* mutant
  /\ At(Op)
  /\ operators' = Append(operators, nodes[iterator])
  /\ UNCHANGED temps
  /\ Advance(1)

\* One of low priority waits until the end.
PushOperator ==
  /\ At(LowOp)
  /\ operators' = Append(operators, nodes[iterator])
  /\ UNCHANGED temps
  /\ Advance(1)

CombineKeepsLeft ==                                             \* mutant
  /\ At(HighOp)
  /\ LET l == Last(temps)
         r == nodes[iterator + 1]
     IN temps' = Append(temps, l \o <<r, nodes[iterator]>>)
  /\ UNCHANGED operators
  /\ Advance(2)

CombineDropsResult ==                                           \* mutant
  /\ At(HighOp)
  /\ temps' = Front(temps)
  /\ UNCHANGED operators
  /\ Advance(2)

\* An operator of high priority takes the node before it and the operand after.
Combine ==
  /\ At(HighOp)
  /\ LET l == Last(temps)
         r == nodes[iterator + 1]
     IN temps' = Append(Front(temps), l \o <<r, nodes[iterator]>>)
  /\ UNCHANGED operators
  /\ Advance(2)

EndLoop ==
  /\ phase = "flat"
  /\ iterator > Len(nodes)
  /\ phase' = "assemble"
  /\ UNCHANGED <<prefix, binaries, nodes, iterator, temps, operators, result>>

-----------------------------------------------------------------------------
Remaining == temps # <<>> \/ operators # <<>>

Take(withOperator) ==
  /\ temps' = Tail(temps)
  /\ IF withOperator
     THEN /\ operators' = Tail(operators)
          /\ result' = result \o Head(temps) \o <<Head(operators)>>
     ELSE /\ UNCHANGED operators
          /\ result' = result \o Head(temps)
  /\ UNCHANGED <<prefix, binaries, phase, nodes, iterator>>

AssembleEager ==                                                \* mutant
  /\ phase = "assemble"
  /\ Remaining
  /\ Take(Len(temps) <= Len(operators) + 1 /\ operators # <<>>)

\* One operand more than operators are left: it is the first operand.
Assemble ==
  /\ phase = "assemble"
  /\ Remaining
  /\ Take(Len(temps) <= Len(operators))

Finish ==
  /\ phase = "assemble"
  /\ ~ Remaining
  /\ Return("done")

Next ==
  \/ Assign \/ Flat
  \/ PushOperand \/ PushOperator \/ Combine \/ EndLoop
  \/ Assemble \/ Finish

Spec == Init /\ [][Next]_vars

-----------------------------------------------------------------------------
\* The code takes from the deques without looking whether there is an element,
\* or reports "[Error] Except" and takes it all the same: it must be there, and
\* an operator must have an operand behind it.
NothingMissing ==
  /\ At(HighOp) =>
       /\ temps # <<>>
       /\ iterator + 1 \in DOMAIN nodes
       /\ nodes[iterator + 1] \in Operands
  /\ phase = "assemble" /\ Remaining => temps # <<>>

\* The strengthening that makes it inductive: operands and operators alternate in
\* nodes, and the deques hold an operand more than operators, or as many while
\* the next node is an operand or the first operand has been emitted.
Alternating ==
  /\ Len(nodes) % 2 = 1
  /\ \A i \in DOMAIN nodes : nodes[i] \in IF i % 2 = 1 THEN Operands ELSE Op

DequesBalanced ==
  /\ phase = "visit" => nodes = <<>> /\ temps = <<>> /\ operators = <<>> /\ iterator = 1
  /\ phase = "flat" =>
       /\ Alternating
       /\ iterator \in 1..(Len(nodes) + 1)
       /\ Len(temps) = Len(operators) + (IF iterator % 2 = 0 THEN 1 ELSE 0)
  /\ phase = "assemble" => Len(temps) - Len(operators) \in 0..1

IndInv == TypeOK /\ DequesBalanced

\* The postfix order of an infix expression, from operand to operand: the operator
\* of the lowest priority is its root, the last one if there are several.
Level(op) == IF op \in LowOp THEN 1 ELSE 2

IsRoot(infix, a, b, k) ==
  /\ infix[k] \in Op
  /\ \A j \in (a + 1)..(b - 1) :
       infix[j] \in Op =>
         \/ Level(infix[j]) > Level(infix[k])
         \/ Level(infix[j]) = Level(infix[k]) /\ j <= k

Root(infix, a, b) == CHOOSE k \in (a + 1)..(b - 1) : IsRoot(infix, a, b, k)

Spans(infix) == {p \in (1..Len(infix)) \X (1..Len(infix)) :
                   p[1] <= p[2] /\ p[1] % 2 = 1 /\ p[2] % 2 = 1}

Code(infix) ==
  LET code[p \in Spans(infix)] ==
        IF p[1] = p[2] THEN <<infix[p[1]]>>
        ELSE LET k == Root(infix, p[1], p[2])
             IN code[<<p[1], k - 1>>] \o code[<<k + 1, p[2]>>] \o <<infix[k]>>
  IN code

Postfix(infix) == Code(infix)[<<1, Len(infix)>>]

\* The nodes are the postfix order of the expression under the two priorities:
\* operators of one priority group from the left, and nothing is lost, doubled
\* or moved to another operator.
PostfixOfGrammar == phase = "done" => result = Postfix(nodes)
=============================================================================
