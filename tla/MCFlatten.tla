----------------------------- MODULE MCFlatten ------------------------------
(***************************************************************************)
(* All expressions of two operators, and longer ones of three operators    *)
(* with a different operand in each place.                                 *)
(***************************************************************************)
EXTENDS Flatten

Names == <<"a", "b", "c", "d", "e", "f">>

Chain(ops) ==
  [prefix |-> Names[1],
   binaries |-> [i \in DOMAIN ops |-> [op |-> ops[i], expr |-> Names[i + 1]]]]

ChainsOver(symbols, n) ==
  {Chain(ops) : ops \in UNION {[1..k -> symbols] : k \in 0..n}}

AllNames   == ToSet(Names)
Expression == ChainsOver(Op \union {"="}, 2) \union ChainsOver({"-", "&&", "*", "<"}, 5)
                \union {[prefix |-> "f", binaries |-> <<[op |-> "=", expr |-> "a"]>>]}
=============================================================================
