--------------------------- MODULE StructuredRun ----------------------------
(***************************************************************************)
(* The execution of a body by its statements, without code: what is seen   *)
(* is a call, a test or the return, of the statement that is next.         *)
(***************************************************************************)
EXTENDS Statements

CONSTANT Bodies    (* the statements of functions and modules              *)

VARIABLES todo,    (* the statements still to be executed                  *)
          event    (* what was seen last                                   *)

Init == /\ \E b \in Bodies : todo = Visible(b)
        /\ event = Started

Next == /\ event # Returned
        /\ \E e \in Possible(todo) : event' = e /\ todo' = After(todo, e)

Spec == Init /\ [][Next]_<<todo, event>>
=============================================================================
