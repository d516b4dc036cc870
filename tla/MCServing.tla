----------------------------- MODULE MCServing ------------------------------
(* Small instances of the runner and its guest for model checking.         *)
EXTENDS Serving

CONSTANTS a, other

MCDeclared == <<a>>

(* The declared source, none, and one that is not declared.                *)
MCGiven == {<<a>>, <<>>, <<other>>}

(* The initialization calls from the evaluation of a global, captures and  *)
(* evaluates another global in the call; a handler calls a function.       *)
MCHeap == [none |-> 5, prepare |-> 3, create |-> 5, run |-> 4]
MCLocals == [none |-> <<>>, prepare |-> <<2, 1, 1>>, create |-> <<0>>, run |-> <<1, 1>>]

=============================================================================
