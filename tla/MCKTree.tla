-------------------------------- MODULE MCKTree ------------------------------
(* Files of three config statements with one block or one select, and of two   *)
(* config statements with two blocks, nested or one after the other.           *)
EXTENDS KTree

MCNames == <<{"A"}, {"B"}, {"A", "D"}>>
MCConditions == {Null, Sym("A"), Not(Sym("B"))}
MCBudgets == {[config |-> 3, block |-> 1, select |-> 0, of |-> MCConditions],
              [config |-> 3, block |-> 0, select |-> 1, of |-> MCConditions],
              [config |-> 2, block |-> 2, select |-> 0, of |-> {Null, Sym("A")}]}
=============================================================================
