-------------------------------- MODULE MCKDep -------------------------------
(* A small instance of KDep: two boolean symbols and a tristate one.  Three   *)
(* leaves of every kind, or four plain symbols, which is what the             *)
(* contradictions expr_eliminate_dups2 looks for take.                        *)
EXTENDS KDep

MCPools ==
  {[of |-> {Sym("A"), Sym("T"), Comp("EQUAL", "T", "y")}, max |-> 3, neg |-> 3],
   [of |-> {Sym("m"), Comp("EQUAL", "A", "n"), Comp("EQUAL", "T", "n"), Comp("EQUAL", "T", "m"),
            Comp("UNEQUAL", "T", "y"), Comp("UNEQUAL", "A", "B")}, max |-> 2, neg |-> 2],
   [of |-> {Sym("A"), Sym("T")}, max |-> 4, neg |-> 2]}
=============================================================================
