-------------------------------- MODULE KDep ---------------------------------
(* The dependency of one menu entry on its way through the parser (zconf.y    *)
(* expr) and menu_finalize (src/support/kconfig/menu.c): dep is the expression *)
(* the code holds, raw what the configuration file spells.                    *)
EXTENDS KExpr

CONSTANT Pools    \* records: the leaves an expression may be made of, how many of them,
                  \* and how many a ! may stand before

VARIABLES dep, raw, pool, leaves, stage

vars == <<dep, raw, pool, leaves, stage>>

Init == /\ pool \in Pools
        /\ dep \in pool.of /\ raw = dep
        /\ leaves = 1 /\ stage = "parse"

\* What a later operand of an expression may be.
Operands == pool.of \union {Not(x) : x \in pool.of}

ParseNot == /\ stage = "parse" /\ dep[1] # "NOT" /\ leaves <= pool.neg
            /\ dep' = Not(dep) /\ raw' = dep'
            /\ UNCHANGED <<pool, leaves, stage>>

ParseOperand == /\ stage = "parse" /\ leaves < pool.max
                /\ \E x \in Operands, type \in {"AND", "OR"} :
                     dep' = Two(type, dep, x)
                /\ raw' = dep' /\ leaves' = leaves + 1
                /\ UNCHANGED <<pool, stage>>

Transform == /\ stage = "parse"
             /\ dep' = expr_transform(dep) /\ stage' = "transformed"
             /\ UNCHANGED <<raw, pool, leaves>>

\* menu_finalize puts the dependency of the parent in front.
AddParent == /\ stage = "transformed" /\ leaves < pool.max
             /\ \E x \in Operands :
                  /\ dep' = expr_alloc_and(expr_transform(x), dep)
                  /\ raw' = expr_alloc_and(x, raw)
             /\ leaves' = leaves + 1
             /\ UNCHANGED <<pool, stage>>

EliminateDups == /\ stage = "transformed"
                 /\ dep' = expr_eliminate_dups(dep) /\ stage' = "reduced"
                 /\ UNCHANGED <<raw, pool, leaves>>

\* The prompt of a symbol that is not a tristate.
TransBool == /\ stage = "reduced"
             /\ dep' = expr_trans_bool(dep) /\ stage' = "bool"
             /\ UNCHANGED <<raw, pool, leaves>>

\* The automatic submenu test asks whether a prompt is visible at all.
TransCompare == /\ stage \in {"reduced", "bool"}
                /\ dep' = expr_eliminate_dups(expr_transform(expr_trans_compare(dep, "UNEQUAL", "n")))
                /\ stage' = "tested"
                /\ UNCHANGED <<raw, pool, leaves>>

Next == ParseNot \/ ParseOperand \/ Transform \/ AddParent \/ EliminateDups \/ TransBool
        \/ TransCompare

Spec == Init /\ [][Next]_vars

-----------------------------------------------------------------------------
(* Properties.                                                                *)

\* The value the configuration file asks for, in the terms of the stage reached.
Wanted(w) == LET v == expr_calc_value(raw, w)
             IN IF stage = "tested" /\ v # 0 THEN 2 ELSE v

RECURSIVE Subterms(_)
Subterms(x) == {x} \union CASE x[1] = "NOT" -> Subterms(x[2])
                            [] IsTwo(x) -> Subterms(x[2]) \union Subterms(x[3])
                            [] OTHER -> {}

NoModules(w) == /\ \A s \in Syms : w[s] # 1
                /\ Sym("m") \notin Subterms(raw)

(* menu_finalize never changes what a dependency means in a configuration      *)
(* without modules, which is every configuration of Buildroot.  With an m in   *)
(* play (a tristate at m, or the constant) the rules of expr_eliminate_dups2   *)
(* may turn an m into n or y, but never an n into y or a y into n.             *)
MeaningKept ==
  \A w \in Worlds :
    LET v == expr_calc_value(dep, w)
    IN IF NoModules(w) THEN v = Wanted(w)
       ELSE stage # "tested" => v - expr_calc_value(raw, w) \in -1..1

OnlySymbolsNegated(e) == \A x \in Subterms(e) : x[1] = "NOT" => x[2][1] = "SYMBOL"
SameIn(w, Value(_)) == Value(expr_calc_value(dep', w)) = Value(expr_calc_value(dep, w))

(* What each stage promises the next, for every value of the symbols:          *)
(* expr_transform is exact and leaves no negation but of symbols, and          *)
(* expr_trans_bool, which relies on that and may turn y into m, never changes  *)
(* whether a prompt is visible.                                                *)
StagesKeep ==
  [][/\ Transform => OnlySymbolsNegated(dep') /\ \A w \in Worlds : SameIn(w, LAMBDA v : v)
     /\ TransBool => \A w \in Worlds : SameIn(w, LAMBDA v : v = 0)]_vars

\* The grammar read from the tokens: || binds loosest, then &&, then !.
RECURSIVE Read(_)
Read(tokens) ==
  LET n == Len(tokens)
      Depth(i) == FoldLeft(LAMBDA d, t : CASE t = "(" -> d + 1 [] t = ")" -> d - 1 [] OTHER -> d,
                           0, SubSeq(tokens, 1, i))
      Outer(op) == {i \in 1..n : tokens[i] = op /\ Depth(i) = 0}
      Split(type, op) == LET i == CHOOSE j \in Outer(op) : \A k \in Outer(op) : k <= j
                         IN Two(type, Read(SubSeq(tokens, 1, i - 1)), Read(SubSeq(tokens, i + 1, n)))
  IN CASE Outer("||") # {} -> Split("OR", "||")
       [] Outer("||") = {} /\ Outer("&&") # {} -> Split("AND", "&&")
       [] OTHER -> CASE tokens[1] = "!" -> Not(Read(Tail(tokens)))
                     [] tokens[1] = "(" -> Read(SubSeq(tokens, 2, n - 1))
                     [] n = 3 /\ tokens[2] = "=" -> Comp("EQUAL", tokens[1], tokens[3])
                     [] n = 3 /\ tokens[2] = "!=" -> Comp("UNEQUAL", tokens[1], tokens[3])
                     [] n = 1 -> Sym(tokens[1])

(* The dependencies shown to the user (help texts, unmet dependency warnings) *)
(* read back, by the grammar, as expressions of the same value.               *)
PrintKeepsMeaning ==
  LET read == Read(expr_print(dep, "NONE"))
  IN \A w \in Worlds : expr_calc_value(read, w) = expr_calc_value(dep, w)

=============================================================================
