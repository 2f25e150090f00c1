-------------------------------- MODULE KExpr --------------------------------
(* The dependency expressions of Kconfig (src/support/kconfig/expr.c): how    *)
(* they are built, simplified, compared and printed.  An expression is a      *)
(* tuple headed by its type; Null is the NULL pointer.  The C functions       *)
(* rewrite in place: where two pointers may point into the same tree          *)
(* (expr_eliminate_dups1/2) the model passes paths into one tree, elsewhere   *)
(* it passes values.  Memory (expr_free, leaks) is left out here; KMenu says   *)
(* for which files it matters that two pointers share nodes.                  *)
EXTENDS Integers, Sequences, SequencesExt

CONSTANTS BoolSyms, TriSyms, IntSyms    \* names of the boolean, tristate and integer symbols

Const == {"y", "m", "n"}       \* symbol_yes, symbol_mod, symbol_no: tristate constants
Syms == BoolSyms \union TriSyms \union IntSyms

ASSUME SymbolsAssumption ==
  /\ BoolSyms \intersect (TriSyms \union IntSyms) = {} /\ TriSyms \intersect IntSyms = {}
  /\ Syms \intersect Const = {}

IsTristate(s) == s \in TriSyms \union Const

Null == <<"NONE">>
Sym(s) == <<"SYMBOL", s>>
Not(e) == <<"NOT", e>>
Comp(type, s1, s2) == <<type, s1, s2>>
Two(type, e1, e2) == <<type, e1, e2>>
Yes == Sym("y")
No == Sym("n")

IsType(e, types) == e[1] \in types
IsComp(e) == IsType(e, {"EQUAL", "UNEQUAL"})
IsTwo(e) == IsType(e, {"AND", "OR"})
Flip(type) == IF type = "EQUAL" THEN "UNEQUAL" ELSE "EQUAL"

expr_alloc_and(e1, e2) == IF e1 = Null THEN e2 ELSE IF e2 = Null THEN e1 ELSE Two("AND", e1, e2)
expr_alloc_or(e1, e2) == IF e1 = Null THEN e2 ELSE IF e2 = Null THEN e1 ELSE Two("OR", e1, e2)

expr_is_yes(e) == e \in {Null, Yes}
expr_is_no(e) == e = No

-----------------------------------------------------------------------------
(* Values.  A world gives each symbol 0 (n), 1 (m) or 2 (y), booleans never 1. *)
(* Comparisons compare the strings of the two symbols, which for a tristate   *)
(* is its value as long as MODULES is not n.                                  *)

Worlds == {w \in [Syms -> 0..2] : \A s \in BoolSyms : w[s] # 1}

TriOf(s, w) == CASE s = "n" -> 0 [] s = "m" -> 1 [] s = "y" -> 2 [] OTHER -> w[s]

RECURSIVE expr_calc_value(_, _)
expr_calc_value(e, w) ==
  CASE e = Null -> 2
    [] e[1] = "SYMBOL" -> TriOf(e[2], w)
    [] e[1] = "NOT" -> 2 - expr_calc_value(e[2], w)
    [] IsTwo(e) ->
         LET a == expr_calc_value(e[2], w)
             b == expr_calc_value(e[3], w)
         IN IF (e[1] = "AND") = (a < b) THEN a ELSE b
    [] e[1] = "EQUAL" -> IF TriOf(e[2], w) = TriOf(e[3], w) THEN 2 ELSE 0
    [] e[1] = "UNEQUAL" -> IF TriOf(e[2], w) = TriOf(e[3], w) THEN 0 ELSE 2

-----------------------------------------------------------------------------
(* Simplification.                                                            *)

\* A mutant: the unit of the other operator.
AbsorbSwapped(type, l, r) ==
  LET unit == IF type = "AND" THEN No ELSE Yes
  IN CASE l = unit -> r [] r = unit /\ l # unit -> l [] OTHER -> Two(type, l, r)

\* x && y and x || y with a constant operand.
Absorb(type, l, r) ==
  LET unit == IF type = "AND" THEN Yes ELSE No
      zero == IF type = "AND" THEN No ELSE Yes
  IN CASE l = zero \/ r = zero -> zero
       [] l = unit -> r
       [] r = unit /\ l # unit -> l
       [] OTHER -> Two(type, l, r)

RECURSIVE expr_eliminate_yn(_)
expr_eliminate_yn(e) ==
  IF IsTwo(e) THEN Absorb(e[1], expr_eliminate_yn(e[2]), expr_eliminate_yn(e[3])) ELSE e

RECURSIVE EliminateEq(_, _, _), expr_eq(_, _)

(* __expr_eliminate_eq: the operands the two trees share become the unit of   *)
(* type.  Equal constants are left alone.                                     *)
EliminateEq(type, e1, e2) ==
  CASE e1[1] = type ->
         LET l == EliminateEq(type, e1[2], e2)
             r == EliminateEq(type, e1[3], l[2])
         IN <<Two(type, l[1], r[1]), r[2]>>
    [] e1[1] # type /\ e2[1] = type ->
         LET l == EliminateEq(type, e1, e2[2])
             r == EliminateEq(type, l[1], e2[3])
         IN <<r[1], Two(type, l[2], r[2])>>
    [] OTHER ->
         LET unit == IF type = "OR" THEN No ELSE Yes
         IN IF (e1 = e2 /\ e1 \in {Yes, No}) \/ ~expr_eq(e1, e2)
            THEN <<e1, e2>> ELSE <<unit, unit>>

\* The operands of p[1], and those of p[2] unless they are of the same type.
EliminateOperands(p, i) ==
  IF IsTwo(p[i]) /\ (i = 1 \/ p[1][1] # p[2][1]) THEN EliminateEq(p[i][1], p[1], p[2]) ELSE p

WithoutUnits(p) == <<expr_eliminate_yn(p[1]), expr_eliminate_yn(p[2])>>

expr_eliminate_eq(e1, e2) ==
  IF Null \in {e1, e2} THEN <<e1, e2>>
  ELSE WithoutUnits(EliminateOperands(EliminateOperands(<<e1, e2>>, 1), 2))

\* Two trees are equal when all that elimination leaves of them is the same symbol.
AllShared(p) == p[1][1] = "SYMBOL" /\ p[1] = p[2]

expr_eq(e1, e2) ==
  CASE e1[1] # e2[1] -> FALSE
    [] e1[1] = e2[1] /\ (IsComp(e1) \/ e1[1] = "SYMBOL") -> e1 = e2
    [] e1[1] = e2[1] /\ e1[1] = "NOT" -> expr_eq(e1[2], e2[2])
    [] e1[1] = e2[1] /\ IsTwo(e1) -> AllShared(expr_eliminate_eq(e1, e2))

\* A mutant: a tristate compared with y counts as well.
TestsBoolOrYes(e) == IsComp(e) /\ (e[2] \in BoolSyms \/ e[3] = "y")

TestsBool(e) == IsComp(e) /\ e[2] \in BoolSyms

\* The boolean symbol of a comparison with a constant needs no comparison.
TransformTest(e) ==
  LET same == e[1] = "EQUAL"
  IN CASE e[3] = "m" -> IF same THEN No ELSE Yes
       [] e[3] \in {"y", "n"} -> IF (e[3] = "y") = same THEN Sym(e[2]) ELSE Not(Sym(e[2]))
       [] OTHER -> e

RECURSIVE expr_transform(_), TransformNot(_)

Dual(type) == IF type = "OR" THEN "AND" ELSE "OR"

\* Negations move down to the symbols.
TransformNot(a) ==
  CASE a[1] = "NOT" -> expr_transform(a[2])
    [] IsComp(a) -> Comp(Flip(a[1]), a[2], a[3])
    [] IsTwo(a) -> expr_transform(Two(Dual(a[1]), Not(a[2]), Not(a[3])))
    [] a[1] = "SYMBOL" /\ a[2] \in Const ->
         Sym(CASE a[2] = "y" -> "n" [] a[2] = "m" -> "m" [] a[2] = "n" -> "y")
    [] OTHER -> Not(a)

expr_transform(org) ==
  LET e == CASE org[1] = "NOT" -> Not(expr_transform(org[2]))
             [] IsTwo(org) -> Two(org[1], expr_transform(org[2]), expr_transform(org[3]))
             [] OTHER -> org
  IN CASE TestsBool(e) -> TransformTest(e)
       [] e[1] = "NOT" -> TransformNot(e[2])
       [] OTHER -> e

\* FOO!=n -> FOO for a tristate FOO, where only n and not-n matter.
RECURSIVE expr_trans_bool(_)

expr_trans_bool(e) ==
  CASE IsTwo(e) -> Two(e[1], expr_trans_bool(e[2]), expr_trans_bool(e[3]))
    [] e[1] = "NOT" -> Not(expr_trans_bool(e[2]))
    [] e[1] = "UNEQUAL" /\ IsTristate(e[2]) /\ e[3] = "n" -> Sym(e[2])
    [] OTHER -> e

-----------------------------------------------------------------------------
(* Joining two operands of one && or || that speak of the same symbol.        *)

\* The symbol an operand tests; NOT is looked through for the types in "under".
Tested(e, under) ==
  CASE e[1] = "SYMBOL" \/ IsComp(e) -> e[2]
    [] e[1] = "NOT" /\ e[2][1] \in under -> e[2][2]
    [] OTHER -> ""

SameSubject(e1, e2) ==
  /\ Tested(e1, {"EQUAL", "UNEQUAL", "SYMBOL"}) # ""
  /\ Tested(e1, {"EQUAL", "UNEQUAL", "SYMBOL"}) = Tested(e2, {"SYMBOL"})
  /\ Tested(e2, {"SYMBOL"}) \notin IntSyms

\* The constant that is neither of two.
Third(s1, s2) == CHOOSE s \in Const : s \notin {s1, s2}

\* a='y' || a='m' -> a!='n', and so on.
JoinTests(sym, s1, s2) == Comp("UNEQUAL", sym, Third(s1, s2))

JoinedByOr(sym, e1, e2) ==
  CASE /\ IsTristate(sym) /\ e1[1] = "EQUAL" /\ e2[1] = "EQUAL"
       /\ e1[3] \in Const /\ e2[3] \in Const /\ e1[3] # e2[3]
         -> JoinTests(sym, e1[3], e2[3])
    [] sym \in BoolSyms /\ {e1, e2} = {Sym(sym), Not(Sym(sym))} -> Yes
    [] OTHER -> Null

expr_join_or(e1, e2) ==
  IF expr_eq(e1, e2) THEN e1
  ELSE IF SameSubject(e1, e2) THEN JoinedByOr(Tested(e2, {"SYMBOL"}), e1, e2) ELSE Null

JoinedByAnd(sym, e1, e2) ==
  LET constants == /\ IsTristate(sym) /\ IsComp(e1) /\ IsComp(e2)
                   /\ e1[3] \in Const /\ e2[3] \in Const
  IN CASE {e1, e2} = {Sym(sym), Comp("EQUAL", sym, "y")} -> Comp("EQUAL", sym, "y")
       [] {e1, e2} = {Sym(sym), Comp("UNEQUAL", sym, "n")} -> Sym(sym)
       [] {e1, e2} = {Sym(sym), Comp("UNEQUAL", sym, "m")} -> Comp("EQUAL", sym, "y")
       [] constants /\ e1[1] # e2[1]
            -> IF e1[3] = e2[3] THEN No ELSE IF e1[1] = "EQUAL" THEN e1 ELSE e2
       [] constants /\ e1[1] = "UNEQUAL" /\ e2[1] = "UNEQUAL" /\ e1[3] # e2[3]
            -> Comp("EQUAL", sym, Third(e1[3], e2[3]))
       [] OTHER -> Null

expr_join_and(e1, e2) ==
  IF expr_eq(e1, e2) THEN e1
  ELSE IF SameSubject(e1, e2) THEN JoinedByAnd(Tested(e2, {"SYMBOL"}), e1, e2) ELSE Null

-----------------------------------------------------------------------------
(* Duplicates.  Both operands are subtrees of s.t, at the paths p1 and p2 of   *)
(* child positions; s.n counts the rewrites (trans_count).                    *)

At(t, p) == FoldLeft(LAMBDA e, i : e[i], t, p)

RECURSIVE Put(_, _, _)
Put(t, p, e) == IF p = <<>> THEN e ELSE [t EXCEPT ![p[1]] = Put(t[p[1]], Tail(p), e)]

Operand(p, i) == Append(p, i + 1)

Join(type, e1, e2) == IF type = "OR" THEN expr_join_or(e1, e2) ELSE expr_join_and(e1, e2)

\* The first of two operands becomes the unit of type, the second what joins both.
Replace(type, s, p1, p2, join) ==
  IF join = Null THEN s
  ELSE [t |-> Put(Put(s.t, p1, IF type = "OR" THEN No ELSE Yes), p2, join), n |-> s.n + 1]

JoinAt(type, s, p1, p2) == Replace(type, s, p1, p2, Join(type, At(s.t, p1), At(s.t, p2)))

RECURSIVE expr_eliminate_dups1(_, _, _, _)
expr_eliminate_dups1(type, s, p1, p2) ==
  LET e1 == At(s.t, p1)
      e2 == At(s.t, p2)
  IN CASE e1[1] = type ->
            expr_eliminate_dups1(type, expr_eliminate_dups1(type, s, Operand(p1, 1), p2), Operand(p1, 2), p2)
       [] e1[1] # type /\ e2[1] = type ->
            expr_eliminate_dups1(type, expr_eliminate_dups1(type, s, p1, Operand(p2, 1)), p1, Operand(p2, 2))
       [] e1[1] # type /\ e2[1] # type /\ p1 = p2 -> s
       [] OTHER -> JoinAt(type, IF IsTwo(e1) THEN expr_eliminate_dups1(e1[1], s, p1, p1) ELSE s, p1, p2)

(* expr_extract_eq: like EliminateEq, but also tells whether the trees share   *)
(* an operand.  expr_extract_eq_and and _or then drop the units.              *)
RECURSIVE ExtractEq(_, _, _, _)
ExtractEq(type, shared, e1, e2) ==
  CASE e1[1] = type ->
         LET l == ExtractEq(type, shared, e1[2], e2)
             r == ExtractEq(type, l[1], e1[3], l[3])
         IN <<r[1], Two(type, l[2], r[2]), r[3]>>
    [] e1[1] # type /\ e2[1] = type ->
         LET l == ExtractEq(type, shared, e1, e2[2])
             r == ExtractEq(type, l[1], l[2], e2[3])
         IN <<r[1], r[2], Two(type, l[3], r[3])>>
    [] OTHER ->
         LET unit == IF type = "OR" THEN No ELSE Yes
         IN IF expr_eq(e1, e2) THEN <<TRUE, unit, unit>> ELSE <<shared, e1, e2>>

expr_extract_eq(type, e1, e2) ==
  LET Rest(x) == IF x[1] THEN WithoutUnits(Tail(x)) ELSE Tail(x)
  IN Rest(ExtractEq(type, FALSE, e1, e2))

(* (FOO || BAR) && (!FOO && !BAR) -> n, and its dual.  There is no return      *)
(* after the operands of e2 have been visited: e2 is then tried as a whole.   *)
RECURSIVE expr_eliminate_dups2(_, _, _, _)

\* The operand at p1, an op, contradicts the one at p2 (or is its complement).
Contradicts(op, s, p1, p2) ==
  expr_extract_eq(Dual(op), expr_transform(Not(At(s.t, p1))), At(s.t, p2))[1]
    = (IF op = "OR" THEN Yes ELSE No)

Reduce(op, s, p1, p2) ==
  IF Contradicts(op, s, p1, p2)
  THEN [t |-> Put(s.t, p1, IF op = "OR" THEN No ELSE Yes), n |-> s.n + 1] ELSE s

ReduceWhole(s, p1, p2) ==
  LET op == At(s.t, p1)[1]
  IN IF p1 = p2 \/ ~IsTwo(At(s.t, p1)) THEN s
     ELSE Reduce(op, expr_eliminate_dups2(op, s, p1, p1), p1, p2)

expr_eliminate_dups2(type, s, p1, p2) ==
  IF At(s.t, p1)[1] = type
  THEN expr_eliminate_dups2(type, expr_eliminate_dups2(type, s, Operand(p1, 1), p2), Operand(p1, 2), p2)
  ELSE ReduceWhole(IF At(s.t, p2)[1] = type
                   THEN expr_eliminate_dups2(type, expr_eliminate_dups2(type, s, p1, Operand(p2, 1)),
                                             p1, Operand(p2, 2))
                   ELSE s, p1, p2)

RECURSIVE expr_eliminate_dups(_), DupsAgain(_)

\* Until nothing changes.
DupsAgain(s) == IF s.n = 0 THEN s.t ELSE expr_eliminate_dups(expr_eliminate_yn(s.t))

expr_eliminate_dups(e) ==
  IF ~IsTwo(e) THEN e
  ELSE DupsAgain(expr_eliminate_dups2(e[1],
                   expr_eliminate_dups1(e[1], [t |-> e, n |-> 0], <<>>, <<>>), <<>>, <<>>))

-----------------------------------------------------------------------------
(* What the menu tree asks of a dependency.                                   *)

RECURSIVE expr_contains_symbol(_, _)
expr_contains_symbol(dep, sym) ==
  \/ IsTwo(dep) /\ (expr_contains_symbol(dep[2], sym) \/ expr_contains_symbol(dep[3], sym))
  \/ dep[1] = "NOT" /\ expr_contains_symbol(dep[2], sym)
  \/ dep[1] = "SYMBOL" /\ dep[2] = sym
  \/ IsComp(dep) /\ sym \in {dep[2], dep[3]}

RECURSIVE expr_depends_symbol(_, _)
expr_depends_symbol(dep, sym) ==
  \/ dep[1] = "AND" /\ (expr_depends_symbol(dep[2], sym) \/ expr_depends_symbol(dep[3], sym))
  \/ dep = Sym(sym)
  \/ dep \in {Comp("EQUAL", sym, "y"), Comp("EQUAL", sym, "m"), Comp("UNEQUAL", sym, "n")}

\* The test "e = sym" (EQUAL) or "e != sym" (UNEQUAL) with a constant, as an expression.
RECURSIVE expr_trans_compare(_, _, _)
expr_trans_compare(e, type, sym) ==
  LET Negated(c) == IF type = "UNEQUAL" THEN Not(c) ELSE c
      l == expr_trans_compare(e[2], "EQUAL", sym)
      r == expr_trans_compare(e[3], "EQUAL", sym)
  IN CASE e = Null -> Negated(Sym(sym))
       [] IsTwo(e) -> Negated(CASE sym = "y" -> Two(e[1], l, r)
                                [] sym = "n" -> Two(Dual(e[1]), l, r)
                                [] sym = "m" -> e)
       [] e[1] = "NOT" -> expr_trans_compare(e[2], Flip(type), sym)
       [] IsComp(e) -> CASE sym = "m" -> IF type = "EQUAL" THEN No ELSE Yes
                         [] (sym = "y") = (type = "EQUAL") /\ sym # "m" -> e
                         [] OTHER -> Not(e)
       [] e[1] = "SYMBOL" -> Comp(type, e[2], sym)

-----------------------------------------------------------------------------
(* Printing: the tokens of an expression, with the parentheses its operators  *)
(* need below prevtoken.                                                      *)

Rank(type) == CASE type \in {"SYMBOL"} -> 0 [] type \in {"EQUAL", "UNEQUAL"} -> 1
                [] type = "NOT" -> 2 [] type = "AND" -> 3 [] type = "OR" -> 4
                [] type = "NONE" -> 6

\* A mutant: && and || are taken to bind alike.
BindsAlike(t1, t2) == Rank(t1) \in 1..2 /\ Rank(t1) < Rank(t2)

\* expr_compare_type(t1, t2) > 0: t1 binds tighter than t2.  The fall-through of
\* its switch makes every later type an answer; E_NONE and E_SYMBOL never bind.
Binds(t1, t2) == Rank(t1) \in 1..4 /\ Rank(t1) < Rank(t2)

RECURSIVE expr_print(_, _)
expr_print(e, prevtoken) ==
  LET body == CASE e[1] = "SYMBOL" -> <<e[2]>>
                [] e[1] = "NOT" -> <<"!">> \o expr_print(e[2], "NOT")
                [] IsComp(e) -> <<e[2], IF e[1] = "EQUAL" THEN "=" ELSE "!=", e[3]>>
                [] IsTwo(e) -> expr_print(e[2], e[1]) \o <<IF e[1] = "OR" THEN "||" ELSE "&&">>
                               \o expr_print(e[3], e[1])
  IN IF e = Null THEN <<"y">>
     ELSE IF Binds(prevtoken, e[1]) THEN <<"(">> \o body \o <<")">> ELSE body

=============================================================================
