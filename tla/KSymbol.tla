------------------------------- MODULE KSymbol -------------------------------
(* The values of the symbols (src/support/kconfig/symbol.c).  They are         *)
(* computed on demand and cached: the operators take a heap h and return the   *)
(* heap they leave behind, so that what a cached value depends on is kept:     *)
(*   sym[s]   the cached value (tri of a boolean, val: the string of an        *)
(*            integer, the selected value of a choice), vis, dir and rev, the  *)
(*            user's value (utri, uval) and the flags SYMBOL_DEF_USER (def),   *)
(*            _VALID and _WRITE;                                               *)
(*   pvis[i]  visible.tri of property i;                                       *)
(*   changed  whether sym_change_count is not zero;                            *)
(*   stale    history: an integer out of its range has lost its value, and the *)
(*            symbols have not all been invalidated since.                     *)
(* Buildroot has no MODULES symbol: modules_val stays "no", and sym_get_type   *)
(* makes every tristate a boolean.  Strings and hexadecimal numbers are left   *)
(* out; they take the path of the integers, strings without the range.         *)
EXTENDS KMenu

CONSTANT Numeral     \* the numbers that integers are given, as a function from numerals

ASSUME NumeralAssumption == DOMAIN Numeral \intersect (Syms \union Const) = {}

Blank == [tri |-> 0, val |-> "", vis |-> 0, dir |-> 0, rev |-> 0, utri |-> 0, uval |-> "",
          def |-> FALSE, valid |-> FALSE, write |-> FALSE]
EmptyHeap(t) == [sym |-> [s \in Syms |-> Blank], pvis |-> [i \in DOMAIN t.prop |-> 0],
                  changed |-> FALSE, stale |-> FALSE]

\* The symbols of S change, each as Do says.
Changed(h, S, Do(_, _)) == [h EXCEPT !.sym = [s \in S |-> Do(s, @[s])] @@ @]

EXPR_AND(a, b) == IF a < b THEN a ELSE b
EXPR_OR(a, b) == IF a > b THEN a ELSE b

TriIn(h, s) == IF s \in Syms THEN h.sym[s].tri ELSE CASE s = "y" -> 2 [] s = "m" -> 1 [] OTHER -> 0

\* sym_get_string_value: without modules a symbol that is m reads n.
sym_get_string_value(h, s) ==
  IF s \in IntSyms THEN h.sym[s].val
  ELSE IF s \in Syms \union Const THEN (IF TriIn(h, s) = 2 THEN "y" ELSE "n") ELSE s

sym_is_changable(h, s) == h.sym[s].vis > h.sym[s].rev

\* strtol: what is no number, the empty string for one, reads as 0.
NumberOf(a) == IF a \in DOMAIN Numeral THEN Numeral[a] ELSE 0

RECURSIVE CalcExpr(_, _, _), CalcRight(_, _, _), FirstVisible(_, _, _), FirstOf(_, _, _),
          sym_calc_value(_, _, _)

\* A calculation returns [h, v]: the heap it leaves and the value.  The symbols of a
\* leaf have been calculated; a comparison is one of strings.
LeafValue(h, e) ==
  IF e[1] = "SYMBOL" THEN TriIn(h, e[2])
  ELSE IF (sym_get_string_value(h, e[2]) = sym_get_string_value(h, e[3])) = (e[1] = "EQUAL") THEN 2 ELSE 0
Leaf(h, e) == [h |-> h, v |-> LeafValue(h, e)]

\* The right operand is calculated after the left one, whatever that gave.
CalcRight(t, a, e) ==
  [CalcExpr(t, a.h, e[3]) EXCEPT !.v = IF e[1] = "AND" THEN EXPR_AND(a.v, @) ELSE EXPR_OR(a.v, @)]

\* expr_calc_value on the heap; it calculates the symbols it meets.
CalcExpr(t, h, e) ==
  CASE e = Null -> [h |-> h, v |-> 2]
    [] e[1] = "NOT" -> [CalcExpr(t, h, e[2]) EXCEPT !.v = 2 - @]
    [] e[1] \in {"AND", "OR"} -> CalcRight(t, CalcExpr(t, h, e[2]), e)
    [] e[1] = "SYMBOL" \/ IsComp(e)
         -> Leaf(FoldLeft(LAMBDA g, s : sym_calc_value(t, g, s), h, Tail(e)), e)

\* A condition that has been calculated is kept with its property.
Kept(x, i) == [x.h EXCEPT !.pvis[i] = x.v]

\* The first of these properties whose condition holds, or 0: sym_get_default_prop,
\* sym_get_range_prop.  x is the condition of the first of them.
FirstOf(t, x, props) ==
  IF x.v # 0 THEN [h |-> Kept(x, Head(props)), i |-> Head(props)]
  ELSE FirstVisible(t, Kept(x, Head(props)), Tail(props))

FirstVisible(t, h, props) ==
  IF props = <<>> THEN [h |-> h, i |-> 0]
  ELSE FirstOf(t, CalcExpr(t, h, t.prop[Head(props)].vis), props)

\* No symbol is a tristate, so that m becomes y.
Bool(v) == IF v = 0 THEN 0 ELSE 2

\* The visibility of one more prompt.
AlsoSeen(r, x, i) == [h |-> Kept(x, i), v |-> EXPR_OR(r.v, x.v)]
CalcPrompts(t, h, s) ==
  FoldLeft(LAMBDA r, i : AlsoSeen(r, CalcExpr(t, r.h, t.prop[i].vis), i), [h |-> h, v |-> 0],
           SelectSeq(PropsOf(t, s), LAMBDA i : t.prop[i].type \in {"PROMPT", "MENU"}))

CalcRev(t, h, s) == IF t.rev[s] = Null THEN [h |-> h, v |-> 0] ELSE CalcExpr(t, h, t.rev[s])

PutVis(x, s) == [x.h EXCEPT !.sym[s].vis = Bool(x.v)]
PutDir(x, s) == [x.h EXCEPT !.sym[s].dir = Bool(x.v)]
PutRev(x, s) == [x.h EXCEPT !.sym[s].rev = IF s \in IntSyms THEN x.v ELSE Bool(x.v)]

\* Of a choice value nothing but the prompts counts.
CalcLimits(t, h, s) ==
  IF t.choiceval[s] # "" THEN h
  ELSE PutRev(CalcRev(t, PutDir(CalcExpr(t, h, t.dir[s]), s), s), s)

sym_calc_visibility(t, h, s) == CalcLimits(t, PutVis(CalcPrompts(t, h, s), s), s)

\* A default of a choice counts if its condition holds and its value is visible.
DefaultValue(x, i, v) == [h |-> Kept(x, i), v |-> IF x.v # 0 /\ x.h.sym[v].vis # 0 THEN v ELSE ""]
ChoiceDefault(t, h, choice) ==
  FoldLeft(LAMBDA r, i : IF r.v # "" THEN r
                         ELSE DefaultValue(CalcExpr(t, r.h, t.prop[i].vis), i, t.prop[i].expr[2]),
           [h |-> h, v |-> ""], PropsOfType(t, choice, "DEFAULT"))

FirstShown(r, values) ==
  IF r.v # "" \/ \A i \in DOMAIN values : r.h.sym[values[i]].vis = 0 THEN r
  ELSE [r EXCEPT !.v = SelectSeq(values, LAMBDA v : r.h.sym[v].vis # 0)[1]]

\* The default of a choice, or its first visible value, or "".
sym_choice_default(t, h, choice) == FirstShown(ChoiceDefault(t, h, choice), ChoiceValues(t, choice))

\* The user's value of a choice is dropped as soon as a visible value is new.
StillDefined(h, choice, values) ==
  h.sym[choice].def /\ \A v \in ToSet(values) : h.sym[v].vis # 0 => h.sym[v].def

\* A mutant: the user's value stands even if it is not visible.
UserValueHidden(h, choice) == h.sym[choice].uval

\* The value the user has chosen, if it is visible, or "".
UserValue(h, choice) ==
  LET user == h.sym[choice].uval IN IF user # "" /\ h.sym[user].vis # 0 THEN user ELSE ""

\* A choice without a value is n.
PutChosen(h, choice, v) ==
  [h EXCEPT !.sym[choice].val = v, !.sym[choice].tri = IF v = "" THEN 0 ELSE @]
PutDefault(d, choice) == PutChosen(d.h, choice, d.v)

ChosenValue(t, h, choice) ==
  IF UserValue(h, choice) # "" THEN PutChosen(h, choice, UserValue(h, choice))
  ELSE PutDefault(sym_choice_default(t, h, choice), choice)

DropUserValue(t, h, choice) ==
  [h EXCEPT !.sym[choice].def = StillDefined(h, choice, ChoiceValues(t, choice))]

\* The value of choice, which is y, becomes the heap's choice value (curr.val).
sym_calc_choice(t, h, choice) ==
  ChosenValue(t, DropUserValue(t, FoldLeft(LAMBDA g, v : sym_calc_visibility(t, g, v), h,
                                           ChoiceValues(t, choice)), choice), choice)

-----------------------------------------------------------------------------
(* sym_calc_value.                                                            *)

\* What selects a symbol it cannot be below.
PutTri(h, s, v) == [h EXCEPT !.sym[s].tri = Bool(EXPR_OR(v, h.sym[s].rev)), !.sym[s].val = ""]
ToWrite(h, s) == [h EXCEPT !.sym[s].write = TRUE]

TriByDefault(x, i, s) == PutTri(ToWrite(x.h, s), s, EXPR_AND(x.v, x.h.pvis[i]))
TriWithout(t, d, s) ==
  IF d.i = 0 THEN PutTri(d.h, s, 0) ELSE TriByDefault(CalcExpr(t, d.h, t.prop[d.i].expr), d.i, s)

\* The value of a boolean, from the user, the default and what selects it.
CalcTristate(t, h, s) ==
  IF t.choiceval[s] # "" /\ h.sym[s].vis = 2
  THEN [h EXCEPT !.sym[s].tri = IF h.sym[t.choiceval[s]].val = s THEN 2 ELSE 0]
  ELSE IF h.sym[s].vis # 0 /\ h.sym[s].def
  THEN PutTri(ToWrite(h, s), s, EXPR_AND(h.sym[s].utri, h.sym[s].vis))
  ELSE LET g == [h EXCEPT !.sym[s].write = @ \/ h.sym[s].vis # 0 \/ h.sym[s].rev # 0]
       IN IF s \in t.choice THEN PutTri(g, s, 0)
          ELSE TriWithout(t, FirstVisible(t, g, PropsOfType(t, s, "DEFAULT")), s)

\* An integer takes the string of the symbol from.
PutString(h, s, from) == [h EXCEPT !.sym[s].val = sym_get_string_value(h, from)]
StringWithout(t, d, s) ==
  IF d.i = 0 THEN [d.h EXCEPT !.sym[s].write = d.h.sym[s].vis # 0]
  ELSE PutString(ToWrite(sym_calc_value(t, d.h, t.prop[d.i].expr[2]), s), s, t.prop[d.i].expr[2])

\* The value of an integer, from the user or from a symbol that is its default.
CalcString(t, h, s) ==
  IF h.sym[s].vis # 0 /\ h.sym[s].def THEN [ToWrite(h, s) EXCEPT !.sym[s].val = h.sym[s].uval]
  ELSE StringWithout(t, FirstVisible(t, h, PropsOfType(t, s, "DEFAULT")), s)

\* The value of an integer is moved into the range lo..hi, two symbols.
AtMost(h, s, hi) ==
  IF NumberOf(h.sym[s].val) > NumberOf(sym_get_string_value(h, hi)) THEN PutString(h, s, hi) ELSE h
AtLeast(t, h, s, lo, hi) ==
  IF NumberOf(h.sym[s].val) < NumberOf(sym_get_string_value(h, lo)) THEN PutString(h, s, lo)
  ELSE AtMost(sym_calc_value(t, h, hi), s, hi)
MovedInto(t, r, s) ==
  IF r.i = 0 THEN r.h
  ELSE AtLeast(t, sym_calc_value(t, r.h, t.prop[r.i].expr[2]), s, t.prop[r.i].expr[2], t.prop[r.i].expr[3])

sym_validate_range(t, h, s) == MovedInto(t, FirstVisible(t, h, PropsOfType(t, s, "RANGE")), s)

\* The visible values of a choice are written when the choice is; the choice itself never is.
WriteValues(t, h, s) ==
  Changed([h EXCEPT !.sym[s].write = FALSE],
          {v \in Syms : t.choiceval[v] = s /\ h.sym[s].write /\ h.sym[v].vis # 0},
          LAMBDA v, x : [x EXCEPT !.write = TRUE])

\* What is left to do with a value that has been calculated.
Completed(t, h, s) ==
  IF s \in IntSyms THEN sym_validate_range(t, h, s)
  ELSE IF s \in t.choice
  THEN WriteValues(t, IF h.sym[s].tri = 2 THEN sym_calc_choice(t, h, s) ELSE h, s)
  ELSE h

NewValueOf(t, h, s) ==
  LET g == [h EXCEPT !.sym[s].tri = 0, !.sym[s].val = ""]
  IN Completed(t, IF s \in IntSyms THEN CalcString(t, g, s) ELSE CalcTristate(t, g, s), s)

sym_calc_value(t, h, s) ==
  IF s \notin Syms THEN h
  ELSE IF h.sym[s].valid THEN h
  ELSE NewValueOf(t, sym_calc_visibility(t, [h EXCEPT !.sym[s].valid = TRUE,
                                                      !.sym[s].write = @ /\ t.choiceval[s] # ""], s), s)

\* A mutant: the change is not counted.
sym_clear_all_validQuiet(h) == Changed(h, Syms, LAMBDA s, x : [x EXCEPT !.valid = FALSE])

sym_clear_all_valid(h) ==
  [Changed(h, Syms, LAMBDA s, x : [x EXCEPT !.valid = FALSE]) EXCEPT !.changed = TRUE, !.stale = FALSE]

-----------------------------------------------------------------------------
(* Setting a value.  These return [h, ok].                                    *)

\* A mutant: a value that is selected can be set to n.
sym_tristate_within_rangeSelected(t, h, s, val) ==
  /\ s \notin IntSyms /\ h.sym[s].vis # 0 /\ val # 1
  /\ IF t.choiceval[s] # "" /\ h.sym[s].vis = 2 THEN val = 2 ELSE val <= h.sym[s].vis

sym_tristate_within_range(t, h, s, val) ==
  /\ s \notin IntSyms /\ h.sym[s].vis # 0 /\ val # 1
  /\ sym_is_changable(h, s)
  /\ IF t.choiceval[s] # "" /\ h.sym[s].vis = 2 THEN val = 2
     ELSE val >= h.sym[s].rev /\ val <= h.sym[s].vis

\* Setting a choice value also sets the choice, and none of its visible values is new.
SetChoice(t, h, s) ==
  LET cs == t.choiceval[s]
  IN Changed([h EXCEPT !.sym[cs].uval = s, !.sym[cs].def = TRUE],
             {v \in Syms : t.choiceval[v] = cs /\ h.sym[v].vis # 0},
             LAMBDA v, x : [x EXCEPT !.def = TRUE])

PutUser(t, h, s, val) ==
  LET g == [h EXCEPT !.sym[s].def = TRUE, !.sym[s].utri = val]
  IN IF t.choiceval[s] # "" /\ val = 2 THEN SetChoice(t, g, s) ELSE g

sym_set_tristate_value(t, h, s, val) ==
  IF h.sym[s].tri = val THEN [h |-> PutUser(t, h, s, val), ok |-> TRUE]
  ELSE IF sym_tristate_within_range(t, h, s, val)
  THEN [h |-> sym_clear_all_valid(PutUser(t, h, s, val)), ok |-> TRUE]
  ELSE [h |-> h, ok |-> FALSE]

\* The next value after the present one that can be set; m, which follows n, never can.
Toggled(t, h, s, other) == IF other.ok THEN other.h ELSE sym_set_tristate_value(t, h, s, h.sym[s].tri).h
sym_toggle_tristate_value(t, h, s) ==
  Toggled(t, h, s, sym_set_tristate_value(t, h, s, 2 - h.sym[s].tri))

\* str against the range lo..hi.
NotAbove(h, hi, str) == [h |-> h, ok |-> NumberOf(str) <= NumberOf(sym_get_string_value(h, hi))]
NotBelow(t, h, lo, hi, str) ==
  IF NumberOf(str) < NumberOf(sym_get_string_value(h, lo)) THEN [h |-> h, ok |-> FALSE]
  ELSE NotAbove(sym_calc_value(t, h, hi), hi, str)
Within(t, r, str) ==
  IF r.i = 0 THEN [h |-> r.h, ok |-> TRUE]
  ELSE NotBelow(t, sym_calc_value(t, r.h, t.prop[r.i].expr[2]), t.prop[r.i].expr[2], t.prop[r.i].expr[3], str)

sym_string_within_range(t, h, s, str) ==
  IF str \notin DOMAIN Numeral THEN [h |-> h, ok |-> FALSE]
  ELSE Within(t, FirstVisible(t, h, PropsOfType(t, s, "RANGE")), str)

\* For an integer.
PutEntered(r, s, str) ==
  IF ~r.ok THEN r
  ELSE IF r.h.sym[s].uval = str THEN [r EXCEPT !.h.sym[s].def = TRUE]
  ELSE [r EXCEPT !.h = sym_clear_all_valid([@ EXCEPT !.sym[s].def = TRUE, !.sym[s].uval = str])]
sym_set_string_value(t, h, s, str) == PutEntered(sym_string_within_range(t, h, s, str), s, str)

\* What a symbol would be without a value of the user.
YesNo(v) == IF v # 0 THEN "y" ELSE "n"
DefaultTri(x, i, s) ==
  [h |-> x.h, v |-> YesNo(EXPR_OR(EXPR_AND(x.v, x.h.pvis[i]), x.h.sym[s].rev))]
DefaultString(h, from) == [h |-> h, v |-> sym_get_string_value(h, from)]
DefaultBy(t, d, s) ==
  IF d.i = 0 THEN [h |-> d.h, v |-> IF s \in IntSyms THEN "" ELSE YesNo(d.h.sym[s].rev)]
  ELSE IF s \in IntSyms
  THEN DefaultString(sym_calc_value(t, d.h, t.prop[d.i].expr[2]), t.prop[d.i].expr[2])
  ELSE DefaultTri(CalcExpr(t, d.h, t.prop[d.i].expr), d.i, s)

sym_get_string_default(t, h, s) ==
  DefaultBy(t, FirstVisible(t, sym_calc_visibility(t, h, s), PropsOfType(t, s, "DEFAULT")), s)

-----------------------------------------------------------------------------
(* menu_is_visible, which calculates the symbol and, for an entry that is only *)
(* shown for its children, marks the symbol as set.                           *)

RECURSIVE menu_is_visible(_, _, _), IfShown(_, _, _), ForChildren(_, _, _)

\* An entry whose own prompt is hidden is shown for a child, if it is y.
ShownFor(r, s) == IF r.ok THEN [r EXCEPT !.h.sym[s].def = TRUE] ELSE r
ForChildren(t, h, m) ==
  IF h.pvis[t.menu[m].prompt] # 0 THEN [h |-> h, ok |-> TRUE]
  ELSE IF h.sym[t.menu[m].sym].tri = 0 THEN [h |-> h, ok |-> FALSE]
  ELSE ShownFor(FoldLeft(LAMBDA r, c : IF r.ok THEN r ELSE menu_is_visible(t, r.h, c),
                         [h |-> h, ok |-> FALSE], Children(t, m)), t.menu[m].sym)

Verdict(x) == [h |-> x.h, ok |-> x.v # 0]
IfShown(t, v, m) ==
  IF v.v = 0 THEN [h |-> v.h, ok |-> FALSE]
  ELSE IF t.menu[m].sym = "" THEN Verdict(CalcExpr(t, v.h, t.prop[t.menu[m].prompt].vis))
  ELSE ForChildren(t, sym_calc_value(t, v.h, t.menu[m].sym), m)

\* Null, the condition of an entry without "visible if", is y.
menu_is_visible(t, h, m) ==
  IF t.menu[m].prompt = 0 THEN [h |-> h, ok |-> FALSE]
  ELSE IfShown(t, CalcExpr(t, h, t.menu[m].visibility), m)
=============================================================================
