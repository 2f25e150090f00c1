------------------------------ MODULE MCKConfig ------------------------------
(* Small Config.in files for KConfig, built with the operations of the parser. *)
EXTENDS KConfig

MCNumeral == [x \in {"1", "2", "3"} |-> CASE x = "1" -> 1 [] x = "2" -> 2 [] x = "3" -> 3]

Interval(lo, hi) == <<"RANGE", lo, hi>>

\* config sym / prompt / depends on dep
Config(t, sym, dep) == menu_add_prompt(menu_add_dep(menu_add_entry(t, sym), dep), "PROMPT", Null)
Default(t, sym, dep) == menu_add_expr(t, "DEFAULT", Sym(sym), dep)
Select(t, sym) == menu_add_expr(t, "SELECT", Sym(sym), Null)
Ranged(t, lo, hi, dep) == menu_add_expr(t, "RANGE", Interval(lo, hi), dep)
ChoiceOf(t, sym, Body(_)) ==
  LET t1 == menu_add_prompt(menu_add_expr(menu_add_entry(t, sym), "CHOICE", Null, Null), "PROMPT", Null)
  IN menu_end_menu(Body(menu_add_menu([t1 EXCEPT !.choice = {sym}])))
MenuOf(t, vis, Body(_)) ==
  menu_end_menu(Body(menu_add_menu(menu_add_visibility(menu_add_prompt(menu_add_entry(t, ""), "MENU", Null), vis))))

\* A is a menu with B in it, hidden and forced by D; B is y by default; E has no prompt.
Deps ==
  LET a == menu_add_prompt(menu_add_entry(_menu_init, "A"), "MENU", Not(Sym("D")))
      b == Default(Config(a, "B", Sym("A")), "y", Null)
      d == Select(Config(b, "D", Null), "A")
  IN Default(menu_add_entry(d, "E"), "B", Null)

\* V2 appears with A; the default is V2.
OneOfTwo ==
  ChoiceOf(Config(_menu_init, "A", Null), "C",
           LAMBDA t : Config(Config(Default(t, "V2", Null), "V1", Null), "V2", Sym("A")))

\* The range of N depends on A, and B on N.
Numbers ==
  Config(MenuOf(Config(_menu_init, "A", Null), Null,
           LAMBDA t : Ranged(Ranged(Default(Config(t, "N", Null), "2", Null), "1", "2", Sym("A")), "2", "3", Null)),
         "B", Comp("EQUAL", "N", "3"))

\* N, out of its range in the file, becomes 1, but B is calculated while it is 2.
Clamped ==
  Config(Ranged(Default(Config(_menu_init, "N", Null), "1", Null), "1", "2", Null), "B", Comp("EQUAL", "N", "2"))

Disk(main, def) == [n \in Names |-> CASE n = ".config" -> main [] n = "defconfig" -> def [] OTHER -> NoFile]
Setup(t, main, def, programs) == [tree |-> t, disk |-> Disk(main, def), use |-> programs]

MCSetups ==
  {[s EXCEPT !.tree = menu_finalize(s.tree, Root)] : s \in {
   Setup(Deps, NoFile, <<<<"D", "y">>>>, {"mconf", "oldconfig", "defconfig"}),
   Setup(Deps, <<<<"A", "y">>, <<"X", "y">>>>, NoFile, {"gconf", "silentoldconfig", "savedefconfig"}),
   Setup(OneOfTwo, <<<<"V1", "y">>, <<"V2", "y">>>>, <<<<"V1", "y">>>>,
         {"nconf", "savedefconfig", "defconfig", "oldconfig"}),
   Setup(OneOfTwo, <<<<"A", "y">>, <<"V1", "y">>>>, NoFile, {"qconf", "olddefconfig", "oldaskconfig"}),
   Setup(OneOfTwo, <<<<"A", "y">>>>, NoFile, {"randconfig", "allyesconfig", "allnoconfig", "alldefconfig"}),
   Setup(Numbers, <<<<"A", "n">>, <<"N", "3">>>>, NoFile, {"mconf", "gconf", "silentoldconfig"}),
   Setup(Numbers, <<<<"A", "y">>, <<"N", "3">>>>, NoFile, {"olddefconfig", "listnewconfig", "savedefconfig"}),
   Setup(Clamped, <<<<"N", "3">>, <<"B", "y">>>>, NoFile, {"mconf", "gconf", "silentoldconfig", "savedefconfig"})}}

MCHashOrder == <<"B", "N", "C", "V2", "A", "D", "E", "V1">>
=============================================================================
