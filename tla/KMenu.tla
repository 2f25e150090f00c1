-------------------------------- MODULE KMenu --------------------------------
(* The menu tree of Kconfig (src/support/kconfig/menu.c): what the parser      *)
(* adds to it, menu_finalize, which rebuilds it, and the check for recursive   *)
(* dependencies (symbol.c).  A tree is a record:                               *)
(*   menu       the entries, linked by next, list and parent (0 is NULL);      *)
(*   prop       the properties of all symbols, oldest first;                   *)
(*   rev, dir   rev_dep.expr and dir_dep.expr of each symbol;                  *)
(*   choice     the choice symbols, of optional choices in optional;           *)
(*   choiceval  the choice a choice value belongs to, or "";                   *)
(*   at         current_menu, current_entry and last_entry_ptr;                *)
(*   freed      whether a menu's visibility may lie in nodes that were freed.  *)
(* shared marks a property whose condition is, in parts, the very expression   *)
(* that is the visibility of a menu above: all other expressions are copied    *)
(* before they are rewritten.                                                  *)
(* The types of the symbols are constants: menu_set_type, and the type a       *)
(* choice and its values take from each other, are left out.                   *)
EXTENDS KExpr

Root == 1
Entry(sym, parent) == [sym |-> sym, parent |-> parent, next |-> 0, list |-> 0, prompt |-> 0,
                       dep |-> Null, visibility |-> Null]
Prop(sym, type, menu, expr, vis) ==
  [sym |-> sym, type |-> type, menu |-> menu, expr |-> expr, vis |-> vis, shared |-> FALSE]

PropsOf(t, sym) == SelectSeq([i \in DOMAIN t.prop |-> i], LAMBDA i : t.prop[i].sym = sym)
PropsOfType(t, sym, type) == SelectSeq(PropsOf(t, sym), LAMBDA i : t.prop[i].type = type)

\* The values of a choice, in the order of its P_CHOICE list.
ChoiceValues(t, choice) ==
  LET own == SelectSeq([i \in DOMAIN t.prop |-> t.prop[i]],
                       LAMBDA p : p.type = "CHOICE" /\ p.expr = Sym(choice))
  IN [i \in DOMAIN own |-> own[i].sym]

_menu_init ==
  [menu |-> <<[Entry("", 0) EXCEPT !.prompt = 1]>>,
   prop |-> <<Prop("", "MENU", Root, Null, Null)>>,
   rev |-> [s \in Syms |-> Null], dir |-> [s \in Syms |-> Null],
   choice |-> {}, optional |-> {}, choiceval |-> [s \in Syms |-> ""],
   at |-> [menu |-> Root, entry |-> Root, slot |-> <<Root, "list">>], freed |-> FALSE]

-----------------------------------------------------------------------------
(* The operations of the parser.                                              *)

menu_add_entry(t, sym) ==
  LET id == Len(t.menu) + 1
      linked == [t.menu EXCEPT ![t.at.slot[1]][t.at.slot[2]] = id]
  IN [t EXCEPT !.menu = Append(linked, Entry(sym, t.at.menu)),
               !.prop = IF sym = "" THEN @ ELSE Append(@, Prop(sym, "SYMBOL", id, Sym(sym), Null)),
               !.at = [@ EXCEPT !.entry = id, !.slot = <<id, "next">>]]

menu_add_menu(t) == [t EXCEPT !.at = [@ EXCEPT !.menu = t.at.entry, !.slot = <<t.at.entry, "list">>]]

menu_end_menu(t) ==
  [t EXCEPT !.at = [@ EXCEPT !.menu = t.menu[t.at.menu].parent, !.slot = <<t.at.menu, "next">>]]

\* 'm' in a dependency is 'm' && MODULES.
RECURSIVE menu_check_dep(_)
menu_check_dep(e) ==
  CASE e[1] = "NOT" -> Not(menu_check_dep(e[2]))
    [] IsTwo(e) -> Two(e[1], menu_check_dep(e[2]), menu_check_dep(e[3]))
    [] e = Sym("m") -> Two("AND", e, Sym("MODULES"))
    [] OTHER -> e

menu_add_dep(t, dep) ==
  [t EXCEPT !.menu[t.at.entry].dep = expr_alloc_and(@, menu_check_dep(dep))]

menu_add_visibility(t, expr) == [t EXCEPT !.menu[t.at.entry].visibility = expr_alloc_and(@, expr)]

RECURSIVE Above(_, _)
Above(t, m) == IF m = 0 THEN <<>> ELSE <<m>> \o Above(t, t.menu[m].parent)

menu_add_prop(t, type, expr, dep) ==
  Append(t.prop, Prop(t.menu[t.at.entry].sym, type, t.at.entry, expr, menu_check_dep(dep)))

\* P_DEFAULT, P_SELECT and P_RANGE
menu_add_expr(t, type, expr, dep) == [t EXCEPT !.prop = menu_add_prop(t, type, expr, dep)]

\* A mutant: only the menu right above limits a prompt.
menu_add_promptOne(t, type, dep) ==
  [t EXCEPT !.prop = Append(@, Prop(t.menu[t.at.entry].sym, type, t.at.entry, Null, menu_check_dep(dep))),
            !.menu[t.at.entry].prompt = Len(t.prop) + 1]

\* P_PROMPT, P_MENU and P_COMMENT; the visibility of every menu above limits a P_PROMPT, which
\* gets it without a copy.
menu_add_prompt(t, type, dep) ==
  LET id == Len(t.prop) + 1
      outer == IF type = "PROMPT" THEN Above(t, t.menu[t.at.entry].parent) ELSE <<>>
      vis == FoldLeft(LAMBDA e, m : expr_alloc_and(e, t.menu[m].visibility), menu_check_dep(dep), outer)
      new == Prop(t.menu[t.at.entry].sym, type, t.at.entry, Null, vis)
  IN [t EXCEPT !.prop = Append(@, [new EXCEPT !.shared = \E m \in ToSet(outer) : t.menu[m].visibility # Null]),
               !.menu[t.at.entry].prompt = id]

-----------------------------------------------------------------------------
(* menu_finalize.                                                             *)

IsChoice(t, m) == t.menu[m].sym \in t.choice
PromptVis(t, m) == t.prop[t.menu[m].prompt].vis

\* The prompt's condition of an entry, or its dependency when it has none.
EntryDep(t, m) == IF t.menu[m].prompt # 0 THEN PromptVis(t, m) ELSE t.menu[m].dep

RECURSIVE Chain(_, _)
Chain(t, m) == IF m = 0 THEN <<>> ELSE <<m>> \o Chain(t, t.menu[m].next)
Children(t, m) == Chain(t, t.menu[m].list)

\* What a select adds to rev_dep: the selecting symbol under the condition of the select.
Selection(sym, vis) == expr_alloc_and(Sym(sym), vis)

\* A dependency below another one.
Below(outer, e) == expr_eliminate_dups(expr_alloc_and(outer, expr_transform(e)))

\* The properties of an entry, or its prompt when it is not of a symbol.
OwnProps(t, m) == CASE t.menu[m].sym # "" -> PropsOf(t, t.menu[m].sym)
                    [] t.menu[m].sym = "" /\ t.menu[m].prompt # 0 -> <<t.menu[m].prompt>>
                    [] OTHER -> <<>>

\* Property i of the entry for sym gets the condition vis.
SetVis(t, i, sym, vis) ==
  LET p == t.prop[i]
  IN [t EXCEPT !.prop[i].vis = vis,
               !.rev = IF p.type # "SELECT" THEN @
                       ELSE [@ EXCEPT ![p.expr[2]] = expr_alloc_or(@, Selection(sym, vis))]]

\* Rewriting the condition in place frees the nodes it no longer needs, or puts other operands
\* into them.
PropagateToProp(t, i, m) ==
  LET sym == t.menu[m].sym
      p == t.prop[i]
      Bool(e) == IF sym # "" /\ sym \notin TriSyms THEN expr_trans_bool(e) ELSE e
      vis == Bool(Below(t.menu[m].dep, p.vis))
      rewritten == vis # expr_alloc_and(t.menu[m].dep, p.vis)
  IN IF p.menu # m THEN t
     ELSE [SetVis(t, i, sym, vis) EXCEPT !.freed = @ \/ (p.shared /\ rewritten)]

\* The dependencies of entry m, and of its properties, below the dependency of its parent.
PropagateDeps(t, m, parentdep) ==
  FoldLeft(LAMBDA u, i : PropagateToProp(u, i, m),
           [t EXCEPT !.menu[m].dep = Below(parentdep, @)], OwnProps(t, m))

Tested0(e) == expr_eliminate_dups(expr_transform(expr_trans_compare(e, "UNEQUAL", "n")))

\* One of the operands that dep and base share is all that base asks for.
Covers(dep, base) == expr_is_yes(expr_eliminate_eq(Tested0(dep), Tested0(base))[2])

\* A mutant: any mention of the symbol makes an entry part of its submenu.
DependsOnParentAny(t, p, m) == expr_contains_symbol(EntryDep(t, m), t.menu[p].sym)

\* Whether the entry after a symbol belongs into the submenu of that symbol.
DependsOnParent(t, p, m) ==
  LET sym == t.menu[p].sym
      dep == EntryDep(t, m)
  IN /\ expr_contains_symbol(dep, sym)
     /\ \/ expr_depends_symbol(dep, sym)
        \/ Covers(dep, IF t.menu[p].prompt # 0 THEN PromptVis(t, p) ELSE Null)

\* A config entry directly below a choice becomes one of its values.
AddChoiceValue(t, choice, m) ==
  LET sym == t.menu[m].sym
      only == Comp("EQUAL", choice, "y")
      Narrowed(p) == IF p.menu = m THEN [p EXCEPT !.vis = expr_alloc_and(only, @)] ELSE p
      narrow == choice \in TriSyms /\ sym \notin TriSyms
  IN IF sym = "" \/ t.choiceval[sym] # "" THEN t
     ELSE [t EXCEPT !.choiceval[sym] = choice,
                    !.menu[m].dep = IF narrow THEN expr_alloc_and(only, @) ELSE @,
                    !.prop = Append([i \in DOMAIN @ |->
                                       IF narrow /\ @[i].sym = sym THEN Narrowed(@[i]) ELSE @[i]],
                                    Prop(sym, "CHOICE", m, Sym(choice), Null))]

\* A mutant: the children keep the parent they had.
FlattenOrphans(t, parent, m) ==
  LET below == Children(t, m)
  IN IF below = <<>> \/ t.menu[m].prompt # 0 THEN t
     ELSE [t EXCEPT !.menu = [@ EXCEPT ![below[Len(below)]].next = t.menu[m].next,
                                       ![m].next = t.menu[m].list, ![m].list = 0]]

\* The children of an entry without a prompt take its place behind it.
Flatten(t, parent, m) ==
  LET below == Children(t, m)
      last == below[Len(below)]
      adopted == FoldLeft(LAMBDA u, c : [u EXCEPT ![c].parent = parent], t.menu, below)
  IN IF below = <<>> \/ t.menu[m].prompt # 0 THEN t
     ELSE [t EXCEPT !.menu = [adopted EXCEPT ![last].next = t.menu[m].next,
                                             ![m].next = t.menu[m].list,
                                             ![m].list = 0]]

RECURSIVE menu_finalize(_, _), FinalizeAll(_, _), Gather(_, _, _, _), FlattenAll(_, _, _)

FinalizeAll(t, m) ==
  IF m = 0 THEN t ELSE LET u == menu_finalize(t, m) IN FinalizeAll(u, u.menu[m].next)

\* The entries after symbol entry p that depend on it; last is the one before m.
Gather(t, p, m, last) ==
  IF m # 0 /\ DependsOnParent(t, p, m)
  THEN LET u == [menu_finalize(t, m) EXCEPT !.menu[m].parent = p]
       IN Gather(u, p, u.menu[m].next, m)
  ELSE IF last = 0 THEN t
  ELSE [t EXCEPT !.menu = [@ EXCEPT ![p].list = t.menu[p].next,
                                    ![p].next = t.menu[last].next,
                                    ![last].next = 0]]

FlattenAll(t, parent, m) ==
  LET After(u) == FlattenAll(u, parent, u.menu[m].next)
  IN IF m = 0 THEN t
     ELSE After(Flatten(IF IsChoice(t, parent) THEN AddChoiceValue(t, t.menu[parent].sym, m) ELSE t, parent, m))

FinalizeChildren(t, p) ==
  LET parentdep == IF IsChoice(t, p) THEN Sym(t.menu[p].sym) ELSE EntryDep(t, p)
      Entries(u) == FinalizeAll(u, u.menu[p].list)
  IN Entries(FoldLeft(LAMBDA u, m : PropagateDeps(u, m, parentdep), t, Children(t, p)))

\* The dependency of an entry counts for its symbol.
AddDirectDep(t, p) == [t EXCEPT !.dir[t.menu[p].sym] = expr_alloc_or(@, t.menu[p].dep)]

FlattenChildren(t, p) == FlattenAll(t, p, t.menu[p].list)

\* A choice that is not optional is selected where its prompt is visible.
DemandChoice(t, p) ==
  LET sym == t.menu[p].sym
  IN IF sym \notin t.choice \ t.optional \/ t.menu[p].prompt = 0 THEN t
     ELSE [t EXCEPT !.rev[sym] = expr_alloc_or(@, expr_alloc_and(PromptVis(t, p), Sym("m")))]

menu_finalize(t, p) ==
  DemandChoice(FlattenChildren(
    CASE t.menu[p].list # 0 -> FinalizeChildren(t, p)
      [] t.menu[p].list = 0 /\ t.menu[p].sym # "" -> AddDirectDep(Gather(t, p, t.menu[p].next, 0), p)
      [] OTHER -> t, p), p)

-----------------------------------------------------------------------------
(* sym_check_deps: a walk along the dependencies of a symbol.  c.check are the *)
(* symbols being checked, c.checked those met before, c.found the symbols a    *)
(* recursive dependency was reported for.  A walk returns the symbol at which  *)
(* the recursion was found, or "".                                             *)

RECURSIVE SymbolsIn(_)
SymbolsIn(e) == CASE e[1] = "SYMBOL" -> <<e[2]>>
                  [] e[1] = "NOT" -> SymbolsIn(e[2])
                  [] IsComp(e) -> <<e[2], e[3]>>
                  [] IsTwo(e) -> SymbolsIn(e[2]) \o SymbolsIn(e[3])
                  [] OTHER -> <<>>

\* What sym_check_sym_deps visits: rev_dep, conditions and default values.
DepsOf(t, sym) ==
  LET Visited(i) ==
        LET p == t.prop[i]
        IN IF p.type \in {"CHOICE", "SELECT"} THEN <<>>
           ELSE SymbolsIn(p.vis) \o (IF p.type = "DEFAULT" /\ sym \notin t.choice
                                     THEN SymbolsIn(p.expr) ELSE <<>>)
      own == PropsOf(t, sym)
  IN SelectSeq(SymbolsIn(t.rev[sym]) \o FlattenSeq([i \in DOMAIN own |-> Visited(own[i])]),
               LAMBDA s : s \in Syms)

\* A mutant: a symbol that was checked stays marked as being checked.
LeaveMarked(c, syms) == c

Leave(c, syms) == [c EXCEPT !.check = @ \ syms]

RECURSIVE sym_check_deps(_, _, _), CheckEach(_, _, _)

CheckEach(t, c, deps) ==
  IF deps = <<>> THEN <<"", c>>
  ELSE LET r == sym_check_deps(t, c, Head(deps))
       IN IF r[1] # "" THEN r ELSE CheckEach(t, r[2], Tail(deps))

\* A symbol is marked while it is checked.
Marked(c, syms) == [c EXCEPT !.check = @ \union syms, !.checked = @ \union syms]

LeaveWith(r, syms) == <<r[1], Leave(r[2], syms)>>

\* The values of a choice are checked one after the other until one fails.
sym_check_choice_deps(t, c, choice) ==
  LET values == ToSet(ChoiceValues(t, choice))
      EachValue(first) ==
        FoldLeft(LAMBDA r, v : IF r[1] # "" THEN r ELSE CheckEach(t, r[2], DepsOf(t, v)),
                 first, ChoiceValues(t, choice))
      Found(r) == <<IF r[1] \in values THEN choice ELSE r[1], r[2]>>
  IN Found(LeaveWith(EachValue(LeaveWith(CheckEach(t, Marked(c, values \union {choice}), DepsOf(t, choice)),
                                         {choice})),
                     values))

sym_check_deps(t, c, sym) ==
  LET Found(r) == <<IF r[1] = sym THEN "" ELSE r[1], r[2]>>
  IN CASE sym \in c.check -> <<sym, [c EXCEPT !.found = @ \union {sym}]>>
       [] sym \in c.checked \ c.check -> <<"", c>>
       [] OTHER ->
            Found(CASE t.choiceval[sym] # "" -> sym_check_deps(t, c, t.choiceval[sym])
                    [] sym \in t.choice -> sym_check_choice_deps(t, c, sym)
                    [] OTHER -> LeaveWith(CheckEach(t, Marked(c, {sym}), DepsOf(t, sym)), {sym}))
=============================================================================
