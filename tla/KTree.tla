-------------------------------- MODULE KTree --------------------------------
(* conf_parse (src/support/kconfig/zconf.y): a configuration file is read,     *)
(* statement by statement, into a menu tree; the tree is finalized and its     *)
(* symbols are checked for recursive dependencies.                             *)
EXTENDS KMenu, FiniteSets

CONSTANTS Names,         \* Names[i]: the symbols the i-th config statement may be of
          Choice,        \* the symbol of a choice
          Budgets        \* bounds on a file: records of the config statements, the if, menu and
                         \* choice blocks and the select statements it may have, and of what
                         \* "depends on", "if" and "visible if" may say; Null for nothing

VARIABLES
  tree, phase,
  reported,   \* the symbols a recursive dependency was reported for
  scope,      \* the open blocks: [dep, vis] holds what they ask of the entries inside, and
              \* choice says whether the grammar forbids menus and choices there
  want,       \* for each entry, the condition of its prompt by the rules of the language
  configs,    \* the config statements so far
  budget      \* what the file may still have: [config, block, select, of]

vars == <<tree, phase, reported, scope, want, configs, budget>>

Init == /\ tree = _menu_init /\ phase = "parse" /\ reported = {}
        /\ scope = <<[dep |-> Null, vis |-> Null, choice |-> FALSE]>>
        /\ want = <<Null>>
        /\ configs = 0
        /\ budget \in Budgets

Here == scope[Len(scope)]
And(e1, e2) == expr_alloc_and(e1, e2)

\* config sym; bool [prompt [if cond]]; depends on dep; select target
Config ==
  /\ phase = "parse" /\ budget.config > 0 /\ configs < Len(Names)
  /\ \E sym \in Names[configs + 1], dep, cond \in budget.of, prompt \in BOOLEAN,
        target \in Syms \union {""} :
       /\ cond # Null => prompt /\ dep = Null
       /\ target # "" => budget.select > 0 /\ target \notin {sym, Choice}
       /\ LET t1 == menu_add_dep(menu_add_entry(tree, sym), dep)
              t2 == IF prompt THEN menu_add_prompt(t1, "PROMPT", cond) ELSE t1
          IN tree' = IF target = "" THEN t2 ELSE menu_add_expr(t2, "SELECT", Sym(target), Null)
       /\ want' = Append(want, And(And(Here.dep, dep), IF prompt THEN And(cond, Here.vis) ELSE Null))
       /\ budget' = [budget EXCEPT !.config = @ - 1, !.select = IF target = "" THEN @ ELSE @ - 1]
  /\ configs' = configs + 1
  /\ UNCHANGED <<phase, reported, scope>>

OpenBlock(t, inside, cond) ==
  /\ phase = "parse" /\ budget.block > 0
  /\ tree' = menu_add_menu(t)
  /\ scope' = Append(scope, inside)
  /\ want' = Append(want, cond)
  /\ budget' = [budget EXCEPT !.block = @ - 1]
  /\ UNCHANGED <<phase, reported, configs>>

If == \E dep \in budget.of \ {Null} :
        OpenBlock(menu_add_dep(menu_add_entry(tree, ""), dep),
                  [Here EXCEPT !.dep = And(@, dep), !.choice = FALSE], And(Here.dep, dep))

Menu == \E dep, vis \in budget.of : ~Here.choice /\ Null \in {dep, vis} /\
          OpenBlock(menu_add_visibility(menu_add_dep(menu_add_prompt(menu_add_entry(tree, ""), "MENU", Null),
                                                     dep), vis),
                    [dep |-> And(Here.dep, dep), vis |-> And(Here.vis, vis), choice |-> FALSE], And(Here.dep, dep))

ChoiceBlock ==
  /\ Choice \notin tree.choice /\ ~Here.choice
  /\ \E dep \in budget.of : \E optional \in {dep = Null, FALSE} :
       LET t1 == menu_add_expr(menu_add_entry(tree, Choice), "CHOICE", Null, Null)
           t2 == menu_add_dep(menu_add_prompt(t1, "PROMPT", Null), dep)
       IN OpenBlock([t2 EXCEPT !.choice = {Choice}, !.optional = IF optional THEN {Choice} ELSE {}],
                    [Here EXCEPT !.dep = Sym(Choice), !.choice = TRUE], And(Here.dep, And(dep, Here.vis)))

EndBlock == /\ phase = "parse" /\ Len(scope) > 1
            /\ tree' = menu_end_menu(tree)
            /\ scope' = Front(scope)
            /\ UNCHANGED <<phase, reported, want, configs, budget>>

\* The symbols are checked in the order of the hash table.
CheckAll(t) ==
  FoldLeft(LAMBDA c, s : sym_check_deps(t, c, s)[2],
           [check |-> {}, checked |-> {}, found |-> {}], SetToSeq(Syms)).found

\* When an expression that is still in use has been freed, there is no telling what the rest of
\* menu_finalize, and the program after it, makes of it.
EndOfFile == /\ phase = "parse" /\ Len(scope) = 1
             /\ tree' = menu_finalize(tree, Root)
             /\ reported' = CheckAll(tree')
             /\ phase' = IF tree'.freed THEN "undefined" ELSE "finalized"
             /\ UNCHANGED <<scope, want, configs, budget>>

Next == Config \/ If \/ Menu \/ ChoiceBlock \/ EndBlock \/ EndOfFile

Spec == Init /\ [][Next]_vars

-----------------------------------------------------------------------------
(* Properties, of every file that is finalized without rewriting the           *)
(* visibility of a menu through a prompt below it: with "visible if A" on a    *)
(* menu, a prompt in it that already depends on A is enough to free what the   *)
(* menu and its other prompts go on using (menu.c:151-153, menu.c:306-308,     *)
(* expr.c:543).                                                                *)

\* Buildroot has no modules: every symbol is y or n.
Configurations == {w \in Worlds : \A s \in Syms : w[s] # 1}

RECURSIVE Preorder(_)
Preorder(m) == <<m>> \o FlattenSeq([i \in DOMAIN Children(tree, m) |-> Preorder(Children(tree, m)[i])])

(* The relinking of menu_finalize loses no entry, doubles none and keeps them *)
(* in the order of the file, and every entry knows the entry it is listed     *)
(* under: conf, mconf, conf_write and conf_write_defconfig walk by these      *)
(* links.                                                                     *)
TreeIntact ==
  phase = "finalized" =>
    /\ Preorder(Root) = [i \in DOMAIN tree.menu |-> i]
    /\ \A m \in DOMAIN tree.menu : \A i \in DOMAIN Children(tree, m) :
         tree.menu[Children(tree, m)[i]].parent = m

(* The conditions the tree ends up with are those the language gives: of an   *)
(* entry its own and those of every block around it, nothing more and nothing *)
(* less; and a symbol is forced exactly when one that selects it is y and the  *)
(* dependency of that entry holds.                                            *)
ConditionsOf(w) ==
  \A m \in DOMAIN tree.menu :
    expr_calc_value(EntryDep(tree, m), w) = expr_calc_value(want[m], w)
Forced(s, w) ==
  \E i \in DOMAIN tree.prop :
    LET p == tree.prop[i]
    IN /\ p.type = "SELECT" /\ p.expr = Sym(s)
       /\ w[p.sym] = 2 /\ expr_calc_value(tree.menu[p.menu].dep, w) = 2
ScopeRespected ==
  phase = "finalized" =>
    \A w \in Configurations :
      /\ ConditionsOf(w)
      /\ \A s \in Syms \ {Choice} :
           (tree.rev[s] # Null /\ expr_calc_value(tree.rev[s], w) = 2) <=> Forced(s, w)

Group(s) == IF tree.choiceval[s] # "" THEN tree.choiceval[s] ELSE s

\* The dependencies between symbols; a choice and its values count as one.  The first
\* set is without those on the choice itself by what is not one of its values.
Links(s, deps) == {<<Group(s), Group(d)>> : d \in deps \ {tree.choiceval[s]}}
PlainEdges == UNION {Links(s, ToSet(DepsOf(tree, s)) \ tree.choice) : s \in Syms}
Edges == UNION {Links(s, ToSet(DepsOf(tree, s))) : s \in Syms}

RECURSIVE ReachedFrom(_, _)
ReachedFrom(links, S) == LET T == S \union {e[2] : e \in {x \in links : x[1] \in S}}
                         IN IF T = S THEN S ELSE ReachedFrom(links, T)

RECURSIVE Visible(_, _)
\* menu_is_visible in configuration w
Visible(m, w) ==
  LET e == tree.menu[m]
  IN /\ e.prompt # 0
     /\ expr_calc_value(e.visibility, w) # 0
     /\ \/ expr_calc_value(PromptVis(tree, m), w) # 0
        \/ e.sym # "" /\ w[e.sym] # 0 /\ \E c \in ToSet(Children(tree, m)) : Visible(c, w)

\* A choice is not set where its prompt is not visible.
ChoiceFollows(w) ==
  \A m \in DOMAIN tree.menu :
    IsChoice(tree, m) /\ expr_calc_value(PromptVis(tree, m), w) = 0 => w[Choice] = 0

(* A prompt that can be answered can be reached: the submenus menu_finalize   *)
(* makes never put a visible entry below one the interfaces do not show,      *)
(* unless symbols depend on themselves, which is reported.                    *)
NoHiddenPrompt ==
  phase = "finalized" /\ reported = {} =>
    \A w \in Configurations : ChoiceFollows(w) =>
      \A m \in DOMAIN tree.menu :
        LET p == tree.menu[m].prompt
        IN p # 0 /\ tree.prop[p].type = "PROMPT" /\ expr_calc_value(PromptVis(tree, m), w) # 0
             => \A a \in ToSet(Above(tree, m)) : Visible(a, w)

Cyclic(links) == \E e \in links : e[1] \in ReachedFrom(links, {e[2]})

(* conf_parse reports a recursive dependency when there is one, and only then. *)
(* It may miss one that goes through a choice symbol: the choice is no longer  *)
(* marked while its values are checked.                                        *)
RecursionReported ==
  phase = "finalized" =>
    /\ Cyclic(PlainEdges) => reported # {}
    /\ reported # {} => Cyclic(Edges)

=============================================================================
