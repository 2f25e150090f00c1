-------------------------------- MODULE KConf --------------------------------
(* conf (src/support/kconfig/conf.c): make config, oldconfig, silentoldconfig,  *)
(* olddefconfig, defconfig, savedefconfig, allyesconfig and so on.  The walk   *)
(* over the menu tree is a stack of calls: <<"conf", m>> asks for the symbols  *)
(* of entry m and those below it, <<"check", m>> only looks for new ones.      *)
EXTENDS KSession

CONSTANT Seeded        \* the symbols randpackageconfig and its like take from .config

VARIABLES
  mode,       \* input_mode
  sync,       \* sync_kconfig: conf was called for silentoldconfig
  todo,       \* the calls still to be made, the next one first
  conf_cnt,   \* whether a new symbol was asked for in this pass
  rootEntry   \* the menu that is being asked for

conf_vars == <<mode, sync, todo, conf_cnt, rootEntry>>

Modes == {"oldaskconfig", "oldconfig", "silentoldconfig", "listnewconfig", "olddefconfig", "defconfig",
          "savedefconfig", "allyesconfig", "allnoconfig", "alldefconfig", "randconfig"}
Asking == {"oldaskconfig", "oldconfig", "silentoldconfig", "listnewconfig", "olddefconfig"}
NewIn == [allyesconfig |-> "yes", allnoconfig |-> "no", randconfig |-> "random",
          alldefconfig |-> "default", defconfig |-> "default"]

ConfInit == mode = "" /\ sync = FALSE /\ todo = <<>> /\ conf_cnt = FALSE /\ rootEntry = Root

Calls(f, entries) == [i \in DOMAIN entries |-> <<f, entries[i]>>]

\* The lines of .config that KCONFIG_ALLCONFIG may give to allnoconfig and so on.
Seed == SelectSeq(disk[".config"], LAMBDA line : line[1] \in Seeded)

\* The symbols with which the walk, or the writing, starts.
Read(name) == conf_read(tree, EmptyHeap(tree), disk[name], name = ".config")
Given(m, seeded) == CASE m = "defconfig" -> Read("defconfig")
                      [] seeded -> conf_read_simple(tree, EmptyHeap(tree), Seed).h
                      [] OTHER -> EmptyHeap(tree)
Loaded(m, draw, pick, seeded) ==
  IF m \in Asking \union {"savedefconfig"} THEN Read(".config")
  ELSE conf_set_all_new_symbols(tree, Given(m, seeded), NewIn[m], draw, pick)

Booleans == Syms \ IntSyms
Draws(m) == IF m = "randconfig" THEN {d \in [Booleans -> {0, 2}] : \A s \in tree.choice : d[s] = 2}
            ELSE {[s \in Booleans |-> 0]}
Picks(m) == IF m = "randconfig"
            THEN {f \in [tree.choice -> Syms] : \A c \in tree.choice : f[c] \in ToSet(ChoiceValues(tree, c))}
            ELSE {<<>>}

\* main up to the walk; without the file it needs conf exits.
Start ==
  /\ \E m \in use \intersect Modes, seeded \in BOOLEAN :
       /\ m = "defconfig" => disk["defconfig"] # NoFile
       /\ m = "silentoldconfig" => disk[".config"] # NoFile
       /\ seeded => m \in {"allyesconfig", "allnoconfig", "randconfig"} /\ disk[".config"] # NoFile
       /\ mode' = m /\ sync' = (m = "silentoldconfig")
       /\ todo' = CASE m = "oldaskconfig" -> <<<<"conf", Root>>>>
                    [] m \in Asking \ {"oldaskconfig"} -> <<<<"check", Root>>>>
                    [] OTHER -> <<>>
       /\ \E draw \in Draws(m), pick \in Picks(m) : Begin("conf", Loaded(m, draw, pick, seeded))
  /\ conf_cnt' = FALSE /\ rootEntry' = Root

-----------------------------------------------------------------------------
(* The walk.                                                                  *)

Walking(f) == prog = "conf" /\ todo # <<>> /\ todo[1][1] = f
Entry1 == todo[1][2]
conf_childs(f, m) == Calls(f, Children(tree, m))

Proceed(h, calls) == /\ Continue(h) /\ UNCHANGED <<filename, acts, fresh>>
                     /\ todo' = calls \o Tail(todo)

\* The menu an entry belongs to.
menu_get_parent_menu(m) ==
  LET IsMenu(a) == tree.menu[a].prompt # 0 /\ tree.prop[tree.menu[a].prompt].type = "MENU"
  IN SelectSeq(Above(tree, m), LAMBDA a : a = Root \/ IsMenu(a))[1]

\* A mutant: only what is n is asked for.
IsNewUnset(h, s) ==
  ~h.sym[s].def /\ h.sym[s].tri = 0 /\ (sym_is_changable(h, s) \/ (s \in tree.choice /\ h.sym[s].tri = 2))

\* A mutant: what has been answered is asked for again.
IsNewAlways(h, s) == sym_is_changable(h, s) \/ (s \in tree.choice /\ h.sym[s].tri = 2)

\* A symbol that is new and can be given a value.
IsNew(h, s) ==
  ~h.sym[s].def /\ (sym_is_changable(h, s) \/ (s \in tree.choice /\ h.sym[s].tri = 2))

\* The rest of the pass goes on with what the questions have left behind.
Asks(h, m) ==
  /\ tree.menu[m].sym # "" /\ IsNew(h, tree.menu[m].sym)
  /\ mode \notin {"listnewconfig", "olddefconfig"}

CheckEntry(m, v) ==
  IF v.ok /\ Asks(v.h, m)
  THEN /\ Proceed(v.h, <<<<"conf", menu_get_parent_menu(m)>>>> \o conf_childs("check", m))
       /\ conf_cnt' = TRUE /\ rootEntry' = menu_get_parent_menu(m)
  ELSE /\ Proceed(v.h, IF v.ok THEN conf_childs("check", m) ELSE <<>>)
       /\ UNCHANGED <<conf_cnt, rootEntry>>

check_conf ==
  /\ Walking("check")
  /\ CheckEntry(Entry1, menu_is_visible(tree, heap, Entry1))
  /\ UNCHANGED <<mode, sync>>

\* A menu that is not asked for: only what is new in it.
OnlyNew(m) == /\ tree.prop[tree.menu[m].prompt].type = "MENU"
              /\ mode \in {"silentoldconfig", "listnewconfig", "olddefconfig"}
              /\ rootEntry # m

\* Whether conf_askvalue reads an answer.
conf_askvalue(h, s) ==
  sym_is_changable(h, s) /\ (mode \in {"oldconfig", "silentoldconfig"} => ~h.sym[s].def)

\* What the question leaves: an answer that is refused is asked for again.
Answers(h, s) ==
  IF ~conf_askvalue(h, s) THEN {h}
  ELSE {r.h : r \in {x \in IF s \in IntSyms
                           THEN {sym_set_string_value(tree, h, s, v) : v \in DOMAIN Numeral \union {h.sym[s].val}}
                           ELSE {sym_set_tristate_value(tree, h, s, v) : v \in {0, 2, h.sym[s].tri}} : x.ok}}

conf_sym(m, h) == \E g \in Answers(h, tree.menu[m].sym) : Proceed(g, conf_childs("conf", m))

\* The values that may be taken: the only one, the one the choice has, or any for a new choice.
Taken(r, s, isNew) ==
  IF Len(r.values) # 1 /\ mode \in {"oldconfig", "silentoldconfig"} /\ ~isNew
  THEN {c \in ToSet(r.values) : tree.menu[c].sym = r.h.sym[s].val}
  ELSE ToSet(r.values)

TakeValue(r, s, isNew) ==
  \E c \in Taken(r, s, isNew) :
    Proceed(sym_set_tristate_value(tree, r.h, tree.menu[c].sym, 2).h, conf_childs("conf", c))

ChooseIn(m, h, s, isNew) ==
  IF h.sym[s].tri = 0 THEN Proceed(h, <<>>) ELSE TakeValue(VisibleValues(h, m), s, isNew)

conf_choice(m, h, s) ==
  \E g \in IF sym_is_changable(h, s) THEN Answers(h, s) ELSE {h} :
    ChooseIn(m, sym_calc_value(tree, g, s), s, ~h.sym[s].def)

\* An entry that is not visible, a menu that is not asked for, one without a symbol,
\* a choice, or a symbol.
ConfEntry(m, v) ==
  \/ ~v.ok /\ Proceed(v.h, <<>>)
  \/ v.ok /\ OnlyNew(m) /\ Proceed(v.h, <<<<"check", m>>>>)
  \/ v.ok /\ ~OnlyNew(m) /\ tree.menu[m].sym = "" /\ Proceed(v.h, conf_childs("conf", m))
  \/ v.ok /\ ~OnlyNew(m) /\ tree.menu[m].sym \in tree.choice /\ conf_choice(m, v.h, tree.menu[m].sym)
  \/ v.ok /\ ~OnlyNew(m) /\ tree.menu[m].sym \in Syms \ tree.choice /\ conf_sym(m, v.h)

conf ==
  /\ Walking("conf")
  /\ ConfEntry(Entry1, menu_is_visible(tree, heap, Entry1))
  /\ UNCHANGED <<mode, sync, conf_cnt, rootEntry>>

-----------------------------------------------------------------------------
(* The end of the walk.                                                       *)

\* Another pass, until one has asked for nothing.
NextPass ==
  /\ prog = "conf" /\ todo = <<>> /\ mode \in Asking
  /\ mode = "oldaskconfig" \/ (conf_cnt /\ mode \notin {"listnewconfig", "olddefconfig"})
  /\ mode' = IF mode = "oldaskconfig" THEN "silentoldconfig" ELSE mode
  /\ conf_cnt' = FALSE /\ todo' = <<<<"check", Root>>>>
  /\ UNCHANGED <<session, sync, rootEntry>>

\* conf_write_autoconf: the values as make will read them.
Autoconf(h) == SelectSeq(conf_write(tree, Settled(h)).file, LAMBDA line : line[2] # "n")

Saved(w) == [disk EXCEPT ![".config"] = w.file]
SavedAndSynced(w) == [Saved(w) EXCEPT !["auto.conf"] = Autoconf(w.h)]

\* What main writes at the end.
Output == CASE sync /\ heap.changed -> SavedAndSynced(conf_write(tree, heap))
            [] sync /\ ~heap.changed -> [disk EXCEPT !["auto.conf"] = Autoconf(heap)]
            [] mode = "savedefconfig" -> [disk EXCEPT !["defconfig"] = conf_write_defconfig(tree, heap).file]
            [] mode = "listnewconfig" -> disk
            [] ~sync /\ mode \notin {"savedefconfig", "listnewconfig"} -> Saved(conf_write(tree, heap))

Finish ==
  /\ prog = "conf" /\ todo = <<>>
  /\ mode \in Asking => mode # "oldaskconfig" /\ (~conf_cnt \/ mode \in {"listnewconfig", "olddefconfig"})
  /\ End(Output)
  /\ mode' = "" /\ sync' = FALSE /\ conf_cnt' = FALSE /\ rootEntry' = Root
  /\ UNCHANGED todo

\* silentoldconfig ends without an answer: stdin is no terminal, or it may not update .config.
Aborted ==
  /\ prog = "conf" /\ sync
  /\ \/ heap.changed /\ todo = <<<<"check", Root>>>> /\ ~conf_cnt
     \/ todo # <<>> /\ todo[1][1] = "conf"
  /\ End(disk)
  /\ mode' = "" /\ sync' = FALSE /\ conf_cnt' = FALSE /\ rootEntry' = Root /\ todo' = <<>>
=============================================================================
