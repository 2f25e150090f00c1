-------------------------------- MODULE KFront -------------------------------
(* The interactive front ends: mconf and nconf, which list one menu at a time, *)
(* and gconf and qconf, which show a tree (src/support/kconfig/mconf.c,        *)
(* nconf.c, gconf.c, qconf.cc).  Whatever a front end shows it first           *)
(* calculates, so that looking at a menu changes the heap.                     *)
EXTENDS KSession

VARIABLE at            \* current_menu: the menu that mconf or nconf lists

Curses == {"mconf", "nconf"}
Graphic == {"gconf", "qconf"}

\* A menu, or the symbol of a menuconfig statement.
IsMenu(m) == tree.menu[m].prompt # 0 /\ tree.prop[tree.menu[m].prompt].type = "MENU"

\* main: conf_read(NULL), then the main menu.
Launch == /\ \E p \in (Curses \union Graphic) \intersect use : Begin(p, ReadConfig(EmptyHeap(tree)))
          /\ at' = Root

\* Whether an entry is listed, also if it is not visible with all set, and the heap
\* that finding out leaves: nconf then calculates nothing.
Listed(h, m, all) ==
  IF all /\ prog = "nconf" THEN [h |-> h, ok |-> TRUE]
  ELSE [menu_is_visible(tree, h, m) EXCEPT !.ok = IF all THEN tree.menu[m].prompt # 0 ELSE @]

TagOf(h, s) == CASE s \in IntSyms -> "s"
                 [] tree.choiceval[s] # "" /\ h.sym[s].tri = 2 -> ":"
                 [] OTHER -> "t"

\* The entry of the value that a choice has.
Chosen(r, s) == SelectSeq(r.values, LAMBDA c : tree.menu[c].sym = r.h.sym[s].val)

(* build_conf: the entries of the menu top with their tags: m for a menu, t    *)
(* for a boolean, s for an integer, : for what cannot be changed.  to is what  *)
(* is to be listed, [top, all]; v says whether the entry is, and from which    *)
(* heap on.                                                                    *)
RECURSIVE build_conf(_, _, _, _), BuildChildren(_, _, _), BuildEntry(_, _, _, _, _), BuildChoice(_, _, _, _, _)

BuildChildren(r, below, to) ==
  FoldLeft(LAMBDA u, c : build_conf(u, Listed(u.h, c, to.all), c, to), r, below)

Item(items, h, m, tag) == [h |-> h, items |-> Append(items, <<m, tag>>)]

\* v: the values of the choice s, with the heap that looking for them leaves.
BuildChoice(items, v, m, s, to) ==
  BuildChildren(Item(items, v.h, m, IF sym_is_changable(v.h, s) \/ Chosen(v, s) # <<>> THEN "t" ELSE ":"),
                IF v.h.sym[s].tri # 2 THEN Children(tree, m)
                ELSE SelectSeq(Chosen(v, s), LAMBDA c : tree.menu[c].list # 0), to)

\* tag is "" for an entry without a symbol.
BuildEntry(items, h, m, tag, to) ==
  IF m # to.top /\ IsMenu(m) /\ tag # "s" THEN Item(items, h, m, IF tag = "" THEN "m" ELSE tag)
  ELSE BuildChildren(IF m = to.top /\ tag = "" THEN [h |-> h, items |-> items]
                     ELSE Item(items, h, m, IF m = to.top \/ tag = "" THEN ":" ELSE tag),
                     Children(tree, m), to)

build_conf(r, v, m, to) ==
  IF ~v.ok THEN [r EXCEPT !.h = v.h]
  ELSE IF tree.menu[m].sym \in tree.choice
  THEN BuildChoice(r.items, VisibleValues(v.h, m), m, tree.menu[m].sym, to)
  ELSE BuildEntry(r.items, v.h, m, IF tree.menu[m].sym = "" THEN "" ELSE TagOf(v.h, tree.menu[m].sym), to)

Screen(all) == BuildChildren([h |-> heap, items |-> <<>>], <<at>>, [top |-> at, all |-> all])

\* An entry that a key is pressed on.  nconf looks again whether it is visible.
OnItem(r, Do(_, _, _)) ==
  \E i \in DOMAIN r.items :
    \E v \in {IF prog = "nconf" THEN menu_is_visible(tree, r.h, r.items[i][1]) ELSE [h |-> r.h, ok |-> TRUE]} :
      v.ok /\ Do(v.h, r.items[i][1], r.items[i][2])

\* A set or a toggle leaves a change behind, or nothing at all.
Resume(h) == Continue(h) /\ fresh' = (fresh \/ h.changed) /\ UNCHANGED filename

\* One more thing done by the user.
Act == acts < MaxActs /\ acts' = acts + 1

-----------------------------------------------------------------------------
(* The keys of mconf and nconf, on the entry m with its tag.                  *)

OpenMenu(h, m, tag) == tag \in {"m", "t"} /\ IsMenu(m) /\ Resume(h) /\ at' = m /\ UNCHANGED acts

SetTristate(h, m, tag) ==
  /\ tag = "t" /\ Act
  /\ \E val \in {0, 2} : Resume(sym_set_tristate_value(tree, h, tree.menu[m].sym, val).h)
  /\ UNCHANGED at

Toggle(h, m, tag) ==
  /\ tag = "t" /\ Act
  /\ Resume(sym_toggle_tristate_value(tree, h, tree.menu[m].sym))
  /\ UNCHANGED at

\* conf_choice: the list of values of a choice that is y.
PickValue(h, m, tag) ==
  /\ tag = "t" /\ Act
  /\ tree.menu[m].sym \in tree.choice /\ h.sym[tree.menu[m].sym].tri = 2
  /\ \E r \in {VisibleValues(h, m)} :
       \E c \in ToSet(r.values) : Resume(sym_set_tristate_value(tree, r.h, tree.menu[c].sym, 2).h)
  /\ UNCHANGED at

\* conf_string: an entry that is refused leaves the old value.
EnterString(h, m, tag) ==
  /\ tag = "s" /\ Act
  /\ \E str \in DOMAIN Numeral : Resume(sym_set_string_value(tree, h, tree.menu[m].sym, str).h)
  /\ UNCHANGED at

\* ESC, or the left arrow, in a menu that is not the main menu.
CloseMenu(h) ==
  /\ at # Root
  /\ Resume(h) /\ UNCHANGED acts
  /\ at' = SelectSeq(Tail(Above(tree, at)), LAMBDA a : a = Root \/ IsMenu(a))[1]

-----------------------------------------------------------------------------
(* The clicks and keys of gconf and qconf, in the view that shows every menu.  *)

\* What the row of a menu entry shows is calculated; gconf looks for the value of a choice.
fill_row(h, m) == IF tree.menu[m].sym \in tree.choice THEN VisibleValues(h, m).h ELSE h
updateMenu(h, m) == sym_calc_value(tree, h, tree.menu[m].sym)
Row(h, m) == IF prog = "gconf" THEN fill_row(updateMenu(h, m), m) ELSE updateMenu(h, m)

\* The rows below the menu m, and the heap that showing them leaves.
RECURSIVE update_tree(_, _), ShowChild(_, _, _)
ShowChild(rows, v, m) ==
  IF v.ok THEN update_tree([h |-> Row(v.h, m), rows |-> Append(rows, m)], m) ELSE [h |-> v.h, rows |-> rows]
update_tree(r, m) ==
  FoldLeft(LAMBDA u, c : ShowChild(u.rows, menu_is_visible(tree, u.h, c), c), r, Children(tree, m))

Shown == update_tree([h |-> heap, rows |-> <<>>], Root)

\* gconf: a click on N or Y; what cannot be set becomes y.
change_sym_value(h, s, val) ==
  sym_set_tristate_value(tree, h, s, IF sym_tristate_within_range(tree, h, s, val) THEN val ELSE 2).h

toggle_sym_value(h, s) == sym_toggle_tristate_value(tree, h, s)

\* qconf: a click on N or Y, and one on the prompt or the value.
setValue(h, s, val) == sym_set_tristate_value(tree, h, s, val).h
changeValue(h, s) == sym_toggle_tristate_value(tree, h, s)

on_treeview2_button_press_event(h, s) ==
  /\ prog = "gconf"
  /\ \/ \E val \in {0, 2} : Resume(change_sym_value(h, s, val))
     \/ Resume(toggle_sym_value(h, s))

on_treeview2_key_press_event(h, s) ==
  prog = "gconf" /\ \E val \in {0, 2} : Resume(change_sym_value(h, s, val))

\* A double click in the left tree, which shows the menus.
on_treeview1_button_press_event(h, m) ==
  prog = "gconf" /\ IsMenu(m) /\ Resume(toggle_sym_value(h, tree.menu[m].sym))

contentsMouseReleaseEvent(h, s) ==
  /\ prog = "qconf"
  /\ \/ \E val \in {0, 2} : Resume(setValue(h, s, val))
     \/ Resume(changeValue(h, s))

keyPressEvent(h, s) ==
  /\ prog = "qconf"
  /\ \/ \E val \in {0, 2} : Resume(setValue(h, s, val))
     \/ Resume(changeValue(h, s))

\* Text is entered; no message when it is refused.
renderer_edited(h, s) ==
  s \in IntSyms /\ \E str \in DOMAIN Numeral : Resume(sym_set_string_value(tree, h, s, str).h)

OnRow(h, m, s) ==
  /\ Act /\ UNCHANGED at
  /\ \/ renderer_edited(h, s)
     \/ /\ s \in Syms \ IntSyms
        /\ \/ on_treeview2_button_press_event(h, s)
           \/ on_treeview2_key_press_event(h, s)
           \/ on_treeview1_button_press_event(h, m)
           \/ contentsMouseReleaseEvent(h, s)
           \/ keyPressEvent(h, s)

-----------------------------------------------------------------------------
(* Files and the end.  h are the symbols once all that the screen shows has    *)
(* been calculated.                                                            *)

\* mconf and nconf mark what they have loaded as changed, and work on that file.
\* A file that does not exist leaves the configuration, but not the change count.
LoadCurses(h) ==
  /\ Act
  /\ \E f \in {".config", "other"} :
       \/ /\ disk[f] # NoFile
          /\ Continue([conf_read(tree, h, disk[f], FALSE) EXCEPT !.changed = TRUE])
          /\ filename' = f /\ fresh' = TRUE
       \/ /\ disk[f] = NoFile
          /\ Continue([h EXCEPT !.changed = FALSE])
          /\ fresh' = (fresh /\ ~heap.changed) /\ UNCHANGED filename
  /\ UNCHANGED at

LoadGraphic(h) ==
  /\ Act
  /\ \E f \in {".config", "other"} :
       /\ Continue(conf_read(tree, h, disk[f], FALSE))
       /\ fresh' = IF disk[f] = NoFile THEN fresh /\ ~heap.changed ELSE heap'.changed \/ f = ".config"
  /\ UNCHANGED <<at, filename>>

WriteTo(f, w) == heap' = w.h /\ disk' = [disk EXCEPT ![f] = w.file]

SaveCurses(h) ==
  /\ Act
  /\ \E f \in {".config", "other"} : WriteTo(f, conf_write(tree, h)) /\ filename' = f
  /\ fresh' = TRUE
  /\ UNCHANGED <<tree, use, prog, runs, at>>

\* qconf asks for a name, and writes .config.
saveConfigAs(f) == IF prog = "qconf" THEN ".config" ELSE f

SaveGraphic(h) ==
  /\ Act
  /\ \E f \in {saveConfigAs(n) : n \in {".config", "other"}} :
       WriteTo(f, conf_write(tree, h)) /\ fresh' = (f = ".config")
  /\ UNCHANGED <<tree, use, prog, filename, runs, at>>

\* The file that is written to at the end.
Own == IF prog \in Curses THEN filename ELSE ".config"

\* The end: without a change nobody is asked; otherwise to save or not.
Leaves(h) ==
  /\ \/ h.changed /\ End([disk EXCEPT ![Own] = conf_write(tree, h).file])
     \/ End(disk)
  /\ at' = Root

QuitCurses(h) == prog \in Curses /\ Leaves(h)
QuitGconf(h) == prog = "gconf" /\ Leaves(h)
QuitQconf(h) == prog = "qconf" /\ Leaves(h)

-----------------------------------------------------------------------------
(* The loops that wait for a key or an event.                                 *)

PressKey == /\ prog \in Curses
            /\ \E all \in BOOLEAN : OnItem(Screen(all), LAMBDA h, m, tag :
                 OpenMenu(h, m, tag) \/ SetTristate(h, m, tag) \/ Toggle(h, m, tag)
                 \/ PickValue(h, m, tag) \/ EnterString(h, m, tag))

LeaveScreen == /\ prog \in Curses
               /\ \E r \in {Screen(FALSE)} :
                    CloseMenu(r.h) \/ LoadCurses(r.h) \/ SaveCurses(r.h) \/ QuitCurses(r.h)

HandleEvent == /\ prog \in Graphic
               /\ \E r \in {Shown} :
                    \/ \E m \in ToSet(r.rows) : OnRow(r.h, m, tree.menu[m].sym)
                    \/ LoadGraphic(r.h) \/ SaveGraphic(r.h) \/ QuitGconf(r.h) \/ QuitQconf(r.h)
=============================================================================
