------------------------------ MODULE KConfdata ------------------------------
(* Reading and writing configurations (src/support/kconfig/confdata.c).  A     *)
(* file is a sequence of lines <<symbol, string>>; the string "n" of a boolean *)
(* is the line "# symbol is not set".  Headings and comments are left out.     *)
EXTENDS KSymbol

CONSTANT HashOrder     \* the order in which for_all_symbols meets the symbols

NoFile == <<<<"", "no such file">>>>

\* The entries in the order in which they are walked.
RECURSIVE Preorder(_, _)
Preorder(t, m) == <<m>> \o FlattenSeq([i \in DOMAIN Children(t, m) |-> Preorder(t, Children(t, m)[i])])

\* A line is rejected with a warning or taken; r.warn is conf_warnings # 0.
conf_set_sym_val(r, s, str) ==
  CASE s \in IntSyms /\ str \in DOMAIN Numeral
         -> [r EXCEPT !.h.sym[s].uval = str, !.h.sym[s].def = TRUE]
    [] s \notin IntSyms /\ str \in {"y", "n"}
         -> [r EXCEPT !.h.sym[s].utri = IF str = "y" THEN 2 ELSE 0, !.h.sym[s].def = TRUE]
    [] s \in IntSyms /\ str = "n" -> r
    [] OTHER -> [r EXCEPT !.warn = TRUE]

\* A choice value that is y becomes the value of its choice; the last one wins.
SetsChoice(t, r, s) ==
  LET cs == t.choiceval[s]
  IN IF cs = "" \/ r.h.sym[s].utri = 0 THEN r
     ELSE [r EXCEPT !.warn = @ \/ r.h.sym[cs].utri # 0,
                    !.h.sym[cs].uval = s, !.h.sym[cs].utri = 2]

Rejected(line) == line[2] \notin IF line[1] \in IntSyms THEN DOMAIN Numeral \union {"n"} ELSE {"y", "n"}

ReadLine(t, r, line) ==
  IF line[1] \notin Syms THEN [r EXCEPT !.h.changed = TRUE]
  ELSE LET taken == conf_set_sym_val([r EXCEPT !.warn = @ \/ r.h.sym[line[1]].def], line[1], line[2])
       IN IF Rejected(line) THEN taken ELSE SetsChoice(t, taken, line[1])

\* Every symbol loses the value it had; every choice has one from now on.
Forget(t, h) ==
  [Changed(h, Syms, LAMBDA s, x : [x EXCEPT !.valid = FALSE, !.def = s \in t.choice, !.utri = 0, !.uval = ""])
   EXCEPT !.stale = FALSE]

conf_read_simple(t, h, file) ==
  FoldLeft(LAMBDA r, line : ReadLine(t, r, line), [h |-> Forget(t, h), warn |-> FALSE], file)

\* Compares what a symbol is with what the file said; r.unsaved is conf_unsaved # 0.
Differs(s, own) ==
  IF own.def /\ own.write THEN IF s \in IntSyms THEN own.val # own.uval ELSE own.tri # own.utri
  ELSE own.def \/ own.write
Compared(t, h, s, unsaved) ==
  [h |-> h, unsaved |-> unsaved \/ (s \notin t.choice /\ Differs(s, h.sym[s]))]
Agrees(t, r, s) == Compared(t, sym_calc_value(t, r.h, s), s, r.unsaved)

\* Drops values that are not visible, and integers that are out of range.  The symbols that have
\* been calculated from such an integer stay as they are.
DropHidden(r, s) == IF r.h.sym[s].vis = 0 /\ ~r.unsaved THEN [r EXCEPT !.h.sym[s].def = FALSE] ELSE r
DropOutside(x, s, unsaved) ==
  IF x.ok THEN [h |-> x.h, unsaved |-> unsaved]
  ELSE [h |-> [x.h EXCEPT !.sym[s].valid = FALSE, !.sym[s].def = FALSE, !.stale = TRUE],
        unsaved |-> TRUE]
Drops(t, r, s) ==
  IF ~r.h.sym[s].def \/ t.choiceval[s] # "" THEN r
  ELSE IF s \notin IntSyms THEN DropHidden(r, s)
  ELSE DropOutside(sym_string_within_range(t, DropHidden(r, s).h, s, r.h.sym[s].uval), s, r.unsaved)

CheckAll(t, h) ==
  FoldLeft(LAMBDA r, s : Drops(t, r, s),
           FoldLeft(LAMBDA r, s : Agrees(t, r, s), [h |-> h, unsaved |-> FALSE], HashOrder), HashOrder)
CountWarnings(r, warn) == [r.h EXCEPT !.changed = @ \/ warn \/ r.unsaved]
Checked(t, read) == CountWarnings(CheckAll(t, read.h), read.warn)

(* The heap after reading a file.  The change count is reset before the file   *)
(* is looked for; missing is what it becomes when there is none: 1 for .config *)
(* (a NULL name), 0 for a file that was named.                                *)
conf_read(t, h, file, missing) ==
  IF file = NoFile THEN [h EXCEPT !.changed = missing]
  ELSE Checked(t, conf_read_simple(t, [h EXCEPT !.changed = FALSE], file))

-----------------------------------------------------------------------------
(* Writing.                                                                   *)

\* A symbol is written once.
PutLine(h, file, s) ==
  [h |-> [h EXCEPT !.sym[s].write = FALSE], file |-> Append(file, <<s, sym_get_string_value(h, s)>>)]

\* A mutant: what is n is left out.
WrittenLineNo(h, file, s) ==
  IF h.sym[s].write /\ sym_get_string_value(h, s) # "n" THEN PutLine(h, file, s)
  ELSE [h |-> h, file |-> file]

\* conf_write_symbol, for a symbol that has been calculated.
WrittenLine(h, file, s) ==
  IF h.sym[s].write THEN PutLine(h, file, s) ELSE [h |-> h, file |-> file]

\* Of an entry without a symbol the prompt is looked at, which the headings need.
WrittenEntry(t, w, m) ==
  LET s == t.menu[m].sym
  IN IF s = "" THEN [w EXCEPT !.h = menu_is_visible(t, @, m).h]
     ELSE IF s \in t.choice THEN w ELSE WrittenLine(sym_calc_value(t, w.h, s), w.file, s)

\* The symbols are only calculated anew where nothing has changed.
conf_write(t, h) ==
  [FoldLeft(LAMBDA w, m : WrittenEntry(t, w, m),
            [h |-> IF h.changed THEN h ELSE sym_clear_all_valid(h), file |-> <<>>], Tail(Preorder(t, Root)))
   EXCEPT !.h.changed = FALSE]

\* A mutant: the first value of the choice stands for its default.
ImpliedByChoiceFirst(t, h, s) ==
  [h |-> h, ok |-> t.choiceval[s] \notin t.optional /\ s = Head(ChoiceValues(t, t.choiceval[s]))
                   /\ h.sym[s].tri = 2]

\* A choice value that is y because the choice chooses it by default is left out.
ImpliedBy(t, d, s) ==
  [h |-> d.h, ok |-> t.choiceval[s] \notin t.optional /\ s = d.v /\ s \in BoolSyms /\ d.h.sym[s].tri = 2]
ImpliedByChoice(t, h, s) == ImpliedBy(t, sym_choice_default(t, h, t.choiceval[s]), s)

\* A line of a symbol that can be changed and is not what it is by default.
UnlessImplied(x, file, s) ==
  [h |-> x.h, file |-> IF x.ok THEN file ELSE Append(file, <<s, sym_get_string_value(x.h, s)>>)]
UnlessDefault(t, d, file, s) ==
  IF d.v = sym_get_string_value(d.h, s) THEN [h |-> d.h, file |-> file]
  ELSE UnlessImplied(IF t.choiceval[s] = "" THEN [h |-> d.h, ok |-> FALSE]
                     ELSE ImpliedByChoice(t, d.h, s), file, s)
DefconfigLine(t, h, file, s) ==
  LET g == [h EXCEPT !.sym[s].write = FALSE]
  IN IF h.sym[s].write /\ sym_is_changable(h, s)
     THEN UnlessDefault(t, sym_get_string_default(t, g, s), file, s)
     ELSE [h |-> g, file |-> file]
DefconfigEntry(t, w, m) ==
  LET s == t.menu[m].sym
  IN IF s = "" THEN [w EXCEPT !.h = menu_is_visible(t, @, m).h]
     ELSE IF s \in t.choice THEN w ELSE DefconfigLine(t, sym_calc_value(t, w.h, s), w.file, s)

conf_write_defconfig(t, h) ==
  FoldLeft(LAMBDA w, m : DefconfigEntry(t, w, m), [h |-> sym_clear_all_valid(h), file |-> <<>>],
           Tail(Preorder(t, Root)))

-----------------------------------------------------------------------------
(* conf_set_all_new_symbols.  In mode "random" draw[s] is what the draw of s    *)
(* gives and pick[c] the value drawn for choice c.                            *)

NewValue(t, h, mode, draw, s) ==
  LET to == CASE mode = "yes" -> 2 [] mode = "no" -> 0 [] mode = "random" -> draw[s]
  IN IF h.sym[s].def \/ s \in IntSyms \/ mode = "default" THEN h
     ELSE [h EXCEPT !.sym[s].utri = to, !.sym[s].def = ~(s \in t.choice /\ mode = "random")]

\* The values of the choice c.
ValuesOf(t, c) == {s \in Syms : t.choiceval[s] = c}

\* A mutant: the choice is not calculated anew.
randomize_choice_valuesValid(t, h, c, value) ==
  IF h.sym[c].tri # 2 THEN h
  ELSE Changed([h EXCEPT !.sym[c].uval = value, !.sym[c].def = TRUE],
               ValuesOf(t, c), LAMBDA s, x : [x EXCEPT !.utri = IF s = value THEN 2 ELSE 0])

\* A choice that is y gets a value, and all its other values n.
randomize_choice_values(t, h, c, value) ==
  IF h.sym[c].tri # 2 THEN h
  ELSE Changed([h EXCEPT !.sym[c].uval = value, !.sym[c].def = TRUE, !.sym[c].valid = FALSE],
               ValuesOf(t, c), LAMBDA s, x : [x EXCEPT !.utri = IF s = value THEN 2 ELSE 0])

set_all_choice_values(t, h, c) ==
  Changed([h EXCEPT !.sym[c].def = TRUE, !.sym[c].valid = FALSE],
          {s \in ValuesOf(t, c) : ~h.sym[s].def}, LAMBDA s, x : [x EXCEPT !.utri = 0])

GiveChoice(t, x, mode, c, value) ==
  IF mode = "random" THEN randomize_choice_values(t, x, c, value) ELSE set_all_choice_values(t, x, c)

conf_set_all_new_symbols(t, h, mode, draw, pick) ==
  FoldLeft(LAMBDA g, c : IF g.sym[c].def THEN g
                         ELSE GiveChoice(t, sym_calc_value(t, g, c), mode, c,
                                         IF mode = "random" THEN pick[c] ELSE ""),
           sym_clear_all_valid(FoldLeft(LAMBDA g, s : NewValue(t, g, mode, draw, s), h, HashOrder)),
           SelectSeq(HashOrder, LAMBDA s : s \in t.choice))
=============================================================================
