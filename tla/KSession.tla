------------------------------- MODULE KSession ------------------------------
(* What the programs that configure Buildroot share: the files, the symbols of *)
(* the program that is running, and how its run begins and ends.  One program  *)
(* runs at a time; each parses the Config.in files anew.                       *)
EXTENDS KConfdata, FiniteSets

CONSTANTS Setups,      \* finalized menu trees, with what the files hold at first and the
                       \* programs and modes to be run on them: [tree, disk, use]
          MaxRuns,     \* bound on the programs started
          MaxActs      \* bound on what the users of the front ends do

VARIABLES
  tree,       \* the menu tree of the Config.in files
  use,        \* the programs and modes that are run (a bound)
  disk,       \* the files: .config, defconfig, the alternate file and auto.conf
  heap,       \* the symbols of the running program
  prog,       \* the program that runs, or ""
  filename,   \* the file a curses front end says it works on
  runs,       \* programs started so far
  acts,       \* what the users have done so far: edits, files loaded and saved
  fresh       \* history: since the last change or save nothing else has reset the change
              \* count: no failed load, and no load of another file and no save under
              \* another name by gconf or qconf

session == <<tree, use, disk, heap, prog, filename, runs, acts, fresh>>

Names == {".config", "defconfig", "other", "auto.conf"}
Programs == {"conf", "mconf", "nconf", "gconf", "qconf"}

SessionInit ==
  /\ \E s \in Setups : tree = s.tree /\ disk = s.disk /\ use = s.use
  /\ heap = EmptyHeap(tree) /\ prog = "" /\ filename = "" /\ runs = 0 /\ acts = 0 /\ fresh = TRUE

\* A program starts: h are its symbols after it has read its configuration.
Begin(p, h) ==
  /\ prog = "" /\ runs < MaxRuns
  /\ prog' = p /\ heap' = h /\ runs' = runs + 1 /\ filename' = ".config" /\ fresh' = TRUE
  /\ UNCHANGED <<tree, use, disk, acts>>

\* The program ends; what it has not written is gone.
End(files) ==
  /\ prog' = "" /\ heap' = EmptyHeap(tree) /\ disk' = files /\ filename' = "" /\ fresh' = TRUE
  /\ UNCHANGED <<tree, use, runs, acts>>

\* The program goes on with the symbols h.
Continue(h) == heap' = h /\ UNCHANGED <<tree, use, disk, prog, runs>>

ReadConfig(h) == conf_read(tree, h, disk[".config"], TRUE)

\* What the symbols are when all of them are calculated anew.
Settled(h) == FoldLeft(LAMBDA g, s : sym_calc_value(tree, g, s), sym_clear_all_valid(h), HashOrder)
Strings(h) == [s \in Syms |-> sym_get_string_value(h, s)]
Values(h) == Strings(Settled(h))

\* The values that a program finds in a file.
ValuesIn(file) == Values(conf_read(tree, EmptyHeap(tree), file, FALSE))

\* The entries of a choice that can be chosen, with the heap that looking for them leaves.
AlsoOffered(r, v, c) ==
  [h |-> v.h, values |-> IF v.ok /\ tree.menu[c].sym # "" THEN Append(r.values, c) ELSE r.values]
VisibleValues(h, m) ==
  FoldLeft(LAMBDA r, c : AlsoOffered(r, menu_is_visible(tree, r.h, c), c),
           [h |-> h, values |-> <<>>], Children(tree, m))
=============================================================================
