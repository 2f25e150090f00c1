-------------------------------- MODULE KConfig ------------------------------
(* The configuration system of Buildroot at work: the programs that read and   *)
(* write .config, one after the other, in any order: conf, mconf, nconf, gconf *)
(* and qconf.                                                                  *)
EXTENDS KConf, KFront

vars == <<session, conf_vars, at>>

Init == SessionInit /\ ConfInit /\ at = Root

Next == \/ Start /\ UNCHANGED at
        \/ check_conf /\ UNCHANGED at
        \/ conf /\ UNCHANGED at
        \/ NextPass /\ UNCHANGED at
        \/ Finish /\ UNCHANGED at
        \/ Aborted /\ UNCHANGED at
        \/ Launch /\ UNCHANGED conf_vars
        \/ PressKey /\ UNCHANGED conf_vars
        \/ LeaveScreen /\ UNCHANGED conf_vars
        \/ HandleEvent /\ UNCHANGED conf_vars

\* The bounds are reached.
Stop == prog = "" /\ runs = MaxRuns /\ UNCHANGED vars

(* conf goes on as long as it can, which is until it ends: that it can is what *)
(* the check for deadlocks shows.  This is weak fairness of its actions, stated *)
(* so that TLC need not evaluate ENABLED.                                      *)
Goes == []<>(prog # "conf") \/ []<><<Next>>_vars

Spec == Init /\ [][Next \/ Stop]_vars /\ Goes

-----------------------------------------------------------------------------
(* Properties.                                                                *)

(* A value that counts as calculated is the one that calculating everything    *)
(* anew would give.  An exception is what the code gets wrong: when conf_read  *)
(* drops an integer that is out of range (confdata.c:451-454), what has been   *)
(* calculated from it stays valid until the next change of a symbol.           *)
CacheCoherent ==
  ~heap.stale =>
    \A now \in {Settled(heap)}, s \in Syms :
      heap.sym[s].valid => heap.sym[s].tri = now.sym[s].tri /\ heap.sym[s].val = now.sym[s].val

(* A choice that is y has exactly one value that is y, and it is visible; of a *)
(* choice that is n every visible value is n.                                  *)
OneChosen ==
  \A g \in {Settled(heap)}, c \in tree.choice :
    {s \in ToSet(ChoiceValues(tree, c)) : g.sym[s].vis = 2 /\ g.sym[s].tri = 2}
      = IF g.sym[c].tri = 2 THEN {g.sym[c].val} ELSE {}

(* What the program offers can be had: a value that is in range becomes the    *)
(* value of the symbol when it is set.                                         *)
OfferedTakesEffect ==
  \A g \in {Settled(heap)}, s \in Syms :
    IF s \in IntSyms
    THEN \A str \in DOMAIN Numeral :
           g.sym[s].vis # 0 /\ sym_string_within_range(tree, g, s, str).ok
             => Settled(sym_set_string_value(tree, g, s, str).h).sym[s].val = str
    ELSE \A v \in {0, 2} :
           sym_tristate_within_range(tree, g, s, v)
             => Settled(sym_set_tristate_value(tree, g, s, v).h).sym[s].tri = v

(* What is written is what is read again: the next program finds the values    *)
(* that the program that wrote had.                                            *)
WrittenIsRead ==
  [][\A n \in {".config", "other"} :
       disk'[n] # disk[n] => ValuesIn(disk'[n]) = Values(heap)]_vars

(* make savedefconfig and then make defconfig give the values of .config.      *)
DefconfigRestores ==
  [][disk'["defconfig"] # disk["defconfig"]
       => LET h == conf_read(tree, EmptyHeap(tree), disk'["defconfig"], FALSE)
          IN Values(conf_set_all_new_symbols(tree, h, "default", <<>>, <<>>)) = Values(heap)]_vars

EndsUnasked == prog \notin {"", "conf"} /\ prog' = "" /\ ~heap.changed /\ fresh

(* A front end that ends without a question loses nothing, unless its change   *)
(* count has been reset by something else than a save of what it works on: by  *)
(* a file that could not be loaded, by gconf or qconf loading another file, or *)
(* by gconf saving under another name.                                         *)
SilentEndLosesNothing ==
  [][EndsUnasked => ValuesIn(disk[Own]) = Values(heap)]_vars

(* make oldconfig and make silentoldconfig leave no symbol that the user was   *)
(* not asked for.                                                              *)
NothingLeftToAsk ==
  [][prog = "conf" /\ prog' = "" /\ mode \in {"oldconfig", "silentoldconfig"} /\ disk' # disk
       => \A g \in {Settled(heap)}, m \in DOMAIN tree.menu :
            LET s == tree.menu[m].sym
            IN s # "" /\ menu_is_visible(tree, g, m).ok /\ sym_is_changable(g, s) => g.sym[s].def]_vars

(* conf comes to an end.                                                       *)
ConfEnds == prog = "conf" ~> prog = ""
=============================================================================
