------------------------------ MODULE AtomicSave -----------------------------
(* What saving a configuration promises: there is one saved configuration, and *)
(* a save replaces all of it, at once, by the one that is in memory.  Values   *)
(* that the disk does not take are lost, and nothing else.                     *)
CONSTANTS Names, Values,
          Contents,    \* what the saved configuration may be at first
          Lost         \* in place of a value that could not be written

VARIABLES saved,       \* the saved configuration
          memory       \* the configuration the program works on

Memories == [Names -> Values]

Init == saved \in Contents /\ memory \in Memories

\* The user changes the configuration, or a program reads one.
Change == memory' \in Memories /\ UNCHANGED saved

Save ==
  /\ \E lost \in SUBSET Names :
       saved' = [n \in Names |-> IF n \in lost THEN Lost ELSE memory[n]]
  /\ UNCHANGED memory

Next == Change \/ Save

Spec == Init /\ [][Next]_<<saved, memory>>
=============================================================================
