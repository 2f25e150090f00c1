-------------------------------- MODULE KSave --------------------------------
(***************************************************************************)
(* How the programs of Kconfig replace files (src/support/kconfig/          *)
(* confdata.c): conf_write writes .config line by line to a temporary file  *)
(* and renames it; conf_write_autoconf, which silentoldconfig ends with,    *)
(* brings the files that make reads up to date.  A program may be killed    *)
(* after any of these steps, and any of them may fail; that a line does not *)
(* get into .config, because the disk is full, nobody notices.              *)
(***************************************************************************)
EXTENDS Naturals

CONSTANTS
  Syms,
  Values, Default,   \* what a symbol may be, and what it is without a line in a file
  No,                \* the value that auto.conf does not list
  Missing,           \* a file has no line for a symbol
  Lost,              \* it has none, or a part of one, because writing the line has failed
  NoFile,
  Retries,           \* whether the user saves again after a save that failed, with no
                     \* change in between
  MaxEvents          \* bound on programs started, changes and failures

Lines == [Syms -> Values \union {Missing, Lost}]
Whole == [Syms -> Values \union {Missing}]

ASSUME KSaveAssumption ==
  /\ Default \in Values /\ No \in Values
  /\ Missing \notin Values /\ Lost \notin Values \union {Missing} /\ NoFile \notin Lines
  /\ Retries \in BOOLEAN /\ MaxEvents \in Nat

VARIABLES
  config, old,       \* .config and .config.old
  tmp,               \* the temporary file of the program that runs
  auto,              \* auto.conf: only what is not No
  header, tristate,  \* autoconf.h and tristate.config, which are renamed before it
  touched,           \* the symbols whose files are newer than what the last build has seen
  newer,             \* auto.conf is newer than .config
  pc,                \* what the program does
  sync,              \* it was started for silentoldconfig
  mem,               \* the values of its symbols
  changed,           \* conf_get_changed()
  write,             \* the symbols with SYMBOL_WRITE
  todo,              \* the symbols still to be written or compared
  seen,              \* the values that the last build has seen
  events

saving == <<config, old, tmp>>
syncing == <<auto, header, tristate, touched>>
program == <<pc, sync, mem, changed, write, todo>>
vars == <<saving, syncing, newer, program, seen, events>>

Empty == [s \in Syms |-> Missing]
\* A mutant: a symbol without a line does not get its default.
ReadLines(file) == [s \in Syms |-> IF file = NoFile THEN Default ELSE file[s]]

Read(file) ==
  [s \in Syms |-> IF file = NoFile \/ file[s] \in {Missing, Lost} THEN Default ELSE file[s]]

Listed(m) == [s \in Syms |-> IF m[s] = No THEN Missing ELSE m[s]]

Init ==
  /\ config \in {NoFile} \union Whole /\ old = NoFile /\ tmp = NoFile
  /\ auto = NoFile /\ header = NoFile /\ tristate = NoFile
  /\ touched = {} /\ newer = FALSE
  /\ pc = "off" /\ sync = FALSE /\ mem = Read(config) /\ changed = FALSE /\ write = {} /\ todo = {}
  /\ seen = [s \in Syms |-> No] /\ events = 0

Event == events < MaxEvents /\ events' = events + 1

-----------------------------------------------------------------------------
(* Programs start, change values and end.                                     *)

\* conf_read: the change count tells whether the file says something else.
Load(p) ==
  /\ pc = "off" /\ Event
  /\ mem' = Read(config) /\ write' = Syms /\ todo' = {}
  /\ IF config = NoFile \/ config # mem' THEN changed' = TRUE ELSE changed' \in BOOLEAN
  /\ pc' = p

\* An interactive program.
Start == Load("edit") /\ sync' = FALSE /\ UNCHANGED <<saving, syncing, newer, seen>>

\* make runs silentoldconfig because auto.conf is missing or older than .config.
StartSync ==
  /\ config # NoFile /\ ~newer
  /\ Load("synced") /\ sync' = TRUE
  /\ UNCHANGED <<saving, syncing, newer, seen>>

\* sym_set_tristate_value and the like, which end in sym_clear_all_valid.
Edit ==
  /\ pc = "edit" /\ Event
  /\ \E s \in Syms : \E v \in Values \ {mem[s]} : mem' = [mem EXCEPT ![s] = v]
  /\ changed' = TRUE /\ write' = Syms
  /\ UNCHANGED <<saving, syncing, newer, pc, sync, todo, seen>>

Off == pc' = "off" /\ sync' = FALSE /\ todo' = {} /\ tmp' = NoFile

\* The program ends or is killed, or silentoldconfig exits because a step has failed.  What it
\* has not saved is lost, and its temporary files are not used again.
Killed ==
  /\ pc # "off" /\ Off
  /\ UNCHANGED <<config, old, syncing, newer, mem, changed, write, seen, events>>

-----------------------------------------------------------------------------
(* conf_write.                                                                *)

\* Unless something has changed, all symbols are calculated anew, which sets SYMBOL_WRITE again.
Recalculated(c, w) == IF c THEN w ELSE Syms

\* silentoldconfig only writes what has changed.  What has all symbols calculated anew,
\* sym_clear_all_valid, also adds to the change count.
BeginWrite ==
  /\ pc = "edit" \/ (pc = "synced" /\ changed)
  /\ Retries \/ Recalculated(changed, write) = Syms
  /\ tmp' = Empty /\ write' = Recalculated(changed, write) /\ todo' = write'
  /\ changed' = TRUE
  /\ pc' = "write"
  /\ UNCHANGED <<config, old, syncing, newer, sync, mem, seen, events>>

\* One line; the flag is cleared so that no symbol is written twice.
WriteLine ==
  /\ pc = "write" /\ \E s \in todo : /\ tmp' = [tmp EXCEPT ![s] = mem[s]]
                                     /\ todo' = todo \ {s} /\ write' = write \ {s}
  /\ UNCHANGED <<config, old, syncing, newer, pc, sync, mem, changed, seen, events>>

\* The line does not get into the file: the results of fprintf and fclose are not looked at.
LoseLine ==
  /\ pc = "write" /\ Event
  /\ \E s \in todo : /\ tmp' = [tmp EXCEPT ![s] = Lost]
                     /\ todo' = todo \ {s} /\ write' = write \ {s}
  /\ UNCHANGED <<config, old, syncing, newer, pc, sync, mem, changed, seen>>

\* A mutant: the old file is removed.
KeepOldRemoved ==
  /\ pc = "write" /\ todo = {}
  /\ config' = NoFile /\ pc' = "rename"
  /\ UNCHANGED <<old, tmp, syncing, newer, sync, mem, changed, write, todo, seen, events>>

\* The old file is kept under another name; nobody looks whether that works.
KeepOld ==
  /\ pc = "write" /\ todo = {}
  /\ \/ UNCHANGED <<config, old>>
     \/ config # NoFile /\ old' = config /\ config' = NoFile
  /\ pc' = "rename"
  /\ UNCHANGED <<tmp, syncing, newer, sync, mem, changed, write, todo, seen, events>>

Rename ==
  /\ pc = "rename"
  /\ config' = tmp /\ tmp' = NoFile /\ newer' = FALSE
  /\ changed' = FALSE
  /\ pc' = IF sync THEN "synced" ELSE "edit"
  /\ UNCHANGED <<old, syncing, sync, mem, write, todo, seen, events>>

\* A mutant: the change count is cleared before the file is renamed.
RenameFailsCleared ==
  /\ pc = "rename" /\ ~sync /\ Event
  /\ pc' = "edit" /\ tmp' = NoFile /\ changed' = FALSE
  /\ UNCHANGED <<config, old, syncing, newer, sync, mem, write, todo, seen>>

\* The new file cannot be renamed: a front end says so and goes on.
RenameFails ==
  /\ pc = "rename" /\ ~sync /\ Event
  /\ pc' = "edit" /\ tmp' = NoFile
  /\ UNCHANGED <<config, old, syncing, newer, sync, mem, changed, write, todo, seen>>

-----------------------------------------------------------------------------
(* conf_split_config and conf_write_autoconf.                                 *)

\* The value of a symbol in auto.conf.
InAuto(s) == IF auto = NoFile \/ auto[s] = Missing THEN No ELSE auto[s]

\* All symbols are calculated anew, as in BeginWrite.
BeginSplit ==
  /\ pc = "synced" /\ ~changed
  /\ write' = Syms /\ todo' = Syms /\ changed' = TRUE /\ pc' = "split"
  /\ UNCHANGED <<saving, syncing, newer, sync, mem, seen, events>>

\* A mutant: a symbol that auto.conf does not list is new, not changed.
DiffersListed(s) == auto # NoFile /\ auto[s] # Missing /\ auto[s] # mem[s]

Differs(s) == InAuto(s) # mem[s]

\* The file of a symbol is touched when its value is not the one in auto.conf.
Split ==
  /\ pc = "split"
  /\ \E s \in todo : /\ todo' = todo \ {s}
                      /\ touched' = IF Differs(s) THEN touched \union {s} ELSE touched
  /\ UNCHANGED <<saving, auto, header, tristate, newer, pc, sync, mem, changed, write, seen, events>>

\* A mutant: nobody looks whether the rename works.
RenameTristateUnchecked ==
  /\ pc = "tristate" /\ pc' = "auto"
  /\ tristate' \in {tristate, mem}
  /\ UNCHANGED <<saving, auto, header, touched, newer, sync, mem, changed, write, todo, seen, events>>

RenameHeader ==
  /\ pc = "split" /\ todo = {}
  /\ header' = mem /\ pc' = "tristate"
  /\ UNCHANGED <<saving, auto, tristate, touched, newer, sync, mem, changed, write, todo, seen, events>>

RenameTristate ==
  /\ pc = "tristate"
  /\ tristate' = mem /\ pc' = "auto"
  /\ UNCHANGED <<saving, auto, header, touched, newer, sync, mem, changed, write, todo, seen, events>>

\* The last step, after which auto.conf is newer than .config.
RenameAuto ==
  /\ pc = "auto" /\ Off
  /\ auto' = Listed(mem) /\ newer' = TRUE
  /\ UNCHANGED <<config, old, header, tristate, touched, mem, changed, write, seen, events>>

\* A build that goes by these files sees the symbols whose files have been touched.
Build ==
  /\ pc = "off" /\ newer /\ touched # {}
  /\ seen' = [s \in Syms |-> IF s \in touched THEN InAuto(s) ELSE seen[s]]
  /\ touched' = {}
  /\ UNCHANGED <<saving, auto, header, tristate, newer, program, events>>

-----------------------------------------------------------------------------

Next == \/ Start \/ StartSync \/ Edit \/ Killed
        \/ BeginWrite \/ WriteLine \/ LoseLine \/ KeepOld \/ Rename \/ RenameFails
        \/ BeginSplit \/ Split \/ RenameHeader \/ RenameTristate \/ RenameAuto \/ Build

Spec == Init /\ [][Next]_vars

-----------------------------------------------------------------------------
(* Properties.                                                                *)

Files == {NoFile} \union Lines

TypeOK ==
  /\ config \in Files /\ old \in Files /\ tmp \in Files
  /\ (pc = "write" => tmp # NoFile)
  /\ {auto, header, tristate} \subseteq {NoFile} \union Whole
  /\ touched \subseteq Syms /\ write \subseteq Syms /\ todo \subseteq Syms
  /\ newer \in BOOLEAN /\ sync \in BOOLEAN /\ changed \in BOOLEAN
  /\ pc \in {"off", "edit", "write", "rename", "synced", "split", "tristate", "auto"}
  /\ mem \in [Syms -> Values] /\ seen \in [Syms -> Values]
  /\ events \in 0..MaxEvents

(* A save replaces the configuration at once: whatever fails, and whenever the *)
(* program is killed, .config, or .config.old while there is no .config, holds *)
(* the whole configuration from before the save or the new one, from which     *)
(* nothing is missing but the lines that could not be written.                 *)
Saved == IF config = NoFile THEN old ELSE config

Abstract == INSTANCE AtomicSave WITH
              saved <- Saved,
              memory <- mem,
              Names <- Syms,
              Contents <- Files

SavesAtomically == Abstract!Spec

(* When nothing is marked as changed, so that a front end ends without asking, *)
(* .config is there and holds what is in memory; only lines that could not be  *)
(* written may be missing from it, which nobody notices.                       *)
UnsavedIsMarked ==
  pc = "edit" /\ ~changed => config # NoFile /\ \A s \in Syms : config[s] \in {mem[s], Lost}

(* auto.conf is renamed last: when it is newer than .config, all three files   *)
(* tell what .config says (the comment at confdata.c:1038-1041), if .config    *)
(* has all its lines.  That lines of the three files may be lost is left out.  *)
AutoLast ==
  newer /\ config # NoFile /\ (\A s \in Syms : config[s] # Lost) =>
    auto = Listed(Read(config)) /\ header = Read(config) /\ tristate = Read(config)

(* A build misses no change of a symbol, even if silentoldconfig was killed    *)
(* and run again in between.                                                   *)
NoChangeMissed == newer => \A s \in Syms \ touched : seen[s] = InAuto(s)

(* Saving the current configuration to a file lets one retrieve it later (the  *)
(* help text of the save dialog, mconf.c:220-228), if no line of it is lost.   *)
SavedIsCurrent ==
  [][Rename /\ (\A s \in Syms : tmp[s] # Lost) => Read(config') = mem]_vars
=============================================================================
