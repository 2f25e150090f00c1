----------------------------- MODULE KSave_proofs ----------------------------
(***************************************************************************)
(* Theorems about KSave, for every set of symbols and every number of       *)
(* programs, changes, kills and failures.                                   *)
(***************************************************************************)
EXTENDS KSave, TLAPS

USE KSaveAssumption

-----------------------------------------------------------------------------
(* Files.                                                                     *)

\* A file that lists the values of all symbols is read as these values.
LEMMA ReadAll ==
  ASSUME NEW m \in [Syms -> Values]
  PROVE  Read(m) = m /\ m \in Lines /\ m \in Whole /\ m # NoFile
<1>1. m \in Lines /\ m \in Whole /\ m # NoFile
  BY DEF Lines, Whole
<1>2. \A s \in Syms : m[s] \notin {Missing, Lost}
  OBVIOUS
<1> QED BY <1>1, <1>2 DEF Read

LEMMA ReadType ==
  ASSUME NEW file \in Files
  PROVE  Read(file) \in [Syms -> Values]
  BY DEF Read, Files, Lines

LEMMA ListedType ==
  ASSUME NEW m \in [Syms -> Values]
  PROVE  Listed(m) \in Whole /\ Listed(m) # NoFile
  BY DEF Listed, Whole, Lines

LEMMA InAutoType ==
  ASSUME auto \in {NoFile} \union Whole, NEW s \in Syms
  PROVE  InAuto(s) \in Values
  BY DEF InAuto, Whole

-----------------------------------------------------------------------------
(* Types.                                                                     *)

LEMMA LoadType ==
  ASSUME TypeOK, NEW p, Load(p)
  PROVE  /\ mem' \in [Syms -> Values] /\ write' = Syms /\ todo' = {} /\ changed' \in BOOLEAN
         /\ pc' = p /\ events' \in 0..MaxEvents
         /\ mem' = Read(config)
         /\ ~changed' => config # NoFile /\ config = mem'
<1>1. mem' = Read(config) /\ write' = Syms /\ todo' = {} /\ pc' = p /\ events' \in 0..MaxEvents
  BY DEF Load, Event, TypeOK
<1>2. mem' \in [Syms -> Values]
  BY <1>1, ReadType DEF TypeOK
<1>3. changed' \in BOOLEAN /\ (~changed' => config # NoFile /\ config = mem')
  BY DEF Load
<1> QED BY <1>1, <1>2, <1>3

LEMMA TypeInductive == TypeOK /\ [Next]_vars => TypeOK'
<1> SUFFICES ASSUME TypeOK, [Next]_vars PROVE TypeOK'
  OBVIOUS
<1>1. CASE Start
  <2>1. Load("edit") /\ sync' = FALSE
    BY <1>1 DEF Start
  <2>2. UNCHANGED <<config, old, tmp, auto, header, tristate, touched, newer, seen>>
    BY <1>1 DEF Start, saving, syncing
  <2>3. /\ mem' \in [Syms -> Values] /\ write' = Syms /\ todo' = {} /\ changed' \in BOOLEAN
        /\ pc' = "edit" /\ events' \in 0..MaxEvents
    BY <2>1, LoadType
  <2>4. sync' \in BOOLEAN
    BY <2>1
  <2> QED BY <2>2, <2>3, <2>4 DEF TypeOK
<1>2. CASE StartSync
  BY <1>2, LoadType DEF StartSync, saving, syncing, TypeOK
<1>3. CASE Edit
  BY <1>3 DEF Edit, Event, saving, syncing, TypeOK
<1>4. CASE Killed
  BY <1>4 DEF Killed, Off, syncing, TypeOK, Files
<1>5. CASE BeginWrite
  <2>1. tmp' \in Files /\ tmp' # NoFile
    BY <1>5 DEF BeginWrite, Empty, Files, Lines
  <2>2. write' \subseteq Syms /\ todo' \subseteq Syms /\ pc' = "write"
    BY <1>5 DEF BeginWrite, Recalculated, TypeOK
  <2>3. UNCHANGED <<config, old, auto, header, tristate, touched, newer, sync, mem, seen, events>>
        /\ changed' = TRUE
    BY <1>5 DEF BeginWrite, syncing
  <2> QED BY <2>1, <2>2, <2>3 DEF TypeOK
<1>6. CASE WriteLine
  <2>1. PICK s \in todo : tmp' = [tmp EXCEPT ![s] = mem[s]] /\ todo' = todo \ {s} /\ write' = write \ {s}
    BY <1>6 DEF WriteLine
  <2>2. UNCHANGED <<config, old, auto, header, tristate, touched, newer, pc, sync, mem, changed, seen, events>>
    BY <1>6 DEF WriteLine, syncing
  <2>3. tmp \in Lines /\ mem[s] \in Values
    BY <1>6, <2>1 DEF WriteLine, TypeOK, Files
  <2>4. tmp' \in Lines
    BY <2>1, <2>3 DEF Lines
  <2> QED BY <2>1, <2>2, <2>4 DEF TypeOK, Files
<1>17. CASE LoseLine
  <2>1. PICK s \in todo : tmp' = [tmp EXCEPT ![s] = Lost] /\ todo' = todo \ {s} /\ write' = write \ {s}
    BY <1>17 DEF LoseLine
  <2>2. UNCHANGED <<config, old, auto, header, tristate, touched, newer, pc, sync, mem, changed, seen>>
        /\ events' \in 0..MaxEvents
    BY <1>17 DEF LoseLine, Event, syncing, TypeOK
  <2>3. tmp \in Lines
    BY <1>17 DEF LoseLine, TypeOK, Files
  <2>4. tmp' \in Lines
    BY <2>1, <2>3 DEF Lines
  <2> QED BY <2>1, <2>2, <2>4 DEF TypeOK, Files
<1>7. CASE KeepOld
  BY <1>7 DEF KeepOld, syncing, TypeOK, Files
<1>8. CASE Rename
  BY <1>8 DEF Rename, syncing, TypeOK, Files
<1>9. CASE RenameFails
  BY <1>9 DEF RenameFails, Event, syncing, TypeOK, Files
<1>10. CASE BeginSplit
  BY <1>10 DEF BeginSplit, saving, syncing, TypeOK
<1>11. CASE Split
  <2>1. PICK s \in todo : todo' = todo \ {s} /\ touched' \in {touched, touched \union {s}}
    BY <1>11 DEF Split
  <2>2. UNCHANGED <<config, old, tmp, auto, header, tristate, newer, pc, sync, mem, changed, write, seen, events>>
    BY <1>11 DEF Split, saving
  <2> QED BY <2>1, <2>2 DEF TypeOK
<1>12. CASE RenameHeader
  BY <1>12, ReadAll DEF RenameHeader, saving, TypeOK, Files
<1>13. CASE RenameTristate
  BY <1>13, ReadAll DEF RenameTristate, saving, TypeOK, Files
<1>14. CASE RenameAuto
  BY <1>14, ListedType DEF RenameAuto, Off, TypeOK, Files
<1>15. CASE Build
  <2>1. seen' \in [Syms -> Values]
    BY <1>15, InAutoType DEF Build, TypeOK
  <2>2. UNCHANGED <<config, old, tmp, auto, header, tristate, newer, pc, sync, mem, changed, write, todo, events>>
        /\ touched' = {}
    BY <1>15 DEF Build, saving, program
  <2> QED BY <2>1, <2>2 DEF TypeOK
<1>16. CASE UNCHANGED vars
  BY <1>16 DEF vars, saving, syncing, program, TypeOK
<1> QED BY <1>1, <1>2, <1>3, <1>4, <1>5, <1>6, <1>7, <1>8, <1>9, <1>10, <1>11, <1>12, <1>13,
           <1>14, <1>15, <1>16, <1>17 DEF Next

LEMMA InitType ==
  ASSUME Init
  PROVE  TypeOK
<1>1. config \in Files
  BY DEF Init, Files, Lines, Whole
<1>2. mem \in [Syms -> Values]
  BY <1>1, ReadType DEF Init
<1>3. seen \in [Syms -> Values]
  BY DEF Init
<1>4. /\ old = NoFile /\ tmp = NoFile /\ auto = NoFile /\ header = NoFile /\ tristate = NoFile
      /\ touched = {} /\ newer = FALSE /\ pc = "off" /\ sync = FALSE /\ changed = FALSE
      /\ write = {} /\ todo = {} /\ events = 0
  BY DEF Init
<1>5. changed \in BOOLEAN /\ newer \in BOOLEAN /\ sync \in BOOLEAN
  BY <1>4
<1>6. /\ old \in Files /\ tmp \in Files /\ {auto, header, tristate} \subseteq {NoFile} \union Whole
      /\ touched \subseteq Syms /\ write \subseteq Syms /\ todo \subseteq Syms
      /\ events \in 0..MaxEvents
  BY <1>4 DEF Files
<1> QED BY <1>1, <1>2, <1>3, <1>4, <1>5, <1>6 DEF TypeOK

\* The variables keep their types, whatever fails and whenever a program is killed.
THEOREM TypeCorrect == Spec => []TypeOK
<1>1. Init => TypeOK
  BY InitType
<1> QED BY <1>1, TypeInductive, PTL DEF Spec

-----------------------------------------------------------------------------
(* What holds while a program saves.  ~Retries is what these facts rest on:   *)
(* each save begins with all symbols marked to be written.                    *)

\* A file with the configuration m, of which some lines may have been lost.
Holds(file, m) == file \in Lines /\ \A s \in Syms : file[s] \in {m[s], Lost}

Writing ==
  /\ pc = "write" => \A s \in Syms \ todo : tmp[s] \in {mem[s], Lost}
  /\ pc = "rename" => Holds(tmp, mem)

Marked ==
  /\ pc \in {"write", "rename"} => changed
  /\ pc \in {"edit", "synced"} /\ ~changed => Holds(config, mem)
  /\ pc \in {"split", "tristate", "auto"} => Holds(config, mem)

\* A program that synchronises has the configuration that .config holds.
Syncing ==
  /\ pc \in {"synced", "split", "tristate", "auto"} => sync
  /\ sync => pc # "off" /\ ~newer
  /\ sync /\ pc # "rename" => config # NoFile
  /\ pc \in {"tristate", "auto"} => todo = {} /\ header = mem
  /\ pc = "auto" => tristate = mem

\* The symbols whose files have not been touched are as the last build has seen them.
Tracked ==
  /\ \A s \in Syms \ touched : seen[s] = InAuto(s)
  /\ pc \in {"split", "tristate", "auto"} => \A s \in Syms \ (todo \union touched) : InAuto(s) = mem[s]

\* A file is as good as the configuration it holds, if no line has been lost.
LEMMA HeldIsRead ==
  ASSUME NEW m \in [Syms -> Values], NEW file, Holds(file, m)
  PROVE  /\ file # NoFile
         /\ (\A s \in Syms : file[s] # Lost) => Read(file) = m
<1>1. file # NoFile
  BY DEF Holds
<1>2. ASSUME \A s \in Syms : file[s] # Lost PROVE Read(file) = m
  <2>1. \A s \in Syms : file[s] = m[s]
    BY <1>2 DEF Holds
  <2>2. \A s \in Syms : file[s] \notin {Missing, Lost}
    BY <2>1
  <2>3. Read(file) = [s \in Syms |-> m[s]]
    BY <1>1, <2>1, <2>2 DEF Read
  <2> QED BY <2>3
<1> QED BY <1>1, <1>2

LEMMA WritingInductive ==
  ASSUME ~Retries, TypeOK, Writing, [Next]_vars
  PROVE  Writing'
<1>1. CASE BeginWrite
  <2>1. pc' = "write" /\ todo' = Syms
    BY <1>1 DEF BeginWrite
  <2> QED BY <2>1 DEF Writing
<1>2. CASE WriteLine \/ LoseLine
  <2>1. PICK s \in todo : (tmp' = [tmp EXCEPT ![s] = mem[s]] \/ tmp' = [tmp EXCEPT ![s] = Lost])
                         /\ todo' = todo \ {s}
    BY <1>2 DEF WriteLine, LoseLine
  <2>2. pc = "write" /\ pc' = pc /\ mem' = mem
    BY <1>2 DEF WriteLine, LoseLine
  <2>3. tmp \in Lines
    BY <2>2 DEF TypeOK, Files
  <2>4. ASSUME NEW x \in Syms, x \notin todo' PROVE tmp'[x] \in {mem'[x], Lost}
    BY <2>1, <2>2, <2>3, <2>4 DEF Lines, Writing, TypeOK
  <2> QED BY <2>2, <2>4 DEF Writing
<1>3. CASE KeepOld
  <2>1. pc = "write" /\ todo = {} /\ pc' = "rename" /\ tmp' = tmp /\ mem' = mem
    BY <1>3 DEF KeepOld
  <2>2. tmp \in Lines /\ \A s \in Syms : tmp[s] \in {mem[s], Lost}
    BY <2>1 DEF TypeOK, Files, Writing
  <2> QED BY <2>1, <2>2 DEF Writing, Holds
<1>4. CASE UNCHANGED vars
  BY <1>4 DEF vars, saving, program, Writing, Holds
<1>5. CASE ~(BeginWrite \/ WriteLine \/ LoseLine \/ KeepOld \/ UNCHANGED vars)
  <2>1. pc' \notin {"write", "rename"}
    BY <1>5 DEF Next, Start, StartSync, Load, Edit, Killed, Off, Rename, RenameFails, BeginSplit,
                Split, RenameHeader, RenameTristate, RenameAuto, Build, program
  <2> QED BY <2>1 DEF Writing
<1> QED BY <1>1, <1>2, <1>3, <1>4, <1>5

LEMMA SyncingInductive ==
  ASSUME TypeOK, Writing, Syncing, [Next]_vars
  PROVE  Syncing'
<1>1. CASE Start
  BY <1>1 DEF Start, Load, Syncing
<1>2. CASE StartSync
  BY <1>2 DEF StartSync, Load, saving, Syncing
<1>3. CASE Edit
  BY <1>3 DEF Edit, saving, syncing, Syncing
<1>4. CASE Killed
  BY <1>4 DEF Killed, Off, Syncing
<1>5. CASE BeginWrite
  BY <1>5 DEF BeginWrite, Syncing
<1>6. CASE WriteLine \/ LoseLine
  BY <1>6 DEF WriteLine, LoseLine, Syncing
<1>7. CASE KeepOld
  BY <1>7 DEF KeepOld, Syncing
<1>8. CASE Rename
  <2>1. /\ pc = "rename" /\ config' = tmp /\ newer' = FALSE /\ changed' = FALSE /\ sync' = sync
        /\ pc' = IF sync THEN "synced" ELSE "edit"
    BY <1>8 DEF Rename
  <2>2. config' # NoFile
    BY <2>1 DEF Writing, Holds
  <2>3. CASE sync
    BY <2>1, <2>2, <2>3 DEF Syncing
  <2>4. CASE ~sync
    BY <2>1, <2>2, <2>4 DEF Syncing
  <2> QED BY <2>3, <2>4
<1>9. CASE RenameFails
  BY <1>9 DEF RenameFails, Syncing
<1>10. CASE BeginSplit
  BY <1>10 DEF BeginSplit, saving, Syncing
<1>11. CASE Split
  BY <1>11 DEF Split, saving, Syncing
<1>12. CASE RenameHeader
  BY <1>12 DEF RenameHeader, saving, Syncing
<1>13. CASE RenameTristate
  BY <1>13 DEF RenameTristate, saving, Syncing
<1>14. CASE RenameAuto
  BY <1>14 DEF RenameAuto, Off, Syncing
<1>15. CASE Build
  BY <1>15 DEF Build, saving, program, Syncing
<1>16. CASE UNCHANGED vars
  BY <1>16 DEF vars, saving, syncing, program, Syncing
<1> QED BY <1>1, <1>2, <1>3, <1>4, <1>5, <1>6, <1>7, <1>8, <1>9, <1>10, <1>11, <1>12, <1>13,
           <1>14, <1>15, <1>16 DEF Next

\* The saved configuration is replaced, if at all, by the one in memory, and only by Rename.
LEMMA SavedSteps ==
  ASSUME TypeOK, Writing, [Next]_vars
  PROVE  /\ ~Rename => Saved' = Saved
         /\ Rename => Saved' = tmp /\ config' = tmp /\ mem' = mem /\ Holds(tmp, mem)
<1>1. CASE KeepOld
  <2>1. pc' = "rename" /\ pc = "write"
    BY <1>1 DEF KeepOld
  <2>2. ~Rename
    BY <2>1 DEF Rename
  <2>3. Saved' = Saved
    BY <1>1 DEF KeepOld, Saved
  <2> QED BY <2>2, <2>3
<1>2. CASE Rename
  <2>1. config' = tmp /\ mem' = mem /\ Holds(tmp, mem)
    BY <1>2 DEF Rename, Writing
  <2>2. config' # NoFile
    BY <2>1 DEF Holds
  <2> QED BY <1>2, <2>1, <2>2 DEF Saved
<1>3. CASE ~KeepOld /\ ~Rename
  <2>1. UNCHANGED <<config, old>>
    BY <1>3 DEF Next, Start, StartSync, Load, Edit, Killed, Off, BeginWrite, WriteLine, LoseLine,
                RenameFails, BeginSplit, Split, RenameHeader, RenameTristate, RenameAuto, Build,
                saving, vars
  <2> QED BY <1>3, <2>1 DEF Saved
<1> QED BY <1>1, <1>2, <1>3

LEMMA MarkedInductive ==
  ASSUME TypeOK, Writing, Marked, [Next]_vars
  PROVE  Marked'
<1>1. CASE Start \/ StartSync
  <2>1. PICK p \in {"edit", "synced"} : Load(p)
    BY <1>1 DEF Start, StartSync
  <2>2. UNCHANGED <<config, old>>
    BY <1>1 DEF Start, StartSync, saving
  <2>3. /\ pc' = p /\ mem' \in [Syms -> Values]
        /\ ~changed' => config' # NoFile /\ config' = mem'
    BY <2>1, <2>2, LoadType
  <2>4. ~changed' => Holds(config', mem')
    BY <2>3, ReadAll DEF Holds
  <2> QED BY <2>3, <2>4 DEF Marked
<1>2. CASE Edit
  BY <1>2 DEF Edit, Marked
<1>3. CASE Rename
  <2>1. Holds(config', mem') /\ pc' \in {"edit", "synced"}
    BY <1>3, SavedSteps DEF Rename
  <2> QED BY <2>1 DEF Marked
<1>4. CASE Killed \/ RenameAuto
  BY <1>4 DEF Killed, RenameAuto, Off, Marked
<1>5. CASE BeginWrite \/ KeepOld \/ RenameFails
  <2>1. pc' \in {"write", "rename", "edit"} /\ changed'
    BY <1>5 DEF BeginWrite, KeepOld, RenameFails, Marked
  <2> QED BY <2>1 DEF Marked
<1>6. CASE BeginSplit
  <2>1. pc' = "split" /\ Holds(config', mem')
    BY <1>6 DEF BeginSplit, saving, Marked
  <2> QED BY <2>1 DEF Marked
<1>7. CASE WriteLine \/ LoseLine
  BY <1>7 DEF WriteLine, LoseLine, Marked
<1>8. CASE Split \/ RenameHeader \/ RenameTristate
  <2>1. /\ pc \in {"split", "tristate"} /\ pc' \in {"split", "tristate", "auto"}
        /\ config' = config /\ mem' = mem
    BY <1>8 DEF Split, RenameHeader, RenameTristate, saving
  <2> QED BY <2>1 DEF Marked
<1>9. CASE Build \/ UNCHANGED vars
  BY <1>9 DEF Build, vars, saving, program, Marked
<1> QED BY <1>1, <1>2, <1>3, <1>4, <1>5, <1>6, <1>7, <1>8, <1>9 DEF Next

\* In the end of silentoldconfig .config holds what is in memory, if it has all its lines.
LEMMA SyncedIsSaved ==
  ASSUME TypeOK, Marked, pc \in {"split", "tristate", "auto"}, \A s \in Syms : config[s] # Lost
  PROVE  Read(config) = mem
  BY HeldIsRead DEF Marked, TypeOK

LEMMA AutoLastInductive ==
  ASSUME TypeOK, Marked, Syncing, AutoLast, [Next]_vars
  PROVE  AutoLast'
<1>1. CASE RenameAuto
  <2>1. pc = "auto" /\ auto' = Listed(mem) /\ UNCHANGED <<config, header, tristate>>
    BY <1>1 DEF RenameAuto
  <2>2. SUFFICES ASSUME \A s \in Syms : config[s] # Lost
                 PROVE  /\ auto' = Listed(Read(config))' /\ header' = Read(config)'
                        /\ tristate' = Read(config)'
    BY <2>1 DEF AutoLast
  <2>3. Read(config) = mem /\ header = mem /\ tristate = mem
    BY <2>1, <2>2, SyncedIsSaved DEF Syncing
  <2>4. Read(config)' = mem
    BY <2>1, <2>3 DEF Read
  <2>5. Listed(Read(config))' = Listed(mem)
    BY <2>4 DEF Listed
  <2> QED BY <2>1, <2>3, <2>4, <2>5
<1>2. CASE Rename
  BY <1>2 DEF Rename, AutoLast
<1>3. CASE KeepOld
  <2>1. UNCHANGED <<newer, auto, header, tristate>> /\ (config' = config \/ config' = NoFile)
    BY <1>3 DEF KeepOld, syncing
  <2>2. config' # NoFile => Read(config)' = Read(config) /\ Listed(Read(config))' = Listed(Read(config))
    BY <2>1 DEF Read, Listed
  <2> QED BY <2>1, <2>2 DEF AutoLast
<1>4. CASE RenameHeader \/ RenameTristate
  <2>1. sync /\ newer' = newer
    BY <1>4 DEF RenameHeader, RenameTristate, Syncing
  <2>2. ~newer
    BY <2>1 DEF Syncing
  <2> QED BY <2>1, <2>2 DEF AutoLast
<1>5. CASE ~(RenameAuto \/ Rename \/ KeepOld \/ RenameHeader \/ RenameTristate)
  <2>1. UNCHANGED <<config, newer, auto, header, tristate>>
    BY <1>5 DEF Next, Start, StartSync, Load, Edit, Killed, Off, BeginWrite, WriteLine, LoseLine,
                RenameFails, BeginSplit, Split, Build, saving, syncing, vars
  <2>2. Read(config)' = Read(config) /\ Listed(Read(config))' = Listed(Read(config))
    BY <2>1 DEF Read, Listed
  <2> QED BY <2>1, <2>2 DEF AutoLast
<1> QED BY <1>1, <1>2, <1>3, <1>4, <1>5

LEMMA TrackedInductive ==
  ASSUME TypeOK, Syncing, Tracked, [Next]_vars
  PROVE  Tracked'
<1>1. CASE BeginSplit
  <2>1. todo' = Syms /\ UNCHANGED <<auto, touched, seen>>
    BY <1>1 DEF BeginSplit, syncing
  <2> QED BY <2>1 DEF Tracked, InAuto
<1>2. CASE Split
  <2>1. PICK s \in todo : /\ todo' = todo \ {s}
                          /\ touched' = IF Differs(s) THEN touched \union {s} ELSE touched
    BY <1>2 DEF Split
  <2>2. pc = "split" /\ UNCHANGED <<auto, mem, pc, seen>>
    BY <1>2 DEF Split
  <2>3. \A x \in Syms \ touched' : seen'[x] = InAuto(x)'
    BY <2>1, <2>2 DEF Tracked, InAuto
  <2>4. ASSUME NEW x \in Syms, x \notin todo' \union touched' PROVE InAuto(x)' = mem'[x]
    <3>1. CASE x = s
      BY <2>1, <2>2, <2>4, <3>1 DEF Differs, InAuto
    <3>2. CASE x # s
      BY <2>1, <2>2, <2>4, <3>2 DEF Tracked, InAuto
    <3> QED BY <3>1, <3>2
  <2> QED BY <2>3, <2>4 DEF Tracked
<1>3. CASE RenameHeader \/ RenameTristate
  <2>1. pc \in {"split", "tristate"} /\ UNCHANGED <<auto, touched, seen, mem, todo>>
    BY <1>3 DEF RenameHeader, RenameTristate
  <2> QED BY <2>1 DEF Tracked, InAuto
<1>4. CASE RenameAuto
  <2>1. pc = "auto" /\ pc' = "off" /\ auto' = Listed(mem) /\ UNCHANGED <<touched, seen, mem>>
    BY <1>4 DEF RenameAuto, Off
  <2>2. todo = {}
    BY <2>1 DEF Syncing
  <2>3. ASSUME NEW s \in Syms, s \notin touched PROVE seen'[s] = InAuto(s)'
    <3>1. seen[s] = mem[s]
      BY <2>1, <2>2, <2>3 DEF Tracked
    <3>2. Listed(mem) # NoFile
      BY ListedType DEF TypeOK
    <3>3. Listed(mem)[s] = IF mem[s] = No THEN Missing ELSE mem[s]
      BY DEF Listed
    <3>4. mem[s] # Missing
      BY DEF TypeOK
    <3> QED BY <2>1, <3>1, <3>2, <3>3, <3>4 DEF InAuto
  <2> QED BY <2>1, <2>3 DEF Tracked
<1>5. CASE Build
  <2>1. pc' = "off" /\ UNCHANGED auto
    BY <1>5 DEF Build, program
  <2>2. \A s \in Syms : seen'[s] = InAuto(s)
    BY <1>5 DEF Build, Tracked
  <2> QED BY <2>1, <2>2 DEF Tracked, InAuto
<1>6. CASE ~(BeginSplit \/ Split \/ RenameHeader \/ RenameTristate \/ RenameAuto \/ Build)
  <2>1. UNCHANGED <<auto, touched, seen>>
    BY <1>6 DEF Next, Start, StartSync, Edit, Killed, BeginWrite, WriteLine, LoseLine, KeepOld,
                Rename, RenameFails, syncing, vars
  <2>2. pc' \in {"split", "tristate", "auto"} => UNCHANGED <<pc, todo, mem>>
    BY <1>6 DEF Next, Start, StartSync, Load, Edit, Killed, Off, BeginWrite, WriteLine, LoseLine,
                KeepOld, Rename, RenameFails, program, vars
  <2> QED BY <2>1, <2>2 DEF Tracked, InAuto
<1> QED BY <1>1, <1>2, <1>3, <1>4, <1>5, <1>6

-----------------------------------------------------------------------------
(* The theorems.                                                              *)

Inv == TypeOK /\ Writing /\ Marked /\ Syncing /\ Tracked /\ AutoLast

LEMMA InvHolds == ~Retries => (Spec => []Inv)
<1> SUFFICES ASSUME ~Retries PROVE Spec => []Inv
  OBVIOUS
<1>1. Init => Inv
  <2> SUFFICES ASSUME Init PROVE Inv
    OBVIOUS
  <2>1. pc = "off" /\ ~newer /\ ~sync
    BY DEF Init
  <2>2. Writing /\ Marked /\ Syncing /\ AutoLast
    BY <2>1 DEF Writing, Marked, Syncing, AutoLast
  <2>3. Tracked
    BY DEF Init, Tracked, InAuto
  <2> QED BY <2>2, <2>3, InitType DEF Inv
<1>2. Inv /\ [Next]_vars => Inv'
  BY TypeInductive, WritingInductive, MarkedInductive, SyncingInductive, TrackedInductive,
     AutoLastInductive DEF Inv
<1> QED BY <1>1, <1>2, PTL DEF Spec

\* When nothing is marked as changed, .config holds what is in memory but for lines that could
\* not be written, as long as no failed save is repeated.
THEOREM UnsavedMarked == ~Retries => (Spec => []UnsavedIsMarked)
<1>1. Inv => UnsavedIsMarked
  BY DEF Inv, Marked, Holds, UnsavedIsMarked
<1> QED BY <1>1, InvHolds, PTL

\* auto.conf is brought up to date last: when it is newer than .config, it and the two files
\* renamed before it tell what .config says, if that has all its lines.
THEOREM AutoComesLast == ~Retries => (Spec => []AutoLast)
<1>1. Inv => AutoLast
  BY DEF Inv
<1> QED BY <1>1, InvHolds, PTL

\* No build misses the change of a symbol.
THEOREM ChangesAreSeen == ~Retries => (Spec => []NoChangeMissed)
<1>1. Inv => NoChangeMissed
  BY DEF Inv, Tracked, NoChangeMissed
<1> QED BY <1>1, InvHolds, PTL

\* The program implements a save that replaces the configuration at once, but for lines that
\* could not be written, as long as no failed save is repeated.
THEOREM SaveIsAtomic == ~Retries => (Spec => SavesAtomically)
<1> SUFFICES ASSUME ~Retries PROVE Spec => SavesAtomically
  OBVIOUS
<1>1. Init => Abstract!Init
  <2> SUFFICES ASSUME Init PROVE Abstract!Init
    OBVIOUS
  <2>1. TypeOK
    BY InitType
  <2> QED BY <2>1 DEF Abstract!Init, Abstract!Memories, TypeOK, Saved
<1>2. Inv /\ Inv' /\ [Next]_vars => [Abstract!Next]_<<Saved, mem>>
  <2> SUFFICES ASSUME Inv, Inv', [Next]_vars PROVE [Abstract!Next]_<<Saved, mem>>
    OBVIOUS
  <2>1. CASE Rename
    <3>1. Saved' = tmp /\ mem' = mem /\ Holds(tmp, mem)
      BY <2>1, SavedSteps DEF Inv
    <3> DEFINE lost == {s \in Syms : tmp[s] = Lost}
    <3>2. tmp = [s \in Syms |-> IF s \in lost THEN Lost ELSE mem[s]]
      BY <3>1 DEF Holds, Lines
    <3> QED BY <3>1, <3>2 DEF Abstract!Next, Abstract!Save
  <2>2. CASE ~Rename
    <3>1. Saved' = Saved
      BY <2>2, SavedSteps DEF Inv
    <3>2. mem' \in [Syms -> Values]
      BY DEF Inv, TypeOK
    <3> QED BY <3>1, <3>2 DEF Abstract!Next, Abstract!Change, Abstract!Memories
  <2> QED BY <2>1, <2>2
<1> QED BY <1>1, <1>2, InvHolds, PTL DEF Spec, SavesAtomically, Abstract!Spec

=============================================================================
