------------------------------ MODULE MakeDevs ------------------------------
(***************************************************************************)
(* The device table of an image (src/package/makedevs/makedevs.c) and the   *)
(* part of the image's recipe around it (src/fs/common.mk).  Every image    *)
(* runs makedevs on the same target directory under a fakeroot of its own,  *)
(* so that owners and devices are forgotten in between; make may be killed  *)
(* at any time.                                                             *)
(***************************************************************************)
EXTENDS Integers, SequencesExt

CONSTANTS
  Tables,        \* device tables
  Trees,         \* target directories before the first image
  Ids,           \* the numbers of the user and group names that the host knows
  SetId, Cleared(_),   \* the modes with a set-id bit, and what they are without it
  Numbered(_, _),      \* the name with a number behind it: sprintf with %s%d
  FieldLimit,    \* 0xfffff
  IntSize,       \* 2^32
  MaxRuns        \* bound on images

ASSUME MakeDevsAssumption ==
  /\ MaxRuns \in Nat
  /\ FieldLimit \in Nat /\ IntSize \in Nat /\ FieldLimit < IntSize

VARIABLES
  table,
  tree,          \* what there is in the target directory, as fakeroot shows it
  pc,
  line, i,       \* the row and the number in its batch
  user, group,   \* the buffers of main, which a short row leaves as they are
  ret,           \* the exit status so far
  images,        \* the images, with the exit status of makedevs
  runs

vars == <<table, tree, pc, line, i, user, group, ret, images, runs>>

-----------------------------------------------------------------------------
(* Rows.  A line that is no comment has the fields that sscanf could convert: *)
(* it stops at the first that is missing or is a "-".                         *)

Fields == <<"mode", "user", "group", "major", "minor", "start", "increment", "count">>

Field(row, f, default) ==
  LET k == CHOOSE k \in 1..8 : Fields[k] = f
  IN  IF k <= Len(row.rest) THEN row.rest[k] ELSE default

Number(row, f) == Field(row, f, 0)

\* A line with fewer than two words, or with a number out of range.
Invalid(row) ==
  \/ row.type = ""
  \/ \E f \in {"major", "minor", "start", "increment", "count"} : Number(row, f) > FieldLimit

Mode(row) == Field(row, "mode", "755")

\* get_ug_id: a number stands for itself, a name is looked up on the host; no name is root.
Id(name) == IF name = "" THEN 0 ELSE IF name \in DOMAIN Ids THEN Ids[name] ELSE -1

DeviceTypes == {"p", "c", "b"}

\* The iterations of a row.
Batch(row) == IF Number(row, "count") = 0 THEN {0} ELSE 0 .. (Number(row, "count") - 1)

\* The number is only added to the name in a batch.
NodeName(row, k) ==
  LET last == Len(row.name)
  IN  IF Number(row, "count") = 0 THEN row.name
      ELSE [row.name EXCEPT ![last] = Numbered(@, Number(row, "start") + k)]

Rdev(row, k) ==
  <<Number(row, "major"), (Number(row, "minor") + k * Number(row, "increment")) % IntSize>>

\* Words come before unsigned numbers; two numbers make two names of the name of a batch.
ASSUME TablesAssumption ==
  \A t \in Tables :
    /\ Len(t) \in Nat
    /\ \A l \in 1 .. Len(t) :
         /\ Len(t[l].rest) \in Nat
         /\ \A k \in 4 .. Len(t[l].rest) : t[l].rest[k] \in Nat
         /\ ~Invalid(t[l]) => \A j, k \in Batch(t[l]) :
              NodeName(t[l], j) = NodeName(t[l], k) => j = k

-----------------------------------------------------------------------------
(* System calls, as root.                                                     *)

Entry(kind, mode, dev) == [kind |-> kind, mode |-> mode, uid |-> 0, gid |-> 0, dev |-> dev]
NoDev == <<0, 0>>

ASSUME TreesAssumption ==
  \A t \in Trees : t \in [DOMAIN t -> [kind : STRING, mode : STRING, uid : Nat, gid : Nat,
                                      dev : Nat \X Nat]]

\* What there is once a file has been made, in the place of another perhaps.
With(t, name, entry) ==
  [x \in DOMAIN t \union {name} |-> IF x = name THEN entry ELSE t[x]]

IsDir(t, name) == name = <<>> \/ (name \in DOMAIN t /\ t[name].kind = "d")
Ancestors(name) == {SubSeq(name, 1, n) : n \in 1 .. Len(name) - 1}

\* mknod under fakeroot, which makes an ordinary file: there may be one already.
CanMknod(t, name) == IsDir(t, Front(name)) /\ ~IsDir(t, name)

\* chown takes the set-id bits of a file away.
Chown(t, name, uid, gid) ==
  [t EXCEPT ![name] = [@ EXCEPT !.uid = uid, !.gid = gid,
                                !.mode = IF t[name].kind = "f" /\ @ \in SetId THEN Cleared(@) ELSE @]]

Chmod(t, name, mode) == [t EXCEPT ![name].mode = mode]

\* A mutant: the mode is set first.
OwnedModeFirst(t, name, uid, gid, mode) == Chown(Chmod(t, name, mode), name, uid, gid)

\* The end of every row: chown, then chmod.
Owned(t, name, uid, gid, mode) == Chmod(Chown(t, name, uid, gid), name, mode)

\* bb_make_directory with FILEUTILS_RECUR: the umask is 0, so that parents are open to all.  It
\* stops at a parent that is no directory.
bb_make_directory(t, name, mode) ==
  LET absent == ({name} \union Ancestors(name)) \ DOMAIN t
  IN  IF \E a \in Ancestors(name) : a \in DOMAIN t /\ t[a].kind # "d" THEN t
      ELSE [a \in DOMAIN t \union absent |->
              IF a \in DOMAIN t THEN t[a]
              ELSE Entry("d", IF a = name THEN mode ELSE "777", NoDev)]

\* chown -R 0:0 under a new fakeroot, for which a device is an empty file like any other.
Session(t) ==
  [name \in DOMAIN t |->
     [t[name] EXCEPT !.uid = 0, !.gid = 0, !.dev = NoDev, !.kind = IF @ = "d" THEN "d" ELSE "f"]]

-----------------------------------------------------------------------------

Init ==
  /\ table \in Tables /\ tree \in Trees /\ pc = "idle"
  /\ line = 1 /\ i = 0 /\ user = "" /\ group = "" /\ ret = 0
  /\ images = {} /\ runs = 0

\* The recipe of an image.  What is in the buffers at first is undefined.
BeginImage ==
  /\ pc = "idle" /\ runs < MaxRuns
  /\ tree' = Session(tree) /\ pc' = "table" /\ line' = 1 /\ i' = 0 /\ ret' = 0 /\ runs' = runs + 1
  /\ user' \in {"", "garbage"} /\ group' \in {"", "garbage"}
  /\ UNCHANGED <<table, images>>

Row == table[line]
Reading == pc = "table" /\ line <= Len(table)
User == Field(Row, "user", user)
Group == Field(Row, "group", group)

Result(failed) == ret' = IF failed THEN 1 ELSE ret

\* Comments and empty lines, also a line that starts with a space and is not valid.
SkipLine ==
  /\ Reading /\ (Row.text = "comment" \/ (Row.text = "indented" /\ Invalid(Row)))
  /\ line' = line + 1
  /\ UNCHANGED <<table, tree, pc, i, user, group, ret, images, runs>>

InvalidLine ==
  /\ Reading /\ Row.text = "row" /\ Invalid(Row)
  /\ line' = line + 1 /\ Result(TRUE)
  /\ UNCHANGED <<table, tree, pc, i, user, group, images, runs>>

\* The fields of a row that is worked on.
Parsed == /\ Reading /\ Row.text # "comment" /\ ~Invalid(Row)
          /\ user' = User /\ group' = Group

\* get_ug_id exits when the host does not know a name; the image is made all the same.
UnknownId ==
  /\ Parsed /\ (Id(Group) = -1 \/ Id(User) = -1)
  /\ ret' = 1 /\ pc' = "image"
  /\ UNCHANGED <<table, tree, line, i, images, runs>>

Known == Parsed /\ Id(Group) # -1 /\ Id(User) # -1
NextLine == line' = line + 1 /\ i' = 0 /\ UNCHANGED <<table, pc, images, runs>>

\* The result of bb_make_directory is not looked at.
Directory ==
  LET t == bb_make_directory(tree, Row.name, Mode(Row))
  IN /\ Known /\ Row.type = "d"
     /\ tree' = IF Row.name \in DOMAIN t THEN Owned(t, Row.name, Id(User), Id(Group), Mode(Row)) ELSE t
     /\ Result(Row.name \notin DOMAIN t) /\ NextLine

IsFile == Row.name \in DOMAIN tree /\ tree[Row.name].kind = "f"

RegularFile ==
  /\ Known /\ Row.type = "f"
  /\ tree' = IF IsFile THEN Owned(tree, Row.name, Id(User), Id(Group), Mode(Row)) ELSE tree
  /\ Result(~IsFile) /\ NextLine

\* A mutant: a node that is there already, perhaps from the image before, is not made again.
MadeOnce(name) ==
  LET new == Entry(Row.type, Mode(Row), IF Row.type = "p" THEN NoDev ELSE Rdev(Row, i))
  IN  IF CanMknod(tree, name)
      THEN Owned(IF name \in DOMAIN tree THEN tree ELSE With(tree, name, new),
                 name, Id(User), Id(Group), Mode(Row))
      ELSE IF name \in DOMAIN tree THEN Chmod(tree, name, Mode(Row)) ELSE tree

\* One node.  A node that is there already still gets the mode.
Made(name) ==
  LET new == Entry(Row.type, Mode(Row), IF Row.type = "p" THEN NoDev ELSE Rdev(Row, i))
  IN  IF CanMknod(tree, name) THEN Owned(With(tree, name, new), name, Id(User), Id(Group), Mode(Row))
      ELSE IF name \in DOMAIN tree THEN Chmod(tree, name, Mode(Row)) ELSE tree

Node ==
  /\ Known /\ Row.type \in DeviceTypes
  /\ tree' = Made(NodeName(Row, i))
  /\ Result(~CanMknod(tree, NodeName(Row, i)))
  /\ IF i + 1 \in Batch(Row) THEN i' = i + 1 /\ UNCHANGED <<table, pc, line, images, runs>> ELSE NextLine

UnsupportedType ==
  /\ Known /\ Row.type \notin DeviceTypes \union {"d", "f"}
  /\ Result(TRUE) /\ NextLine /\ UNCHANGED tree

EndOfTable ==
  /\ pc = "table" /\ line > Len(table) /\ pc' = "image"
  /\ UNCHANGED <<table, tree, line, i, user, group, ret, images, runs>>

\* The fakeroot script does not look at the exit status.
MakeImage ==
  /\ pc = "image" /\ pc' = "idle"
  /\ images' = images \union {[tree |-> tree, ret |-> ret]}
  /\ UNCHANGED <<table, tree, line, i, user, group, ret, runs>>

\* make is killed, and the fakeroot with it; make removes the image it was working on.
Killed ==
  /\ pc # "idle" /\ pc' = "idle"
  /\ UNCHANGED <<table, tree, line, i, user, group, ret, images, runs>>

Next == \/ BeginImage \/ SkipLine \/ InvalidLine \/ UnknownId \/ Directory \/ RegularFile \/ Node
        \/ UnsupportedType \/ EndOfTable \/ MakeImage \/ Killed

Spec == Init /\ [][Next]_vars

-----------------------------------------------------------------------------
(* Properties.                                                                *)

Worked(row) == row.text # "comment" /\ ~Invalid(row)

\* What a row asks for (the README of makedevs): the names with the minor number of each.
Wanted(row) ==
  IF row.type \in DeviceTypes /\ Number(row, "count") > 0
  THEN {<<[row.name EXCEPT ![Len(row.name)] = Numbered(@, n)],
          Number(row, "minor") + (n - Number(row, "start")) * Number(row, "increment")>> :
        n \in Number(row, "start") .. Number(row, "start") + Number(row, "count") - 1}
  ELSE {<<row.name, Number(row, "minor")>>}

Holds(row, name, minor) ==
  /\ name \in DOMAIN tree
  /\ tree[name].mode = Mode(row)
  /\ tree[name].uid = Id(Field(row, "user", "")) /\ tree[name].gid = Id(Field(row, "group", ""))
  /\ row.type # "d" => tree[name].kind = row.type
  /\ row.type \in {"c", "b"} => tree[name].dev = <<Number(row, "major"), minor>>

Complete(t) == \A l \in 1..Len(t) : Worked(t[l]) => Len(t[l].rest) >= 3

(* When makedevs ends without an error, every row of the table has had its     *)
(* effect, unless a later row names the same file: owner, mode with its set-id *)
(* bits, kind and numbers.  (A row for a directory is not held to the kind: a  *)
(* file that is in its place gets the owner and the mode of the directory, and *)
(* the exit status says nothing of it.)                                        *)
SuccessMeansDone ==
  pc = "image" /\ ret = 0 /\ Complete(table) =>
    \A l \in 1..Len(table) : Worked(table[l]) =>
      \A w \in Wanted(table[l]) :
        \/ Holds(table[l], w[1], w[2])
        \/ \E m \in l + 1 .. Len(table) : Worked(table[m]) /\ \E x \in Wanted(table[m]) : x[1] = w[1]

(* Once makedevs has succeeded for an image it succeeds for every image made   *)
(* after it, and gives the same, although it works on a directory in which the *)
(* devices of the earlier image are ordinary files that nobody owns, perhaps   *)
(* after a make that was killed half way through the table.                    *)
ImagesAlike ==
  pc = "image" /\ Complete(table) => \A a \in images : a.ret = 0 => a = [tree |-> tree, ret |-> ret]
=============================================================================
