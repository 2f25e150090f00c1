---------------------------- MODULE MkUsers_proofs ---------------------------
(***************************************************************************)
(* Theorems about MkUsers, for every skeleton, every set of tables of any   *)
(* length, every range of automatic ids and every number of runs.           *)
(***************************************************************************)
EXTENDS MkUsers, TLAPS

USE TablesAssumption, SkeletonAssumption

-----------------------------------------------------------------------------
(* What a run has done so far.                                               *)

\* Line i of the table has had its main group written.
MainDone(i) == \/ pass = 1 /\ table[i].gid # NoId /\ i < row
               \/ pass = 2 /\ (table[i].gid # NoId \/ i < row)
               \/ pass > 2

\* The additional group j of line i has been written.
ExtraDone(i, j) == pass > 3 \/ (pass = 3 /\ (i < row \/ (i = row /\ j < extra)))

\* The group g has been written, and so emptied, in this run.
Written(g) == \E i \in DOMAIN table :
                \/ MainDone(i) /\ table[i].group = g
                \/ \E j \in DOMAIN table[i].groups : ExtraDone(i, j) /\ table[i].groups[j] = g

\* The user of line i has been added.
UserDone(i) == \/ pass = 4 /\ table[i].uid # NoId /\ i < row
               \/ pass = 5 /\ (table[i].uid # NoId \/ i < row)

\* The group is one that a table gives a gid, one it mentions, or not.
Fixed(g)        == \E i \in DOMAIN table : table[i].gid # NoId /\ table[i].group = g
Named(t, g)     == \E i \in DOMAIN t :
                     t[i].group = g \/ \E j \in DOMAIN t[i].groups : t[i].groups[j] = g

\* Line k of t adds its user after line i adds the same one.
After(t, k, i) == \/ t[k].uid = NoId /\ t[i].uid # NoId
                  \/ (t[k].uid = NoId <=> t[i].uid = NoId) /\ k > i

\* A row has what it asks for: ids U of the users, G of the groups.
Settled(r, U, G) ==
  /\ r.user # Root /\ r.gid # 0 /\ r.uid # 0 /\ ~Rejected(r)
  /\ G[r.group] # NoId
  /\ r.gid # NoId => \A g \in Groups : G[g] = r.gid <=> g = r.group
  /\ U[r.user] # NoId
  /\ r.uid # NoId => \A u \in Users : U[u] = r.uid <=> u = r.user

-----------------------------------------------------------------------------
(* The inductive invariant.                                                  *)

FileTypes == [Users -> Ids] \X [Users -> Ids] \X [Groups -> Ids] \X [Groups -> SUBSET Users]

TypeInv ==
  /\ uid \in [Users -> Ids] /\ ugid \in [Users -> Ids]
  /\ gid \in [Groups -> Ids] /\ members \in [Groups -> SUBSET Users]
  /\ table \in Seq(Row)
  /\ pass \in 0..5 /\ row \in 1..(Len(table) + 1) /\ extra \in Nat \ {0}
  /\ result \in {"none", "running", "ok", "failed", "interrupted"}
  /\ runs \in Nat
  /\ start \in [uid : [Users -> Ids], gid : [Groups -> Ids]]
  /\ last \in [table : Seq(Row), files : FileTypes]
  /\ stale \in BOOLEAN
  /\ result = "running" <=> Running
  /\ result \in {"failed", "interrupted"} => stale

\* No uid is ever given to two users, in whatever way the runs end.
UidsUnique == NoTwice(uid, Users)

\* Two groups may share a gid while a run goes on, but then the table gives
\* it to one of them.
GidsUnique == ~stale => \A g, h \in Groups :
                          gid[g] = gid[h] /\ gid[g] # NoId => g = h \/ (Running /\ (Fixed(g) \/ Fixed(h)))

\* The files keep every uid they had when the run began, and the gid of every
\* group that the table does not give another one.
IdsKept ==
  result \in {"running", "ok"} =>
    /\ \A u \in Users : start.uid[u] # NoId => uid[u] = start.uid[u]
    /\ \A g \in Groups : start.gid[g] # NoId /\ ~Fixed(g) => gid[g] = start.gid[g]

GroupsThere == \A g \in Groups : Running /\ Written(g) => gid[g] # NoId

\* What an added user was promised stays true while the rest are added.
RowsSettled == Running => \A i \in DOMAIN table : UserDone(i) => Settled(table[i], uid, gid)

\* A group that was written has as members the users added since.
MembersAdded ==
  Running => \A g \in Groups, u \in Users :
    Written(g) => (u \in members[g] <=>
                     \E i \in DOMAIN table : /\ UserDone(i) /\ table[i].user = u
                                             /\ \E j \in DOMAIN table[i].groups : table[i].groups[j] = g)

\* Line k is the last one so far that added user u.
LastOf(k, u) == /\ k \in DOMAIN table /\ UserDone(k) /\ table[k].user = u
                /\ \A i \in DOMAIN table :
                     UserDone(i) /\ table[i].user = u => i = k \/ After(table, k, i)

\* The last line of a user names its main group.
LastLineWins ==
  Running => \A u \in Users :
    (\E i \in DOMAIN table : UserDone(i) /\ table[i].user = u)
      => \E k \in DOMAIN table : LastOf(k, u) /\ ugid[u] = gid[table[k].group]

\* What a successful run leaves for the table t in the files F.
Served(t, F) ==
  /\ \A i \in DOMAIN t : Settled(t[i], F[1], F[3])
  /\ \A g \in Groups : Named(t, g) => F[3][g] # NoId
  /\ \A g \in Groups, u \in Users :
       Named(t, g) => (u \in F[4][g] <=>
                         \E i \in DOMAIN t : /\ t[i].user = u
                                             /\ \E j \in DOMAIN t[i].groups : t[i].groups[j] = g)
  /\ \A u \in Users :
       (\E i \in DOMAIN t : t[i].user = u) =>
         \E k \in DOMAIN t : /\ t[k].user = u /\ F[2][u] = F[3][t[k].group]
                             /\ \A i \in DOMAIN t : t[i].user = u => i = k \/ After(t, k, i)

LastServed == last.table # <<>> => Served(last.table, last.files)

\* Between runs the files are those of the last successful one.
FilesLasting == ~stale /\ ~Running => files = last.files /\ table = last.table

RowsServed == result = "ok" => Served(table, files)

\* A run with the table of the last one rewrites what is there.
Repeating == ~stale /\ Running /\ table = last.table /\ table # <<>>
Unchanging ==
  Repeating =>
    /\ uid = last.files[1] /\ gid = last.files[3]
    /\ \A u \in Users : ~(\E i \in DOMAIN table : UserDone(i) /\ table[i].user = u)
                          => ugid[u] = last.files[2][u]
    /\ \A g \in Groups : ~Written(g) => members[g] = last.files[4][g]

IInv == /\ TypeInv /\ UidsUnique /\ GidsUnique /\ IdsKept /\ GroupsThere /\ RowsSettled
        /\ MembersAdded /\ LastLineWins /\ LastServed /\ FilesLasting /\ RowsServed /\ Unchanging

-----------------------------------------------------------------------------
(* Rows and passes.                                                          *)

LEMMA PassNames ==
  /\ Len(Passes) = 5
  /\ Passes[1] = "fixed_gids" /\ Passes[2] = "auto_gids" /\ Passes[3] = "extra_groups"
  /\ Passes[4] = "fixed_uids" /\ Passes[5] = "auto_uids"
  BY DEF Passes

LEMMA RowType ==
  ASSUME NEW t \in Seq(Row), NEW i \in DOMAIN t
  PROVE  /\ t[i] \in Row /\ i \in 1..Len(t)
         /\ t[i].user \in Users /\ t[i].uid \in Ids /\ t[i].group \in Groups /\ t[i].gid \in Ids
         /\ t[i].groups \in Seq(Groups)
         /\ \A j \in DOMAIN t[i].groups : j \in 1..Len(t[i].groups) /\ t[i].groups[j] \in Groups
<1>1. t[i] \in Row /\ i \in 1..Len(t)
  OBVIOUS
<1>2. /\ t[i].user \in Users /\ t[i].uid \in Ids /\ t[i].group \in Groups /\ t[i].gid \in Ids
      /\ t[i].groups \in Seq(Groups)
  BY <1>1 DEF Row
<1> QED BY <1>1, <1>2

\* At a row the pass has a name, and the row is one of the table.
LEMMA PassAt ==
  ASSUME TypeInv
  PROVE  /\ AtRow("fixed_gids")   <=> pass = 1 /\ row \in DOMAIN table
         /\ AtRow("auto_gids")    <=> pass = 2 /\ row \in DOMAIN table
         /\ AtRow("extra_groups") <=> pass = 3 /\ row \in DOMAIN table
         /\ AtRow("fixed_uids")   <=> pass = 4 /\ row \in DOMAIN table
         /\ AtRow("auto_uids")    <=> pass = 5 /\ row \in DOMAIN table
<1>1. row <= Len(table) <=> row \in DOMAIN table
  BY DEF TypeInv
<1>2. pass \in 0..5
  BY DEF TypeInv
<1> QED BY <1>1, <1>2, PassNames DEF AtRow, Running

LEMMA SkippedRows ==
  ASSUME NEW r
  PROVE  /\ Skipped("fixed_gids", r) <=> r.gid = NoId
         /\ Skipped("auto_gids", r)  <=> r.gid # NoId
         /\ Skipped("fixed_uids", r) <=> r.uid = NoId
         /\ Skipped("auto_uids", r)  <=> r.uid # NoId
  BY DEF Skipped

LEMMA AtUserRow ==
  ASSUME TypeInv
  PROVE  AtUser <=> /\ row \in DOMAIN table
                    /\ \/ pass = 4 /\ table[row].uid # NoId
                       \/ pass = 5 /\ table[row].uid = NoId
  BY PassAt, SkippedRows DEF AtUser, Current

\* What generate_gid and generate_uid answer is the id that is there, or one
\* that nobody has.
LEMMA GeneratedGid ==
  ASSUME TypeInv, NEW g \in Groups, NEW id \in GenerateGid(g)
  PROVE  /\ id \in Ids /\ id # NoId
         /\ IF gid[g] # NoId THEN id = gid[g] ELSE \A h \in Groups : gid[h] # id
<1>1. CASE gid[g] # NoId
  BY <1>1 DEF GenerateGid, TypeInv
<1>2. CASE gid[g] = NoId
  <2>1. id \in MinId..MaxId /\ GetGroups(id) = {}
    BY <1>2 DEF GenerateGid
  <2> QED BY <1>2, <2>1 DEF GetGroups, Ids, NoId
<1> QED BY <1>1, <1>2

LEMMA GeneratedUid ==
  ASSUME TypeInv, NEW u \in Users, NEW id \in GenerateUid(u)
  PROVE  /\ id \in Ids /\ id # NoId
         /\ IF uid[u] # NoId THEN id = uid[u] ELSE \A v \in Users : uid[v] # id
<1>1. CASE uid[u] # NoId
  BY <1>1 DEF GenerateUid, TypeInv
<1>2. CASE uid[u] = NoId
  <2>1. id \in MinId..MaxId /\ GetUsernames(id) = {}
    BY <1>2 DEF GenerateUid
  <2> QED BY <1>2, <2>1 DEF GetUsernames, Ids, NoId
<1> QED BY <1>1, <1>2

-----------------------------------------------------------------------------
(* The kinds of steps.                                                       *)

\* A group is written, with the gid of a row or a generated one.
WriteGroup(g, id) ==
  /\ pass \in 1..3 /\ pass' = pass
  /\ id # NoId
  /\ AddOneGroup(g, id)
  /\ \/ \E i \in DOMAIN table : table[i].group = g /\ table[i].gid = id
     \/ IF gid[g] # NoId THEN id = gid[g] ELSE \A h \in Groups : gid[h] # id
  /\ \A h \in Groups : Written(h)' <=> Written(h) \/ h = g
  /\ UNCHANGED <<uid, ugid, table, result, runs, history>>

\* The script goes on to another row without touching the files.
MoveOn ==
  /\ Running /\ Running'
  /\ \A g \in Groups : Written(g)' <=> Written(g)
  /\ \A i \in DOMAIN table : UserDone(i)' <=> UserDone(i)
  /\ UNCHANGED <<files, table, result, runs, history>>

\* The user of the row r is added with the uid id.
AddUser(r, id) ==
  /\ pass \in 4..5 /\ pass' = pass
  /\ row \in DOMAIN table /\ r = table[row]
  /\ CheckUserValidity(r) /\ ~Rejected(r)
  /\ id # NoId
  /\ IF r.uid # NoId THEN id = r.uid
     ELSE IF uid[r.user] # NoId THEN id = uid[r.user] ELSE \A v \in Users : uid[v] # id
  /\ uid' = [uid EXCEPT ![r.user] = id]
  /\ ugid' = [ugid EXCEPT ![r.user] = gid[r.group]]
  /\ AddUserToGroups(r)
  /\ \A i \in DOMAIN table : UserDone(i)' <=> UserDone(i) \/ i = row
  /\ \A i \in DOMAIN table : UserDone(i) => After(table, row, i)
  /\ \A g \in Groups : (Written(g) <=> Named(table, g)) /\ (Written(g)' <=> Written(g))
  /\ UNCHANGED <<gid, table, result, runs, history>>

LEMMA FixedGidWrites ==
  ASSUME TypeInv, FixedGid
  PROVE  \E g \in Groups, id \in Ids : WriteGroup(g, id)
<1>1. pass = 1 /\ row \in DOMAIN table /\ table[row].gid # NoId
  BY PassAt, SkippedRows DEF FixedGid, Current
<1> DEFINE g == table[row].group
           id == table[row].gid
<1>2. g \in Groups /\ id \in Ids /\ row \in 1..Len(table)
  BY <1>1, RowType DEF TypeInv
<1>3. AddOneGroup(g, id) /\ pass' = pass /\ row' = row + 1 /\ extra' = 1
      /\ UNCHANGED <<uid, ugid, table, result, runs, history>>
  BY DEF FixedGid, Advance, Current
<1>4. ASSUME NEW h \in Groups PROVE Written(h)' <=> Written(h) \/ h = g
  <2>1. ASSUME NEW i \in DOMAIN table
        PROVE  MainDone(i)' <=> MainDone(i) \/ i = row
    BY <1>1, <1>2, <1>3 DEF MainDone, TypeInv
  <2>2. \A i \in DOMAIN table : \A j \in DOMAIN table[i].groups : ~ExtraDone(i, j) /\ ~ExtraDone(i, j)'
    BY <1>1, <1>3 DEF ExtraDone
  <2> QED BY <1>1, <1>3, <2>1, <2>2 DEF Written
<1> QED BY <1>1, <1>2, <1>3, <1>4 DEF WriteGroup

LEMMA AutoGidWrites ==
  ASSUME TypeInv, AutoGid
  PROVE  \E g \in Groups, id \in Ids : WriteGroup(g, id)
<1>1. pass = 2 /\ row \in DOMAIN table /\ table[row].gid = NoId
  BY PassAt, SkippedRows DEF AutoGid, Current
<1> DEFINE g == table[row].group
<1>2. g \in Groups /\ row \in 1..Len(table)
  BY <1>1, RowType DEF TypeInv
<1>3. PICK id \in GenerateGid(g) : AddOneGroup(g, id)
  BY DEF AutoGid, Current
<1>4. pass' = pass /\ row' = row + 1 /\ extra' = 1
      /\ UNCHANGED <<uid, ugid, table, result, runs, history>>
  BY DEF AutoGid, Advance
<1>5. ASSUME NEW h \in Groups PROVE Written(h)' <=> Written(h) \/ h = g
  <2>1. ASSUME NEW i \in DOMAIN table
        PROVE  MainDone(i)' <=> MainDone(i) \/ i = row
    BY <1>1, <1>2, <1>4 DEF MainDone, TypeInv
  <2>2. \A i \in DOMAIN table : \A j \in DOMAIN table[i].groups : ~ExtraDone(i, j) /\ ~ExtraDone(i, j)'
    BY <1>1, <1>4 DEF ExtraDone
  <2> QED BY <1>1, <1>4, <2>1, <2>2 DEF Written
<1>6. /\ id \in Ids /\ id # NoId
      /\ IF gid[g] # NoId THEN id = gid[g] ELSE \A h \in Groups : gid[h] # id
  BY <1>2, <1>3, GeneratedGid
<1> QED BY <1>1, <1>2, <1>3, <1>4, <1>5, <1>6 DEF WriteGroup

LEMMA ExtraGroupWrites ==
  ASSUME TypeInv, ExtraGroup
  PROVE  \E g \in Groups, id \in Ids : WriteGroup(g, id)
<1>1. pass = 3 /\ row \in DOMAIN table /\ extra <= Len(table[row].groups)
  BY PassAt DEF ExtraGroup, Current
<1> DEFINE g == table[row].groups[extra]
<1>2. row \in 1..Len(table) /\ table[row].groups \in Seq(Groups)
  BY <1>1, RowType DEF TypeInv
<1>3. extra \in DOMAIN table[row].groups /\ g \in Groups
  BY <1>1, <1>2 DEF TypeInv
<1>4. PICK id \in GenerateGid(g) : AddOneGroup(g, id)
  BY DEF ExtraGroup, Current
<1>5. pass' = pass /\ row' = row /\ extra' = extra + 1
      /\ UNCHANGED <<uid, ugid, table, result, runs, history>>
  BY DEF ExtraGroup
<1>6. ASSUME NEW h \in Groups PROVE Written(h)' <=> Written(h) \/ h = g
  <2>1. \A i \in DOMAIN table : MainDone(i) /\ MainDone(i)'
    BY <1>1, <1>5 DEF MainDone
  <2>2. ASSUME NEW i \in DOMAIN table, NEW j \in DOMAIN table[i].groups
        PROVE  ExtraDone(i, j)' <=> ExtraDone(i, j) \/ (i = row /\ j = extra)
    <3>1. j \in Nat
      BY RowType DEF TypeInv
    <3> QED BY <1>1, <1>5, <3>1 DEF ExtraDone, TypeInv
  <2> QED BY <1>1, <1>3, <1>5, <2>1, <2>2 DEF Written
<1>7. /\ id \in Ids /\ id # NoId
      /\ IF gid[g] # NoId THEN id = gid[g] ELSE \A h \in Groups : gid[h] # id
  BY <1>3, <1>4, GeneratedGid
<1> QED BY <1>1, <1>3, <1>4, <1>5, <1>6, <1>7 DEF WriteGroup

LEMMA SkipRowMovesOn ==
  ASSUME TypeInv, SkipRow
  PROVE  MoveOn
<1>1. /\ row \in DOMAIN table /\ pass \in 1..5
      /\ pass = 1 => table[row].gid = NoId
      /\ pass = 2 => table[row].gid # NoId
      /\ pass = 4 => table[row].uid = NoId
      /\ pass = 5 => table[row].uid # NoId
      /\ pass # 3
  BY PassAt, SkippedRows DEF SkipRow, Current
<1>2. /\ pass' = pass /\ row' = row + 1 /\ extra' = 1
      /\ UNCHANGED <<files, table, result, runs, history>>
  BY DEF SkipRow, Advance
<1>3. table' = table /\ row \in 1..Len(table)
  BY <1>1, <1>2 DEF TypeInv
<1>4. \A i \in DOMAIN table : MainDone(i)' <=> MainDone(i)
  BY <1>1, <1>2, <1>3 DEF MainDone, TypeInv
<1>5. \A i \in DOMAIN table : \A j \in DOMAIN table[i].groups : ExtraDone(i, j)' <=> ExtraDone(i, j)
  BY <1>1, <1>2, <1>3 DEF ExtraDone
<1>6. \A i \in DOMAIN table : UserDone(i)' <=> UserDone(i)
  BY <1>1, <1>2, <1>3 DEF UserDone, TypeInv
<1>7. \A g \in Groups : Written(g)' <=> Written(g)
  BY <1>3, <1>4, <1>5 DEF Written
<1> QED BY <1>1, <1>2, <1>6, <1>7 DEF MoveOn, Running

LEMMA ExtraGroupsDoneMovesOn ==
  ASSUME TypeInv, ExtraGroupsDone
  PROVE  MoveOn
<1>1. pass = 3 /\ row \in DOMAIN table /\ extra > Len(table[row].groups)
  BY PassAt DEF ExtraGroupsDone, Current
<1>2. /\ pass' = pass /\ row' = row + 1 /\ extra' = 1
      /\ UNCHANGED <<files, table, result, runs, history>>
  BY DEF ExtraGroupsDone, Advance
<1>3. table' = table /\ row \in 1..Len(table)
  BY <1>1, <1>2 DEF TypeInv
<1>4. \A i \in DOMAIN table : MainDone(i)' /\ MainDone(i) /\ ~UserDone(i) /\ ~UserDone(i)'
  BY <1>1, <1>2 DEF MainDone, UserDone
<1>5. ASSUME NEW i \in DOMAIN table, NEW j \in DOMAIN table[i].groups
      PROVE  ExtraDone(i, j)' <=> ExtraDone(i, j)
  <2>1. i \in 1..Len(table) /\ j \in 1..Len(table[i].groups) /\ Len(table[i].groups) \in Nat
    BY RowType DEF TypeInv
  <2> QED BY <1>1, <1>2, <1>3, <2>1 DEF ExtraDone, TypeInv
<1>6. \A g \in Groups : Written(g)' <=> Written(g)
  BY <1>3, <1>4, <1>5 DEF Written
<1> QED BY <1>1, <1>2, <1>4, <1>6 DEF MoveOn, Running

LEMMA NextPassMovesOn ==
  ASSUME TypeInv, NextPass
  PROVE  MoveOn
<1>1. pass \in 1..4 /\ row > Len(table)
  BY PassNames DEF NextPass, Running, TypeInv
<1>2. /\ pass' = pass + 1 /\ row' = 1 /\ extra' = 1
      /\ UNCHANGED <<files, table, result, runs, history>>
  BY DEF NextPass
<1>3. table' = table /\ row = Len(table) + 1 /\ Len(table) \in Nat
  BY <1>1, <1>2 DEF TypeInv
<1>4. \A i \in DOMAIN table : MainDone(i)' <=> MainDone(i)
  BY <1>1, <1>2, <1>3 DEF MainDone, TypeInv
<1>5. ASSUME NEW i \in DOMAIN table, NEW j \in DOMAIN table[i].groups
      PROVE  ExtraDone(i, j)' <=> ExtraDone(i, j)
  <2>1. i \in 1..Len(table) /\ j \in 1..Len(table[i].groups)
    BY RowType DEF TypeInv
  <2> QED BY <1>1, <1>2, <1>3, <2>1 DEF ExtraDone
<1>6. \A i \in DOMAIN table : UserDone(i)' <=> UserDone(i)
  BY <1>1, <1>2, <1>3 DEF UserDone, TypeInv
<1>7. \A g \in Groups : Written(g)' <=> Written(g)
  BY <1>3, <1>4, <1>5 DEF Written
<1> QED BY <1>1, <1>2, <1>6, <1>7 DEF MoveOn, Running

\* After the passes over the groups every group of the table is written.
LEMMA AllWritten ==
  ASSUME TypeInv, pass \in 4..5, NEW g
  PROVE  Written(g) <=> Named(table, g)
  BY DEF Written, Named, MainDone, ExtraDone, TypeInv

LEMMA AddOneUserAdds ==
  ASSUME TypeInv, AddOneUser
  PROVE  \E r \in Row, id \in Ids : AddUser(r, id)
<1> DEFINE r == table[row]
<1>1. /\ row \in DOMAIN table
      /\ \/ pass = 4 /\ r.uid # NoId
         \/ pass = 5 /\ r.uid = NoId
  BY AtUserRow DEF AddOneUser
<1>2. row \in 1..Len(table) /\ r \in Row /\ r.user \in Users /\ r.uid \in Ids
  BY <1>1, RowType DEF TypeInv
<1>3. PICK id \in UidChoices(r) : uid' = [uid EXCEPT ![r.user] = id]
  BY DEF AddOneUser, Current
<1>4. /\ CheckUserValidity(r) /\ ~Rejected(r)
      /\ ugid' = [ugid EXCEPT ![r.user] = gid[r.group]]
      /\ AddUserToGroups(r)
      /\ pass' = pass /\ row' = row + 1 /\ extra' = 1
      /\ UNCHANGED <<gid, table, result, runs, history>>
  BY DEF AddOneUser, Advance, Current
<1>5. id \in Ids /\ id # NoId
      /\ IF r.uid # NoId THEN id = r.uid
         ELSE IF uid[r.user] # NoId THEN id = uid[r.user] ELSE \A v \in Users : uid[v] # id
  BY <1>2, <1>3, GeneratedUid DEF UidChoices
<1>6. \A i \in DOMAIN table : UserDone(i)' <=> UserDone(i) \/ i = row
  BY <1>1, <1>2, <1>4 DEF UserDone, TypeInv
<1>7. \A i \in DOMAIN table : UserDone(i) => After(table, row, i)
  BY <1>1, <1>2 DEF UserDone, After, TypeInv
<1>8. \A g \in Groups : Written(g) <=> Named(table, g)
  BY <1>1, AllWritten
<1>9. \A g \in Groups : Written(g)' <=> Written(g)
  <2>1. \A i \in DOMAIN table : MainDone(i)' <=> MainDone(i)
    BY <1>1, <1>4 DEF MainDone
  <2>2. \A i \in DOMAIN table : \A j \in DOMAIN table[i].groups : ExtraDone(i, j)' <=> ExtraDone(i, j)
    BY <1>1, <1>4 DEF ExtraDone
  <2> QED BY <1>4, <2>1, <2>2 DEF Written
<1>10. AddUser(r, id)
  BY <1>1, <1>3, <1>4, <1>5, <1>6, <1>7, <1>8, <1>9 DEF AddUser
<1> QED BY <1>2, <1>5, <1>10

\* The run is cut short: nothing is promised, and no user gets an id.
LEMMA StopsStale ==
  ASSUME TypeInv, GroupsFull \/ UserInvalid \/ UserRejected \/ Interrupt
  PROVE  /\ stale' = TRUE /\ pass' = 0 /\ row' = 1 /\ extra' = 1
         /\ result' \in {"failed", "interrupted"}
         /\ UNCHANGED <<table, runs, start, last>>
         /\ uid' = uid \/ \E u \in Users : uid' = [uid EXCEPT ![u] = NoId]
         /\ ugid' = ugid \/ \E u \in Users : ugid' = [ugid EXCEPT ![u] = NoId]
         /\ UNCHANGED <<gid, members>> \/ \E g \in Groups : AddOneGroup(g, NoId)
<1>1. CASE GroupsFull
  BY <1>1 DEF GroupsFull, Stop, files
<1>2. CASE UserInvalid
  BY <1>2 DEF UserInvalid, Stop, files
<1>3. CASE UserRejected
  <2>1. Current.user \in Users
    BY <1>3, AtUserRow, RowType DEF UserRejected, Current, TypeInv
  <2> QED BY <1>3, <2>1 DEF UserRejected, RemoveUser, Stop
<1>4. CASE Interrupt
  <2>1. /\ stale' = TRUE /\ pass' = 0 /\ row' = 1 /\ extra' = 1 /\ result' = "interrupted"
        /\ UNCHANGED <<table, runs, start, last>>
    BY <1>4 DEF Interrupt, Stop
  <2>2. CASE UNCHANGED files
    BY <2>1, <2>2 DEF files
  <2>3. CASE AtUser /\ RemoveUser(Current.user)
    <3>1. Current.user \in Users
      BY <2>3, AtUserRow, RowType DEF Current, TypeInv
    <3> QED BY <2>1, <2>3, <3>1 DEF RemoveUser
  <2>4. ASSUME row <= Len(table), NEW g \in GroupAtHand, AddOneGroup(g, NoId), UNCHANGED <<uid, ugid>>
        PROVE  /\ uid' = uid /\ ugid' = ugid
               /\ \E h \in Groups : AddOneGroup(h, NoId)
    <3>1. row \in DOMAIN table
      BY <2>4 DEF TypeInv
    <3>2. g \in Groups
      BY <2>4, <3>1, RowType DEF GroupAtHand, Current, TypeInv
    <3> QED BY <2>4, <3>2
  <2> QED BY <1>4, <2>1, <2>2, <2>3, <2>4 DEF Interrupt
<1> QED BY <1>1, <1>2, <1>3, <1>4

LEMMA StepKinds ==
  ASSUME TypeInv, [Next]_vars
  PROVE  \/ \E g \in Groups, id \in Ids : WriteGroup(g, id)
         \/ MoveOn
         \/ \E r \in Row, id \in Ids : AddUser(r, id)
         \/ Start
         \/ Finish
         \/ GroupsFull \/ UserInvalid \/ UserRejected \/ Interrupt
         \/ UNCHANGED vars
<1>1. CASE FixedGid
  BY <1>1, FixedGidWrites
<1>2. CASE AutoGid
  BY <1>2, AutoGidWrites
<1>3. CASE ExtraGroup
  BY <1>3, ExtraGroupWrites
<1>4. CASE SkipRow
  BY <1>4, SkipRowMovesOn
<1>5. CASE ExtraGroupsDone
  BY <1>5, ExtraGroupsDoneMovesOn
<1>6. CASE NextPass
  BY <1>6, NextPassMovesOn
<1>7. CASE AddOneUser
  BY <1>7, AddOneUserAdds
<1> QED BY <1>1, <1>2, <1>3, <1>4, <1>5, <1>6, <1>7 DEF Next, ScriptStep

-----------------------------------------------------------------------------
(* Types.                                                                     *)

LEMMA ClearedType ==
  ASSUME NEW S, NEW f \in [S -> Ids], NEW x \in S
  PROVE  [f EXCEPT ![x] = NoId] \in [S -> Ids]
<1>1. NoId \in Ids
  BY DEF Ids
<1> QED BY <1>1

LEMMA FilesType ==
  ASSUME TypeInv
  PROVE  files \in FileTypes
  BY DEF TypeInv, files, FileTypes

LEMMA InitType ==
  ASSUME Init
  PROVE  TypeInv
<1>1. last \in [table : Seq(Row), files : FileTypes]
  <2>1. files \in FileTypes
    BY DEF Init, files, FileTypes
  <2> QED BY <2>1 DEF Init
<1>2. start \in [uid : [Users -> Ids], gid : [Groups -> Ids]]
  BY DEF Init
<1>3. table \in Seq(Row) /\ row \in 1..(Len(table) + 1)
  BY DEF Init
<1>4. /\ uid \in [Users -> Ids] /\ ugid \in [Users -> Ids]
      /\ gid \in [Groups -> Ids] /\ members \in [Groups -> SUBSET Users]
  BY DEF Init
<1>5. pass = 0 /\ extra = 1 /\ result = "none" /\ runs = 0 /\ stale = FALSE
  BY DEF Init
<1>6. /\ stale \in BOOLEAN
      /\ result = "running" <=> Running
      /\ result \in {"failed", "interrupted"} => stale
  BY <1>5 DEF Running
<1>7. pass \in 0..5 /\ extra \in Nat \ {0} /\ runs \in Nat
      /\ result \in {"none", "running", "ok", "failed", "interrupted"}
  BY <1>5
<1> QED BY <1>1, <1>2, <1>3, <1>4, <1>6, <1>7 DEF TypeInv

\* The cursor stays on the table or just behind it.
LEMMA CursorType ==
  ASSUME TypeInv, ScriptStep \/ Interrupt \/ Start
  PROVE  table' \in Seq(Row) /\ pass' \in 0..5 /\ row' \in 1..(Len(table') + 1) /\ extra' \in Nat \ {0}
<1>1. CASE Start
  BY <1>1 DEF Start
<1>2. CASE GroupsFull \/ UserInvalid \/ UserRejected \/ Interrupt
  <2>1. pass' = 0 /\ row' = 1 /\ extra' = 1 /\ table' = table
    BY <1>2, StopsStale
  <2> QED BY <2>1 DEF TypeInv
<1>3. CASE SkipRow \/ FixedGid \/ AutoGid \/ ExtraGroupsDone \/ AddOneUser
  <2>1. row \in DOMAIN table
    BY <1>3, PassAt, AtUserRow DEF SkipRow, FixedGid, AutoGid, ExtraGroupsDone, AddOneUser
  <2>2. Advance /\ table' = table
    BY <1>3 DEF SkipRow, FixedGid, AutoGid, ExtraGroupsDone, AddOneUser
  <2> QED BY <2>1, <2>2 DEF Advance, TypeInv
<1>4. CASE ExtraGroup
  BY <1>4 DEF ExtraGroup, TypeInv
<1>5. CASE NextPass
  BY <1>5, PassNames DEF NextPass, TypeInv, Running
<1>6. CASE Finish
  BY <1>6 DEF Finish, TypeInv
<1> QED BY <1>1, <1>2, <1>3, <1>4, <1>5, <1>6 DEF ScriptStep

LEMMA TypeInductive == TypeInv /\ [Next]_vars => TypeInv'
<1> SUFFICES ASSUME TypeInv, [Next]_vars PROVE TypeInv'
  OBVIOUS
<1>1. CASE UNCHANGED vars
  BY <1>1 DEF vars, files, cursor, history, TypeInv, Running
<1>2. CASE Next
  <2> DEFINE Cursor == /\ table' \in Seq(Row) /\ pass' \in 0..5 /\ row' \in 1..(Len(table') + 1)
                       /\ extra' \in Nat \ {0}
  <2>1. Cursor
    BY <1>2, CursorType DEF Next
  <2> HIDE DEF Cursor
  <2>2. ASSUME NEW g \in Groups, NEW id \in Ids, WriteGroup(g, id)
        PROVE  TypeInv'
    <3>1. gid' \in [Groups -> Ids] /\ members' \in [Groups -> SUBSET Users]
      BY <2>2 DEF WriteGroup, AddOneGroup, TypeInv
    <3>2. pass # 0 /\ pass' = pass /\ UNCHANGED <<uid, ugid, table, result, runs, start, last, stale>>
      BY <2>2 DEF WriteGroup, history
    <3> QED BY <2>1, <3>1, <3>2 DEF Cursor, TypeInv, Running
  <2>3. CASE MoveOn
    <3>1. /\ pass # 0 /\ pass' # 0
          /\ UNCHANGED <<uid, ugid, gid, members, table, result, runs, start, last, stale>>
      BY <2>3 DEF MoveOn, files, history, Running
    <3> QED BY <2>1, <3>1 DEF Cursor, TypeInv, Running
  <2>4. ASSUME NEW r \in Row, NEW id \in Ids, AddUser(r, id)
        PROVE  TypeInv'
    <3>1. pass # 0 /\ pass' = pass /\ UNCHANGED <<gid, table, result, runs, start, last, stale>>
      BY <2>4 DEF AddUser, history
    <3>2. r.user \in Users /\ r.group \in Groups
      BY DEF Row
    <3>3. uid' \in [Users -> Ids] /\ ugid' \in [Users -> Ids]
      BY <2>4, <3>2 DEF AddUser, TypeInv
    <3>4. members' \in [Groups -> SUBSET Users]
      BY <2>4, <3>2 DEF AddUser, AddUserToGroups, TypeInv
    <3> QED BY <2>1, <3>1, <3>3, <3>4 DEF Cursor, TypeInv, Running
  <2>5. CASE Start
    <3>1. /\ UNCHANGED <<uid, ugid, gid, members, last, stale>>
          /\ pass' = 1 /\ runs' = runs + 1 /\ result' = "running"
          /\ start' = [uid |-> uid, gid |-> gid]
      BY <2>5 DEF Start, files
    <3>2. start' \in [uid : [Users -> Ids], gid : [Groups -> Ids]]
      BY <3>1 DEF TypeInv
    <3> QED BY <2>1, <3>1, <3>2 DEF Cursor, TypeInv, Running
  <2>6. CASE Finish
    <3>1. /\ UNCHANGED <<uid, ugid, gid, members, table, runs, start, stale>>
          /\ pass' = 0 /\ result' = "ok" /\ last' = [table |-> table, files |-> files]
      BY <2>6 DEF Finish, files
    <3>2. last' \in [table : Seq(Row), files : FileTypes]
      BY <3>1, FilesType DEF TypeInv
    <3> QED BY <2>1, <3>1, <3>2 DEF Cursor, TypeInv, Running
  <2>7. CASE GroupsFull \/ UserInvalid \/ UserRejected \/ Interrupt
    <3>1. /\ stale' = TRUE /\ pass' = 0 /\ result' \in {"failed", "interrupted"}
          /\ UNCHANGED <<table, runs, start, last>>
          /\ uid' = uid \/ \E u \in Users : uid' = [uid EXCEPT ![u] = NoId]
          /\ ugid' = ugid \/ \E u \in Users : ugid' = [ugid EXCEPT ![u] = NoId]
          /\ UNCHANGED <<gid, members>> \/ \E g \in Groups : AddOneGroup(g, NoId)
      BY <2>7, StopsStale
    <3>2. uid \in [Users -> Ids] /\ ugid \in [Users -> Ids] /\ gid \in [Groups -> Ids]
      BY DEF TypeInv
    <3>3. uid' \in [Users -> Ids] /\ ugid' \in [Users -> Ids]
      BY <3>1, <3>2, ClearedType
    <3>4. gid' \in [Groups -> Ids] /\ members' \in [Groups -> SUBSET Users]
      <4>1. CASE UNCHANGED <<gid, members>>
        BY <4>1 DEF TypeInv
      <4>2. ASSUME NEW g \in Groups, AddOneGroup(g, NoId)
            PROVE  gid' \in [Groups -> Ids] /\ members' \in [Groups -> SUBSET Users]
        <5>1. gid' = [gid EXCEPT ![g] = NoId] /\ members' = [members EXCEPT ![g] = {}]
          BY <4>2 DEF AddOneGroup
        <5> QED BY <3>2, <5>1, ClearedType DEF TypeInv
      <4> QED BY <3>1, <4>1, <4>2
    <3> QED BY <2>1, <3>1, <3>3, <3>4 DEF Cursor, TypeInv, Running
  <2> QED BY <1>1, <1>2, <2>2, <2>3, <2>4, <2>5, <2>6, <2>7, StepKinds
<1> QED BY <1>1, <1>2

\* The files keep their form, and a run is under way exactly while the result
\* says so.
THEOREM TypeCorrect == Spec => []TypeInv
<1>1. Init => TypeInv
  BY InitType
<1> QED BY <1>1, TypeInductive, PTL DEF Spec

-----------------------------------------------------------------------------
(* The invariant is kept by the passes over the groups.                      *)

\* Before the passes over the users nobody has been added.
LEMMA NobodyAdded ==
  ASSUME pass \in 0..3, NEW i
  PROVE  ~UserDone(i)
  BY DEF UserDone

LEMMA WrittenIsNamed ==
  ASSUME NEW g, Written(g)
  PROVE  Named(table, g)
  BY DEF Written, Named

LEMMA WriteGroupKeeps ==
  ASSUME IInv, TypeInv', NEW g \in Groups, NEW id \in Ids, WriteGroup(g, id)
  PROVE  IInv'
<1>1. /\ pass \in 1..3 /\ pass' = pass /\ id # NoId
      /\ gid' = [gid EXCEPT ![g] = id] /\ members' = [members EXCEPT ![g] = {}]
      /\ UNCHANGED <<uid, ugid, table, result, start, last, stale>>
      /\ Running /\ Running' /\ result = "running"
  BY DEF WriteGroup, AddOneGroup, history, IInv, TypeInv, Running
<1>2. \A h \in Groups : Written(h)' <=> Written(h) \/ h = g
  BY DEF WriteGroup
<1>3. \A i : ~UserDone(i) /\ ~UserDone(i)'
  BY <1>1 DEF UserDone
<1>4. \/ \E i \in DOMAIN table : table[i].group = g /\ table[i].gid = id
      \/ gid[g] # NoId /\ id = gid[g]
      \/ gid[g] = NoId /\ \A h \in Groups : gid[h] # id
  BY DEF WriteGroup
<1>5. gid \in [Groups -> Ids] /\ members \in [Groups -> SUBSET Users]
  BY DEF IInv, TypeInv
<1>6. UidsUnique'
  BY <1>1 DEF IInv, UidsUnique, NoTwice
<1>7. GidsUnique'
  <2> SUFFICES ASSUME ~stale, NEW h \in Groups, NEW k \in Groups,
                      gid'[h] = gid'[k], gid'[h] # NoId, h # k, ~Fixed(h), ~Fixed(k)
               PROVE  FALSE
    BY <1>1 DEF GidsUnique, Fixed
  <2>1. gid[h] = gid[k] /\ gid[h] # NoId => FALSE
    BY DEF IInv, GidsUnique
  <2>2. CASE h # g /\ k # g
    BY <1>1, <1>5, <2>1, <2>2
  <2>3. CASE h = g \/ k = g
    <3>1. ~ \E i \in DOMAIN table : table[i].group = g /\ table[i].gid = id
      BY <1>1, <2>3 DEF Fixed
    <3> QED BY <1>1, <1>4, <1>5, <2>1, <2>3, <3>1
  <2> QED BY <2>2, <2>3
<1>8. IdsKept'
  <2>1. \A u \in Users : start'.uid[u] # NoId => uid'[u] = start'.uid[u]
    BY <1>1 DEF IInv, IdsKept
  <2>2. ASSUME NEW h \in Groups, start.gid[h] # NoId, ~Fixed(h)
        PROVE  gid'[h] = start.gid[h]
    <3>1. gid[h] = start.gid[h]
      BY <1>1, <2>2 DEF IInv, IdsKept
    <3>2. CASE h # g
      BY <1>1, <1>5, <3>1, <3>2
    <3>3. CASE h = g
      <4>1. ~ \E i \in DOMAIN table : table[i].group = g /\ table[i].gid = id
        BY <1>1, <2>2, <3>3 DEF Fixed
      <4> QED BY <1>1, <1>4, <1>5, <2>2, <3>1, <3>3, <4>1
    <3> QED BY <3>2, <3>3
  <2> QED BY <1>1, <2>1, <2>2 DEF IdsKept, Fixed
<1>9. GroupsThere'
  BY <1>1, <1>2, <1>5 DEF IInv, GroupsThere
<1>10. RowsSettled'
  BY <1>3 DEF RowsSettled
<1>11. MembersAdded'
  <2> SUFFICES ASSUME NEW h \in Groups, NEW u \in Users, Written(h)'
               PROVE  u \notin members'[h]
    BY <1>3 DEF MembersAdded
  <2>1. CASE h = g
    BY <1>1, <1>5, <2>1
  <2>2. CASE h # g
    BY <1>1, <1>2, <1>3, <1>5, <2>2 DEF IInv, MembersAdded
  <2> QED BY <2>1, <2>2
<1>12. LastLineWins'
  BY <1>3 DEF LastLineWins
<1>13. LastServed'
  BY <1>1 DEF IInv, LastServed, Served, Settled, Named, After, Rejected
<1>14. FilesLasting' /\ RowsServed'
  BY <1>1 DEF FilesLasting, RowsServed
<1>15. Unchanging'
  <2> SUFFICES ASSUME Repeating'
               PROVE  Unchanging'
    BY DEF Unchanging
  <2>1. Repeating
    BY <1>1 DEF Repeating
  <2>2. /\ uid = last.files[1] /\ gid = last.files[3]
        /\ \A u \in Users : ugid[u] = last.files[2][u]
        /\ \A h \in Groups : ~Written(h) => members[h] = last.files[4][h]
    BY <1>3, <2>1 DEF IInv, Unchanging
  <2>3. Served(table, last.files)
    BY <2>1 DEF IInv, LastServed, Repeating
  <2>4. gid[g] = id
    <3>1. ASSUME NEW i \in DOMAIN table, table[i].group = g, table[i].gid = id
          PROVE  gid[g] = id
      BY <1>1, <2>2, <2>3, <3>1 DEF Served, Settled
    <3>2. gid[g] # NoId
      <4>1. Named(table, g)
        BY <1>1, <1>2 DEF Written, Named
      <4> QED BY <2>2, <2>3, <4>1 DEF Served
    <3> QED BY <1>4, <3>1, <3>2
  <2>5. gid' = gid
    BY <1>1, <1>5, <2>4
  <2>6. \A h \in Groups : ~Written(h)' => members'[h] = last.files[4][h]
    BY <1>1, <1>2, <1>5, <2>2
  <2> QED BY <1>1, <2>2, <2>5, <2>6 DEF Unchanging
<1> QED BY <1>6, <1>7, <1>8, <1>9, <1>10, <1>11, <1>12, <1>13, <1>14, <1>15 DEF IInv

LEMMA MoveOnKeeps ==
  ASSUME IInv, TypeInv', MoveOn
  PROVE  IInv'
<1>1. /\ Running /\ Running' /\ result = "running"
      /\ UNCHANGED <<uid, ugid, gid, members, table, result, start, last, stale>>
  BY DEF MoveOn, files, history, IInv, TypeInv, Running
<1>2. \A g \in Groups : Written(g)' <=> Written(g)
  BY DEF MoveOn
<1>3. \A i \in DOMAIN table : UserDone(i)' <=> UserDone(i)
  BY DEF MoveOn
<1>4. UidsUnique' /\ GidsUnique' /\ IdsKept'
  BY <1>1 DEF IInv, UidsUnique, NoTwice, GidsUnique, IdsKept, Fixed
<1>5. GroupsThere'
  BY <1>1, <1>2 DEF IInv, GroupsThere
<1>6. RowsSettled'
  BY <1>1, <1>3 DEF IInv, RowsSettled, Settled, Rejected
<1>7. MembersAdded'
  BY <1>1, <1>2, <1>3 DEF IInv, MembersAdded
<1>8. LastLineWins'
  BY <1>1, <1>3 DEF IInv, LastLineWins, LastOf, After
<1>9. LastServed'
  BY <1>1 DEF IInv, LastServed, Served, Settled, Named, After, Rejected
<1>10. FilesLasting' /\ RowsServed'
  BY <1>1 DEF FilesLasting, RowsServed
<1>11. Unchanging'
  BY <1>1, <1>2, <1>3 DEF IInv, Unchanging, Repeating
<1> QED BY <1>4, <1>5, <1>6, <1>7, <1>8, <1>9, <1>10, <1>11 DEF IInv

-----------------------------------------------------------------------------
(* The invariant is kept by the passes over the users.                       *)

\* A user that is added again keeps its uid, whichever way the row asks.
LEMMA UidStays ==
  ASSUME IInv, NEW r \in Row, NEW id \in Ids, AddUser(r, id), uid[r.user] # NoId
  PROVE  id = uid[r.user]
  BY DEF AddUser, CheckUserValidity

LEMMA AddUserKeeps ==
  ASSUME IInv, TypeInv', NEW r \in Row, NEW id \in Ids, AddUser(r, id)
  PROVE  IInv'
<1>1. /\ pass \in 4..5 /\ row \in DOMAIN table /\ r = table[row] /\ id # NoId
      /\ uid' = [uid EXCEPT ![r.user] = id]
      /\ ugid' = [ugid EXCEPT ![r.user] = gid[r.group]]
      /\ AddUserToGroups(r)
      /\ UNCHANGED <<gid, table, result, start, last, stale>>
      /\ Running /\ Running' /\ result = "running"
  BY DEF AddUser, history, IInv, TypeInv, Running
<1>2. \A i \in DOMAIN table : UserDone(i)' <=> UserDone(i) \/ i = row
  BY DEF AddUser
<1>3. \A i \in DOMAIN table : UserDone(i) => After(table, row, i)
  BY DEF AddUser
<1>4. \A g \in Groups : (Written(g) <=> Named(table, g)) /\ (Written(g)' <=> Written(g))
  BY DEF AddUser
<1>5. /\ uid \in [Users -> Ids] /\ ugid \in [Users -> Ids] /\ gid \in [Groups -> Ids]
      /\ members \in [Groups -> SUBSET Users]
  BY DEF IInv, TypeInv
<1>6. r.user \in Users /\ r.group \in Groups /\ r.groups \in Seq(Groups)
  BY DEF Row
<1>7. /\ r.user # Root /\ r.gid # 0 /\ r.uid # 0 /\ ~Rejected(r)
      /\ r.gid # NoId => /\ \A g \in Groups : gid[g] = r.gid => g = r.group
                         /\ gid[r.group] \in {NoId, r.gid}
      /\ r.uid # NoId => /\ id = r.uid
                         /\ \A u \in Users : uid[u] = r.uid => u = r.user
      /\ r.uid = NoId /\ uid[r.user] = NoId => \A u \in Users : uid[u] # id
  BY DEF AddUser, CheckUserValidity, GetGroups, GetUsernames
<1>8. \A u \in Users : uid[u] # NoId => uid'[u] = uid[u]
  BY <1>1, <1>5, UidStays
<1>9. UidsUnique'
  <2> SUFFICES ASSUME NEW u \in Users, NEW v \in Users, uid'[u] = uid'[v], uid'[u] # NoId, u # v
               PROVE  FALSE
    BY DEF UidsUnique, NoTwice
  <2>1. ~(uid[u] = uid[v] /\ uid[u] # NoId)
    BY DEF IInv, UidsUnique, NoTwice
  <2>2. \A w \in Users : uid[w] = id => w = r.user
    <3>1. CASE r.uid # NoId
      BY <1>7, <3>1
    <3>2. CASE r.uid = NoId /\ uid[r.user] = NoId
      BY <1>7, <3>2
    <3>3. CASE uid[r.user] # NoId
      BY <1>1, <1>6, <3>3, UidStays DEF IInv, UidsUnique, NoTwice
    <3> QED BY <3>1, <3>2, <3>3
  <2> QED BY <1>1, <1>5, <2>1, <2>2
<1>10. GidsUnique'
  BY <1>1 DEF IInv, GidsUnique, Fixed
<1>11. IdsKept'
  BY <1>1, <1>8 DEF IInv, IdsKept, Fixed
<1>12. GroupsThere'
  BY <1>1, <1>4 DEF IInv, GroupsThere
<1>13. RowsSettled'
  <2> SUFFICES ASSUME NEW i \in DOMAIN table, UserDone(i)'
               PROVE  Settled(table[i], uid', gid)
    BY <1>1 DEF RowsSettled, Settled, Rejected
  <2>0. \A u, v \in Users : uid'[u] = uid'[v] /\ uid'[u] # NoId => u = v
    BY <1>9 DEF UidsUnique, NoTwice
  <2>1. CASE UserDone(i)
    <3>1. Settled(table[i], uid, gid)
      BY <1>1, <2>1 DEF IInv, RowsSettled
    <3>2. table[i].user \in Users
      BY RowType DEF IInv, TypeInv
    <3>3. uid'[table[i].user] = uid[table[i].user] /\ uid[table[i].user] # NoId
      BY <1>8, <3>1, <3>2 DEF Settled
    <3>4. table[i].uid # NoId => \A u \in Users : uid'[u] = table[i].uid <=> u = table[i].user
      BY <2>0, <3>1, <3>2, <3>3 DEF Settled
    <3> QED BY <3>1, <3>3, <3>4 DEF Settled
  <2>2. CASE i = row
    <3>1. gid[r.group] # NoId
      <4>1. Written(r.group)
        BY <1>1, <1>4, <1>6 DEF Named
      <4> QED BY <1>1, <1>6, <4>1 DEF IInv, GroupsThere
    <3>2. r.gid # NoId => \A g \in Groups : gid[g] = r.gid <=> g = r.group
      BY <1>6, <1>7, <3>1
    <3>3. uid'[r.user] = id
      BY <1>1, <1>5, <1>6
    <3>4. r.uid # NoId => \A u \in Users : uid'[u] = r.uid <=> u = r.user
      BY <1>1, <1>6, <1>7, <2>0, <3>3
    <3> QED BY <1>1, <1>7, <2>2, <3>1, <3>2, <3>3, <3>4 DEF Settled
  <2> QED BY <1>2, <2>1, <2>2
<1>14. MembersAdded'
  <2> SUFFICES ASSUME NEW g \in Groups, NEW u \in Users, Written(g)
               PROVE  u \in members'[g] <=>
                        \E i \in DOMAIN table : /\ UserDone(i)' /\ table[i].user = u
                                                /\ \E j \in DOMAIN table[i].groups : table[i].groups[j] = g
    BY <1>1, <1>4 DEF MembersAdded
  <2>1. u \in members[g] <=>
          \E i \in DOMAIN table : /\ UserDone(i) /\ table[i].user = u
                                  /\ \E j \in DOMAIN table[i].groups : table[i].groups[j] = g
    BY <1>1 DEF IInv, MembersAdded
  <2>2. u \in members'[g] <=> \/ u \in members[g]
                              \/ u = r.user /\ \E j \in DOMAIN r.groups : r.groups[j] = g
    BY <1>1, <1>5 DEF AddUserToGroups
  <2> QED BY <1>1, <1>2, <2>1, <2>2
<1>15. LastLineWins'
  <2> SUFFICES ASSUME NEW u \in Users, NEW l \in DOMAIN table, UserDone(l)', table[l].user = u
               PROVE  \E k \in DOMAIN table : LastOf(k, u)' /\ ugid'[u] = gid[table[k].group]
    BY <1>1 DEF LastLineWins
  <2>1. CASE u = r.user
    <3>1. PICK k \in DOMAIN table : k = row
      BY <1>1
    <3>2. LastOf(k, u)'
      BY <1>1, <1>2, <1>3, <2>1, <3>1 DEF LastOf, After
    <3>3. ugid'[u] = gid[table[k].group]
      BY <1>1, <1>5, <1>6, <2>1, <3>1
    <3> QED BY <3>2, <3>3
  <2>2. CASE u # r.user
    <3>1. UserDone(l)
      BY <1>1, <1>2, <2>2
    <3>2. PICK k \in DOMAIN table : LastOf(k, u) /\ ugid[u] = gid[table[k].group]
      BY <1>1, <3>1 DEF IInv, LastLineWins
    <3>3. LastOf(k, u)'
      BY <1>1, <1>2, <2>2, <3>2 DEF LastOf, After
    <3>4. ugid'[u] = ugid[u]
      BY <1>1, <1>5, <2>2
    <3> QED BY <3>2, <3>3, <3>4
  <2> QED BY <2>1, <2>2
<1>16. LastServed'
  BY <1>1 DEF IInv, LastServed, Served, Settled, Named, After, Rejected
<1>17. FilesLasting' /\ RowsServed'
  BY <1>1 DEF FilesLasting, RowsServed
<1>18. Unchanging'
  <2> SUFFICES ASSUME Repeating'
               PROVE  Unchanging'
    BY DEF Unchanging
  <2>1. Repeating
    BY <1>1 DEF Repeating
  <2>2. /\ uid = last.files[1] /\ gid = last.files[3]
        /\ \A u \in Users : ~(\E i \in DOMAIN table : UserDone(i) /\ table[i].user = u)
                              => ugid[u] = last.files[2][u]
        /\ \A g \in Groups : ~Written(g) => members[g] = last.files[4][g]
    BY <2>1 DEF IInv, Unchanging
  <2>3. Settled(r, last.files[1], last.files[3])
    BY <1>1, <2>1 DEF IInv, LastServed, Repeating, Served
  <2>4. uid' = uid
    <3>1. uid[r.user] # NoId
      BY <2>2, <2>3 DEF Settled
    <3>2. id = uid[r.user]
      BY <3>1, UidStays
    <3> QED BY <1>1, <1>5, <3>2
  <2>5. ASSUME NEW u \in Users, ~(\E i \in DOMAIN table : UserDone(i)' /\ table[i].user = u)
        PROVE  ugid'[u] = last.files[2][u]
    BY <1>1, <1>2, <1>5, <2>2, <2>5
  <2>6. ASSUME NEW g \in Groups, ~Written(g)
        PROVE  members'[g] = last.files[4][g]
    <3>1. ~ \E j \in DOMAIN r.groups : r.groups[j] = g
      BY <1>1, <1>4, <2>6 DEF Named
    <3>2. members'[g] = members[g]
      BY <1>1, <1>5, <3>1 DEF AddUserToGroups
    <3> QED BY <2>2, <2>6, <3>2
  <2> QED BY <1>1, <1>4, <2>2, <2>4, <2>5, <2>6 DEF Unchanging
<1> QED BY <1>9, <1>10, <1>11, <1>12, <1>13, <1>14, <1>15, <1>16, <1>17, <1>18 DEF IInv

-----------------------------------------------------------------------------
(* The invariant at the beginning and the end of a run.                      *)

LEMMA StartKeeps ==
  ASSUME IInv, TypeInv', Start
  PROVE  IInv'
<1>1. /\ ~Running /\ Running' /\ pass' = 1 /\ row' = 1 /\ result' = "running"
      /\ start' = [uid |-> uid, gid |-> gid]
      /\ UNCHANGED <<uid, ugid, gid, members, last, stale>>
  BY DEF Start, files, Running
<1>2. \A i \in DOMAIN table' : ~UserDone(i)'
  BY <1>1 DEF UserDone
<1>3. \A g : ~Written(g)'
  <2>1. \A i \in DOMAIN table' : ~MainDone(i)'
    BY <1>1 DEF MainDone, TypeInv
  <2>2. \A i, j : ~ExtraDone(i, j)'
    BY <1>1 DEF ExtraDone
  <2> QED BY <2>1, <2>2 DEF Written
<1>4. UidsUnique'
  BY <1>1 DEF IInv, UidsUnique, NoTwice
<1>5. GidsUnique'
  BY <1>1 DEF IInv, GidsUnique
<1>6. IdsKept'
  BY <1>1 DEF IdsKept
<1>7. GroupsThere' /\ RowsSettled' /\ MembersAdded' /\ LastLineWins'
  BY <1>2, <1>3 DEF GroupsThere, RowsSettled, MembersAdded, LastLineWins
<1>8. LastServed'
  BY <1>1 DEF IInv, LastServed, Served, Settled, Named, After, Rejected
<1>9. FilesLasting' /\ RowsServed'
  BY <1>1 DEF FilesLasting, RowsServed
<1>10. Unchanging'
  <2> SUFFICES ASSUME ~stale
               PROVE  Unchanging'
    BY <1>1 DEF Unchanging, Repeating
  <2>1. files = last.files
    BY <1>1 DEF IInv, FilesLasting
  <2>2. uid = last.files[1] /\ ugid = last.files[2] /\ gid = last.files[3] /\ members = last.files[4]
    BY <2>1 DEF files
  <2> QED BY <1>1, <2>2 DEF Unchanging
<1> QED BY <1>4, <1>5, <1>6, <1>7, <1>8, <1>9, <1>10 DEF IInv

LEMMA FinishServes ==
  ASSUME IInv, Finish
  PROVE  Served(table, files)
<1>1. pass = 5 /\ row > Len(table) /\ Running
  BY PassNames DEF Finish, Running
<1>2. \A i \in DOMAIN table : UserDone(i)
  BY <1>1 DEF UserDone, IInv, TypeInv
<1>3. \A g : Written(g) <=> Named(table, g)
  BY <1>1, AllWritten DEF IInv
<1>4. files[1] = uid /\ files[2] = ugid /\ files[3] = gid /\ files[4] = members
  BY DEF files
<1>5. \A i \in DOMAIN table : Settled(table[i], uid, gid)
  BY <1>1, <1>2 DEF IInv, RowsSettled
<1>6. \A g \in Groups : Named(table, g) => gid[g] # NoId
  BY <1>1, <1>3 DEF IInv, GroupsThere
<1>7. \A g \in Groups, u \in Users :
        Named(table, g) => (u \in members[g] <=>
          \E i \in DOMAIN table : /\ table[i].user = u
                                  /\ \E j \in DOMAIN table[i].groups : table[i].groups[j] = g)
  BY <1>1, <1>2, <1>3 DEF IInv, MembersAdded
<1>8. ASSUME NEW u \in Users, \E i \in DOMAIN table : table[i].user = u
      PROVE  \E k \in DOMAIN table : /\ table[k].user = u /\ ugid[u] = gid[table[k].group]
                                     /\ \A i \in DOMAIN table : table[i].user = u => i = k \/ After(table, k, i)
  BY <1>1, <1>2, <1>8 DEF IInv, LastLineWins, LastOf
<1> QED BY <1>4, <1>5, <1>6, <1>7, <1>8 DEF Served

LEMMA FinishKeeps ==
  ASSUME IInv, TypeInv', Finish
  PROVE  IInv'
<1>1. /\ Running /\ ~Running' /\ result = "running" /\ result' = "ok"
      /\ last' = [table |-> table, files |-> files]
      /\ files' = files
      /\ UNCHANGED <<uid, ugid, gid, members, table, start, stale>>
  BY PassNames DEF Finish, files, Running, IInv, TypeInv
<1>2. Served(table, files)
  BY FinishServes
<1>3. UidsUnique' /\ IdsKept'
  BY <1>1 DEF IInv, UidsUnique, NoTwice, IdsKept, Fixed
<1>4. GidsUnique'
  <2> SUFFICES ASSUME ~stale, NEW g \in Groups, NEW h \in Groups,
                      gid[g] = gid[h], gid[g] # NoId
               PROVE  g = h
    BY <1>1 DEF GidsUnique
  <2>1. \A i \in DOMAIN table : Settled(table[i], uid, gid)
    BY <1>2 DEF Served, files
  <2>2. ASSUME Fixed(g) \/ Fixed(h)
        PROVE  g = h
    BY <2>1, <2>2 DEF Fixed, Settled
  <2> QED BY <2>2 DEF IInv, GidsUnique
<1>5. GroupsThere' /\ RowsSettled' /\ MembersAdded' /\ LastLineWins' /\ Unchanging'
  BY <1>1 DEF GroupsThere, RowsSettled, MembersAdded, LastLineWins, Unchanging, Repeating
<1>6. Served(table, files)'
  BY <1>1, <1>2 DEF Served, Settled, Named, After, Rejected
<1>7. LastServed'
  BY <1>1, <1>2, <1>6 DEF LastServed, Served, Settled, Named, After, Rejected
<1>8. FilesLasting' /\ RowsServed'
  BY <1>1, <1>6 DEF FilesLasting, RowsServed
<1> QED BY <1>3, <1>4, <1>5, <1>7, <1>8 DEF IInv

LEMMA StopKeeps ==
  ASSUME IInv, TypeInv', GroupsFull \/ UserInvalid \/ UserRejected \/ Interrupt
  PROVE  IInv'
<1>1. /\ stale' = TRUE /\ ~Running' /\ result' \in {"failed", "interrupted"}
      /\ UNCHANGED <<table, start, last>>
      /\ uid' = uid \/ \E u \in Users : uid' = [uid EXCEPT ![u] = NoId]
  BY StopsStale DEF IInv, Running
<1>2. UidsUnique'
  BY <1>1 DEF IInv, UidsUnique, NoTwice, TypeInv
<1>3. LastServed'
  BY <1>1 DEF IInv, LastServed, Served, Settled, Named, After, Rejected
<1>4. /\ GidsUnique' /\ IdsKept' /\ GroupsThere' /\ RowsSettled' /\ MembersAdded' /\ LastLineWins'
      /\ FilesLasting' /\ RowsServed' /\ Unchanging'
  BY <1>1 DEF GidsUnique, IdsKept, GroupsThere, RowsSettled, MembersAdded, LastLineWins,
              FilesLasting, RowsServed, Unchanging, Repeating
<1> QED BY <1>2, <1>3, <1>4 DEF IInv

LEMMA InitInv ==
  ASSUME Init
  PROVE  IInv
<1>1. /\ ~Running /\ result = "none" /\ uid = SkelUid /\ gid = SkelGid /\ table = <<>>
      /\ last = [table |-> <<>>, files |-> files]
  BY DEF Init, Running
<1>2. UidsUnique /\ GidsUnique
  BY <1>1 DEF UidsUnique, GidsUnique, NoTwice
<1>3. /\ IdsKept /\ GroupsThere /\ RowsSettled /\ MembersAdded /\ LastLineWins
      /\ LastServed /\ FilesLasting /\ RowsServed /\ Unchanging
  BY <1>1 DEF IdsKept, GroupsThere, RowsSettled, MembersAdded, LastLineWins, LastServed,
              FilesLasting, RowsServed, Unchanging, Repeating
<1> QED BY <1>2, <1>3, InitType DEF IInv

LEMMA Inductive == IInv /\ [Next]_vars => IInv'
<1> SUFFICES ASSUME IInv, [Next]_vars PROVE IInv'
  OBVIOUS
<1>1. TypeInv'
  BY TypeInductive DEF IInv
<1>2. CASE UNCHANGED vars
  <2>1. /\ UNCHANGED <<uid, ugid, gid, members, table, pass, row, extra, result, runs, start, last, stale>>
        /\ files' = files
    BY <1>2 DEF vars, files, cursor, history
  <2>2. UidsUnique' /\ GidsUnique' /\ IdsKept'
    BY <2>1 DEF IInv, UidsUnique, GidsUnique, IdsKept, NoTwice, Fixed, Running
  <2>3. \A g : Written(g)' <=> Written(g)
    BY <2>1 DEF Written, MainDone, ExtraDone
  <2>4. \A i : UserDone(i)' <=> UserDone(i)
    BY <2>1 DEF UserDone
  <2>5. GroupsThere' /\ RowsSettled'
    BY <2>1, <2>3, <2>4 DEF IInv, GroupsThere, RowsSettled, Settled, Rejected, Running
  <2>6. MembersAdded'
    BY <2>1, <2>3, <2>4 DEF IInv, MembersAdded, Running
  <2>7. LastLineWins'
    BY <2>1, <2>4 DEF IInv, LastLineWins, LastOf, After, Running
  <2>8. LastServed' /\ RowsServed'
    BY <2>1 DEF IInv, LastServed, RowsServed, Served, Settled, Named, After, Rejected
  <2>9. FilesLasting' /\ Unchanging'
    BY <2>1, <2>3, <2>4 DEF IInv, FilesLasting, Unchanging, Repeating, Running
  <2> QED BY <1>1, <2>2, <2>5, <2>6, <2>7, <2>8, <2>9 DEF IInv
<1>3. CASE \E g \in Groups, id \in Ids : WriteGroup(g, id)
  BY <1>1, <1>3, WriteGroupKeeps
<1>4. CASE MoveOn
  BY <1>1, <1>4, MoveOnKeeps
<1>5. CASE \E r \in Row, id \in Ids : AddUser(r, id)
  BY <1>1, <1>5, AddUserKeeps
<1>6. CASE Start
  BY <1>1, <1>6, StartKeeps
<1>7. CASE Finish
  BY <1>1, <1>7, FinishKeeps
<1>8. CASE GroupsFull \/ UserInvalid \/ UserRejected \/ Interrupt
  BY <1>1, <1>8, StopKeeps
<1> QED BY <1>2, <1>3, <1>4, <1>5, <1>6, <1>7, <1>8, StepKinds DEF IInv

LEMMA Invariant == Spec => []IInv
  BY InitInv, Inductive, PTL DEF Spec

-----------------------------------------------------------------------------
(* The theorems.                                                             *)

\* After a successful run no id belongs to two names, if no run was cut short:
\* check_user_validity sees, in the passes over the users, every gid that two
\* groups could share.
THEOREM IdsAreUnique == Spec => []IdsUnique
<1>1. IInv => IdsUnique
  BY DEF IInv, UidsUnique, GidsUnique, IdsUnique, NoTwice, TypeInv
<1> QED BY <1>1, Invariant, PTL

\* After a successful run every row of the table has the ids it asked for and
\* its user is in all its groups, however the other rows overlap with it.
THEOREM RowsAreHonoured == Spec => []RowsHonoured
<1>1. IInv => RowsHonoured
  <2> SUFFICES ASSUME IInv, result = "ok", NEW k \in DOMAIN table
               PROVE  /\ IF table[k].uid = NoId THEN uid[table[k].user] # NoId
                         ELSE uid[table[k].user] = table[k].uid
                      /\ IF table[k].gid = NoId THEN gid[table[k].group] # NoId
                         ELSE gid[table[k].group] = table[k].gid
                      /\ \A j \in DOMAIN table[k].groups : table[k].user \in members[table[k].groups[j]]
    BY DEF RowsHonoured, TableRows
  <2>1. Served(table, files)
    BY DEF IInv, RowsServed
  <2>2. /\ table[k].user \in Users /\ table[k].group \in Groups
        /\ \A j \in DOMAIN table[k].groups : table[k].groups[j] \in Groups
    BY RowType DEF IInv, TypeInv
  <2>3. Settled(table[k], uid, gid)
    BY <2>1 DEF Served, files
  <2>4. ASSUME NEW j \in DOMAIN table[k].groups
        PROVE  table[k].user \in members[table[k].groups[j]]
    <3>1. Named(table, table[k].groups[j])
      BY DEF Named
    <3> QED BY <2>1, <2>2, <3>1 DEF Served, files
  <2> QED BY <2>2, <2>3, <2>4 DEF Settled
<1> QED BY <1>1, Invariant, PTL

\* A successful run keeps the uid of every user and the gid of every group
\* that the table does not give another one.
THEOREM IdsAreStable == Spec => []StableIds
<1>1. IInv => StableIds
  BY DEF IInv, IdsKept, StableIds, TableRows, Fixed
<1> QED BY <1>1, Invariant, PTL

\* A run that repeats the last one finds room for every group and accepts
\* every row.
LEMMA RepeatedRunGoesOn ==
  ASSUME IInv, Repeating
  PROVE  ~GroupsFull /\ ~UserInvalid /\ ~UserRejected
<1>1. /\ uid = last.files[1] /\ gid = last.files[3] /\ Running
      /\ Served(table, last.files)
  BY DEF IInv, Unchanging, Repeating, LastServed
<1>2. \A i \in DOMAIN table : Settled(table[i], uid, gid)
  BY <1>1 DEF Served
<1>3. \A g \in Groups : Named(table, g) => gid[g] # NoId /\ GenerateGid(g) # {}
  BY <1>1 DEF Served, GenerateGid
<1>4. ASSUME GroupsFull PROVE FALSE
  <2>1. CASE AtRow("auto_gids") /\ GenerateGid(Current.group) = {}
    <3>1. row \in DOMAIN table
      BY <2>1, PassAt DEF IInv
    <3>2. table[row].group \in Groups /\ Named(table, table[row].group)
      BY <3>1, RowType DEF Named, IInv, TypeInv
    <3> QED BY <1>3, <2>1, <3>2 DEF Current
  <2>2. CASE AtRow("extra_groups") /\ extra <= Len(Current.groups) /\ GenerateGid(Current.groups[extra]) = {}
    <3>1. row \in DOMAIN table
      BY <2>2, PassAt DEF IInv
    <3>2. table[row].groups \in Seq(Groups)
      BY <3>1, RowType DEF IInv, TypeInv
    <3>3. extra \in DOMAIN table[row].groups /\ table[row].groups[extra] \in Groups
      BY <2>2, <3>2 DEF Current, IInv, TypeInv
    <3>4. Named(table, table[row].groups[extra])
      BY <3>1, <3>3 DEF Named
    <3> QED BY <1>3, <2>2, <3>3, <3>4 DEF Current
  <2> QED BY <1>4, <2>1, <2>2 DEF GroupsFull
<1>5. ASSUME AtUser
      PROVE  CheckUserValidity(Current) /\ UidChoices(Current) # {} /\ ~Rejected(Current)
  <2>1. row \in DOMAIN table
    BY <1>5, AtUserRow DEF IInv
  <2> DEFINE r == table[row]
  <2>2. Settled(r, uid, gid) /\ r.user \in Users /\ r.group \in Groups
    BY <1>2, <2>1, RowType DEF IInv, TypeInv
  <2>3. CheckUserValidity(r)
    BY <2>2 DEF Settled, CheckUserValidity, GetUgid, GetGroups, GetUsernames
  <2>4. UidChoices(r) # {}
    BY <2>2 DEF Settled, UidChoices, GenerateUid
  <2> QED BY <2>2, <2>3, <2>4 DEF Current, Settled
<1> QED BY <1>4, <1>5 DEF UserInvalid, UserRejected

\* When it ends it has written the files it found.
LEMMA RepeatedRunIsVain ==
  ASSUME IInv, Repeating, Finish
  PROVE  files' = last.files
<1>1. Served(table, files) /\ Served(table, last.files)
  BY FinishServes DEF IInv, Repeating, LastServed
<1> DEFINE F == last.files
<1>2. F = <<F[1], F[2], F[3], F[4]>> /\ F[2] \in [Users -> Ids] /\ F[4] \in [Groups -> SUBSET Users]
  BY DEF IInv, TypeInv, FileTypes
<1>3. uid = F[1] /\ gid = F[3]
  BY DEF IInv, Unchanging
<1>4. files[1] = uid /\ files[2] = ugid /\ files[3] = gid /\ files[4] = members
  BY DEF files
<1>5. pass = 5 /\ row > Len(table)
  BY PassNames DEF Finish
<1>6. ASSUME NEW u \in Users
      PROVE  ugid[u] = F[2][u]
  <2>1. CASE \E i \in DOMAIN table : table[i].user = u
    <3>1. PICK k \in DOMAIN table : /\ table[k].user = u /\ files[2][u] = files[3][table[k].group]
                                    /\ \A i \in DOMAIN table : table[i].user = u => i = k \/ After(table, k, i)
      BY <1>1, <2>1 DEF Served
    <3>2. PICK l \in DOMAIN table : /\ table[l].user = u /\ F[2][u] = F[3][table[l].group]
                                    /\ \A i \in DOMAIN table : table[i].user = u => i = l \/ After(table, l, i)
      BY <1>1, <2>1 DEF Served
    <3>3. k \in Int /\ l \in Int
      BY DEF IInv, TypeInv
    <3>4. k = l
      BY <3>1, <3>2, <3>3 DEF After
    <3> QED BY <1>3, <1>4, <3>1, <3>2, <3>4
  <2>2. CASE ~(\E i \in DOMAIN table : table[i].user = u)
    BY <2>2 DEF IInv, Unchanging
  <2> QED BY <2>1, <2>2
<1>7. ASSUME NEW g \in Groups
      PROVE  members[g] = F[4][g]
  <2>1. CASE Named(table, g)
    <3> DEFINE Joins(u) == \E i \in DOMAIN table : /\ table[i].user = u
                                                  /\ \E j \in DOMAIN table[i].groups : table[i].groups[j] = g
    <3>0. /\ \A u \in Users : u \in files[4][g] <=> Joins(u)
          /\ \A u \in Users : u \in F[4][g] <=> Joins(u)
      BY <1>1, <2>1 DEF Served
    <3>1. \A u \in Users : u \in members[g] <=> u \in F[4][g]
      <4> HIDE DEF Joins
      <4> QED BY <1>4, <3>0
    <3>2. members[g] \subseteq Users /\ F[4][g] \subseteq Users
      BY <1>2 DEF IInv, TypeInv
    <3> QED BY <3>1, <3>2
  <2>2. CASE ~Named(table, g)
    BY <2>2, WrittenIsNamed DEF IInv, Unchanging
  <2> QED BY <2>1, <2>2
<1>8. ugid = F[2] /\ members = F[4]
  BY <1>2, <1>6, <1>7 DEF IInv, TypeInv
<1>9. files' = files
  BY DEF Finish
<1> QED BY <1>2, <1>3, <1>8, <1>9 DEF files

\* All images get the same users and groups: a run with the table of the last
\* successful one cannot fail, and leaves the files as it found them.
THEOREM RunsAreRepeatable == Spec => Repeatable
<1>1. IInv /\ [Next]_vars =>
        [~stale /\ last.table = table /\ last.table # <<>> =>
           /\ result' # "failed"
           /\ result = "running" /\ result' = "ok" => files' = last.files]_vars
  <2> SUFFICES ASSUME IInv, Next, ~stale, last.table = table, table # <<>>
               PROVE  /\ result' # "failed"
                      /\ result = "running" /\ result' = "ok" => files' = last.files
    OBVIOUS
  <2>1. result # "failed" /\ (result = "running" <=> Running) /\ TypeInv
    BY DEF IInv, TypeInv
  <2>2. ASSUME NEW g \in Groups, NEW id \in Ids, WriteGroup(g, id)
        PROVE  result' = result
    BY <2>2 DEF WriteGroup
  <2>3. CASE MoveOn
    BY <2>1, <2>3 DEF MoveOn
  <2>4. ASSUME NEW r \in Row, NEW id \in Ids, AddUser(r, id)
        PROVE  result' = result
    BY <2>4 DEF AddUser
  <2>5. CASE Start
    BY <2>5 DEF Start
  <2>6. CASE Finish
    <3>1. Running /\ result' = "ok"
      BY <2>6, PassNames DEF Finish, Running
    <3> QED BY <2>6, <3>1, RepeatedRunIsVain DEF Repeating
  <2>7. CASE Interrupt
    BY <2>7 DEF Interrupt, Stop
  <2>8. CASE GroupsFull \/ UserInvalid \/ UserRejected
    <3>1. Running
      BY <2>8 DEF GroupsFull, UserInvalid, UserRejected, AtUser, AtRow
    <3> QED BY <2>8, <3>1, RepeatedRunGoesOn DEF Repeating
  <2>9. CASE UNCHANGED vars
    BY <2>1, <2>9 DEF vars
  <2> QED BY <2>1, <2>2, <2>3, <2>4, <2>5, <2>6, <2>7, <2>8, <2>9, StepKinds
<1> QED BY <1>1, Invariant, PTL DEF Spec, Repeatable
=============================================================================
