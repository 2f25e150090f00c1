------------------------------- MODULE MkUsers -------------------------------
(***************************************************************************)
(* support/scripts/mkusers: the users and groups that packages ask for are  *)
(* merged into etc/passwd and etc/group of the target directory.            *)
(*                                                                         *)
(* The script runs once for every root filesystem image (fs/common.mk:80),  *)
(* each time on the files that the run before left, perhaps with another    *)
(* table because the configuration has changed.  It reads the table five    *)
(* times: groups with a given gid, groups with an automatic gid, additional *)
(* groups, users with a given uid, users with an automatic uid.             *)
(***************************************************************************)
EXTENDS Integers, Sequences

CONSTANTS
  Users, Groups,     \* the names that occur
  Root,              \* the user name "root"
  MinId, MaxId,      \* MIN_UID = MIN_GID, MAX_UID = MAX_GID
  Tables,            \* users tables: sequences of rows
  SkelUid, SkelUgid, \* etc/passwd of the skeleton: uid and gid of its users
  SkelGid,           \* etc/group of the skeleton
  SkelMembers,
  MaxRuns            \* bound on the number of runs

\* An id of -1 is "automatic" in a table and "no such line" in the files.
NoId == -1
Ids  == Nat \union {NoId}

\* One line of the table.  Of the password only counts whether it is in clear
\* ("=..." or "!=..."), of the home whether it is "-", "/" or another path;
\* groups is the sequence of additional groups.
Row == [user : Users, uid : Ids, group : Groups, gid : Ids,
        clear : BOOLEAN, home : {"-", "/", "path"}, groups : Seq(Groups)]

\* Mutant: the additional groups are created after the users.
PassesLate == <<"fixed_gids", "auto_gids", "fixed_uids", "auto_uids", "extra_groups">>

Passes == <<"fixed_gids", "auto_gids", "extra_groups", "fixed_uids", "auto_uids">>

ASSUME TablesAssumption ==
  /\ Tables \subseteq Seq(Row)
  /\ Root \in Users
  /\ MinId \in Nat \ {0} /\ MaxId \in Nat
  /\ MaxRuns \in Nat

\* Names and ids are unique in the skeleton.
ASSUME SkeletonAssumption ==
  /\ SkelUid \in [Users -> Ids] /\ SkelUgid \in [Users -> Ids]
  /\ SkelGid \in [Groups -> Ids] /\ SkelMembers \in [Groups -> SUBSET Users]
  /\ \A u, v \in Users : SkelUid[u] = SkelUid[v] /\ SkelUid[u] # NoId => u = v
  /\ \A g, h \in Groups : SkelGid[g] = SkelGid[h] /\ SkelGid[g] # NoId => g = h

VARIABLES
  uid, ugid,  \* etc/passwd: uid and main gid of each user
  gid,        \* etc/group: gid of each group
  members,    \* etc/group: members of each group
  table,      \* the users table of this run
  pass,       \* the pass this run is in; 0: no run
  row,        \* the line of the table it has reached
  extra,      \* the additional group of that line it has reached
  result,     \* how the last run ended
  runs,
  start,      \* history: the ids in the files when this run began
  last,       \* history: table and files of the last successful run
  stale       \* history: some run failed or was interrupted

files   == <<uid, ugid, gid, members>>
cursor  == <<pass, row, extra>>
history == <<start, last, stale>>
vars    == <<files, table, cursor, result, runs, history>>

-----------------------------------------------------------------------------
(* Looking ids up, generating them *)

\* get_ugid has awk split at ":i", so that it never finds a user (line 66).
GetUgid(u) == NoId

GetGroups(id)    == {g \in Groups : gid[g] = id}
GetUsernames(id) == {u \in Users : uid[u] = id}

\* Mutant: the gid that the group has already is not looked up.
GenerateGidAnew(g) ==
  {i \in MinId..MaxId : /\ GetGroups(i) = {}
                        /\ \A j \in MinId..(i - 1) : GetGroups(j) # {}}

\* The ids that generate_gid may answer: the one the group has, else the
\* lowest free one; none when the range is used up.
GenerateGid(g) ==
  IF gid[g] # NoId THEN {gid[g]}
  ELSE {i \in MinId..MaxId : /\ GetGroups(i) = {}
                             /\ \A j \in MinId..(i - 1) : GetGroups(j) # {}}

GenerateUid(u) ==
  IF uid[u] # NoId THEN {uid[u]}
  ELSE {i \in MinId..MaxId : /\ GetUsernames(i) = {}
                             /\ \A j \in MinId..(i - 1) : GetUsernames(j) # {}}

\* Mutant: the gid may belong to another group.
CheckIgnoresGid(r) ==
  /\ r.user # Root
  /\ r.gid # 0
  /\ r.gid # NoId => gid[r.group] \in {NoId, r.gid}
  /\ r.uid # 0
  /\ r.uid # NoId => /\ GetUsernames(r.uid) \subseteq {r.user}
                     /\ uid[r.user] \in {NoId, r.uid}

\* Mutant: a user that has the uid already is taken for another one.
CheckRefusesSame(r) ==
  /\ r.user # Root
  /\ r.gid # 0
  /\ r.gid # NoId => GetGroups(r.gid) \subseteq {r.group} /\ gid[r.group] \in {NoId, r.gid}
  /\ r.uid # 0
  /\ r.uid # NoId => GetUsernames(r.uid) = {}

\* Where an id is given, nobody else may have it and the name may have no
\* other one.
CheckUserValidity(r) ==
  /\ r.user # Root
  /\ r.gid # 0
  /\ r.gid # NoId => /\ GetGroups(r.gid) \subseteq {r.group}
                     /\ gid[r.group] \in {NoId, r.gid}
                     /\ GetUgid(r.user) \in {NoId, r.gid}
  /\ r.uid # 0
  /\ r.uid # NoId => /\ GetUsernames(r.uid) \subseteq {r.user}
                     /\ uid[r.user] \in {NoId, r.uid}
  /\ GetUgid(r.user) # NoId => GetGroups(GetUgid(r.user)) \subseteq {r.group}

\* The group's line is replaced by one without members.
AddOneGroup(g, id) == /\ gid' = [gid EXCEPT ![g] = id]
                      /\ members' = [members EXCEPT ![g] = {}]

-----------------------------------------------------------------------------
(* The five passes *)

Running == pass # 0
Current == table[row]
AtRow(p) == Running /\ Passes[pass] = p /\ row <= Len(table)

Advance == row' = row + 1 /\ extra' = 1 /\ UNCHANGED pass

Stop(how) == /\ pass' = 0 /\ row' = 1 /\ extra' = 1
             /\ result' = how
             /\ stale' = TRUE
             /\ UNCHANGED <<table, runs, start, last>>

\* The rows that a pass leaves alone.
Skipped(p, r) == CASE p = "fixed_gids" -> r.gid = NoId
                   [] p = "auto_gids"  -> r.gid # NoId
                   [] p = "fixed_uids" -> r.uid = NoId
                   [] p = "auto_uids"  -> r.uid # NoId
                   [] OTHER            -> FALSE

Start ==
  /\ ~Running
  /\ runs < MaxRuns
  /\ table' \in Tables
  /\ pass' = 1 /\ row' = 1 /\ extra' = 1
  /\ runs' = runs + 1
  /\ start' = [uid |-> uid, gid |-> gid]
  /\ result' = "running"
  /\ UNCHANGED <<files, last, stale>>

SkipRow ==
  /\ \E p \in {"fixed_gids", "auto_gids", "fixed_uids", "auto_uids"} :
       AtRow(p) /\ Skipped(p, Current)
  /\ Advance
  /\ UNCHANGED <<files, table, result, runs, history>>

FixedGid ==
  /\ AtRow("fixed_gids") /\ ~Skipped("fixed_gids", Current)
  /\ AddOneGroup(Current.group, Current.gid)
  /\ Advance
  /\ UNCHANGED <<uid, ugid, table, result, runs, history>>

AutoGid ==
  /\ AtRow("auto_gids") /\ ~Skipped("auto_gids", Current)
  /\ \E id \in GenerateGid(Current.group) : AddOneGroup(Current.group, id)
  /\ Advance
  /\ UNCHANGED <<uid, ugid, table, result, runs, history>>

ExtraGroup ==
  /\ AtRow("extra_groups")
  /\ extra <= Len(Current.groups)
  /\ \E id \in GenerateGid(Current.groups[extra]) : AddOneGroup(Current.groups[extra], id)
  /\ extra' = extra + 1
  /\ UNCHANGED <<uid, ugid, table, pass, row, result, runs, history>>

ExtraGroupsDone ==
  /\ AtRow("extra_groups")
  /\ extra > Len(Current.groups)
  /\ Advance
  /\ UNCHANGED <<files, table, result, runs, history>>

AtUser == \E p \in {"fixed_uids", "auto_uids"} : AtRow(p) /\ ~Skipped(p, Current)

UidChoices(r) == IF r.uid = NoId THEN GenerateUid(r.user) ELSE {r.uid}

\* The user's line is removed before its home and password are looked at;
\* encode_passwd, the command for a password in clear, does not exist.
Rejected(r) == r.home = "/" \/ r.clear

AddUserToGroups(r) ==
  members' = [g \in Groups |-> IF \E i \in DOMAIN r.groups : r.groups[i] = g
                               THEN members[g] \union {r.user} ELSE members[g]]

AddOneUser ==
  /\ AtUser
  /\ CheckUserValidity(Current)
  /\ ~Rejected(Current)
  /\ \E id \in UidChoices(Current) : uid' = [uid EXCEPT ![Current.user] = id]
  /\ ugid' = [ugid EXCEPT ![Current.user] = gid[Current.group]]
  /\ AddUserToGroups(Current)
  /\ Advance
  /\ UNCHANGED <<gid, table, result, runs, history>>

NextPass ==
  /\ Running /\ pass < Len(Passes)
  /\ row > Len(table)
  /\ pass' = pass + 1 /\ row' = 1 /\ extra' = 1
  /\ UNCHANGED <<files, table, result, runs, history>>

Finish ==
  /\ pass = Len(Passes)
  /\ row > Len(table)
  /\ pass' = 0 /\ row' = 1 /\ extra' = 1
  /\ result' = "ok"
  /\ last' = [table |-> table, files |-> files]
  /\ UNCHANGED <<files, table, runs, start, stale>>

-----------------------------------------------------------------------------
(* set -e: the first error ends the script, and the files stay as they are  *)

GroupsFull ==
  /\ \/ AtRow("auto_gids") /\ ~Skipped("auto_gids", Current)
        /\ GenerateGid(Current.group) = {}
     \/ AtRow("extra_groups") /\ extra <= Len(Current.groups)
        /\ GenerateGid(Current.groups[extra]) = {}
  /\ Stop("failed")
  /\ UNCHANGED files

UserInvalid ==
  /\ AtUser
  /\ ~CheckUserValidity(Current) \/ UidChoices(Current) = {}
  /\ Stop("failed")
  /\ UNCHANGED files

\* The user is gone from etc/passwd, but not from the groups.
RemoveUser(u) == /\ uid' = [uid EXCEPT ![u] = NoId]
                 /\ ugid' = [ugid EXCEPT ![u] = NoId]
                 /\ UNCHANGED <<gid, members>>

UserRejected ==
  /\ AtUser
  /\ CheckUserValidity(Current)
  /\ UidChoices(Current) # {}
  /\ Rejected(Current)
  /\ RemoveUser(Current.user)
  /\ Stop("failed")

\* The group whose line is being replaced.
GroupAtHand ==
  IF \E p \in {"fixed_gids", "auto_gids"} : AtRow(p) /\ ~Skipped(p, Current)
  THEN {Current.group}
  ELSE {Current.groups[i] : i \in {j \in DOMAIN Current.groups :
                                     AtRow("extra_groups") /\ j = extra}}

\* The build is interrupted, possibly between the removal of a line and its
\* replacement.  (A user who has not joined all the groups yet is left out:
\* the next run empties those groups first.)
Interrupt ==
  /\ Running
  /\ \/ UNCHANGED files
     \/ AtUser /\ CheckUserValidity(Current) /\ RemoveUser(Current.user)
     \/ /\ row <= Len(table)
        /\ \E g \in GroupAtHand : AddOneGroup(g, NoId)
        /\ UNCHANGED <<uid, ugid>>
  /\ Stop("interrupted")

-----------------------------------------------------------------------------
Init ==
  /\ uid = SkelUid /\ ugid = SkelUgid
  /\ gid = SkelGid /\ members = SkelMembers
  /\ table = <<>>
  /\ pass = 0 /\ row = 1 /\ extra = 1
  /\ result = "none"
  /\ runs = 0
  /\ start = [uid |-> SkelUid, gid |-> SkelGid]
  /\ last = [table |-> <<>>, files |-> files]
  /\ stale = FALSE

ScriptStep ==
  \/ SkipRow \/ FixedGid \/ AutoGid \/ ExtraGroup \/ ExtraGroupsDone
  \/ AddOneUser \/ NextPass \/ Finish
  \/ GroupsFull \/ UserInvalid \/ UserRejected

Next == ScriptStep \/ Interrupt \/ Start

Spec == Init /\ [][Next]_vars

-----------------------------------------------------------------------------
(* Properties *)

NoTwice(f, S) == \A x, y \in S : f[x] = f[y] /\ f[x] # NoId => x = y

\* After a successful run no two users have the same uid and no two groups
\* the same gid, whatever mixture of given and automatic ids the tables of
\* this run and of the earlier ones held, as long as no run was cut short.
IdsUnique == result = "ok" /\ ~stale => NoTwice(uid, Users) /\ NoTwice(gid, Groups)

TableRows == {table[i] : i \in DOMAIN table}

\* After a successful run every row got the ids it asked for, its user is in
\* all its additional groups and its main group exists, although later rows
\* remove and add the same groups and users again.
RowsHonoured ==
  result = "ok" => \A r \in TableRows :
    /\ IF r.uid = NoId THEN uid[r.user] # NoId ELSE uid[r.user] = r.uid
    /\ IF r.gid = NoId THEN gid[r.group] # NoId ELSE gid[r.group] = r.gid
    /\ \A i \in DOMAIN r.groups : r.user \in members[r.groups[i]]

\* A run for a second image, with the table of the last successful run and
\* nothing cut short in between, neither fails nor changes anything: all
\* images get the same users and groups.
Repeatable ==
  [][~stale /\ last.table = table /\ last.table # <<>> =>
       /\ result' # "failed"
       /\ result = "running" /\ result' = "ok" => files' = last.files]_vars

\* An automatic id never replaces one that the files already had.
StableIds ==
  result = "ok" =>
    /\ \A u \in Users : start.uid[u] # NoId => uid[u] = start.uid[u]
    /\ \A g \in Groups : start.gid[g] # NoId /\ (\A r \in TableRows : r.group = g => r.gid = NoId)
                           => gid[g] = start.gid[g]

=============================================================================
