------------------------------ MODULE MCMkUsers ------------------------------
(* Small instances of MkUsers: a skeleton with the user daemon and the        *)
(* groups daemon and wheel, and packages that ask for the users u1 and u2.    *)
EXTENDS MkUsers

CONSTANTS root, daemon, u1, u2, gdaemon, wheel, g1, g2

MCUsers  == {root, daemon, u1, u2}
MCGroups == {gdaemon, wheel, g1, g2}

MCSkelUid == [u \in MCUsers |-> IF u = root THEN 0 ELSE IF u = daemon THEN 3 ELSE NoId]
MCSkelUgid == [u \in MCUsers |-> IF u = root THEN 0 ELSE IF u = daemon THEN 2 ELSE NoId]
MCSkelGid == [g \in MCGroups |-> IF g = gdaemon THEN 2 ELSE IF g = wheel THEN 3 ELSE NoId]
MCSkelMembers == [g \in MCGroups |-> IF g = wheel THEN {daemon} ELSE {}]

R(u, ui, g, gi, gs) == [user |-> u, uid |-> ui, group |-> g, gid |-> gi,
                        clear |-> FALSE, home |-> "path", groups |-> gs]

\* Rows with given and automatic ids that clash or agree with one another and
\* with the skeleton, and rows that are refused.
MCRows ==
  {R(u1, NoId, g1, NoId, <<wheel>>), R(u1, 4, g1, NoId, <<>>), R(u1, NoId, g1, 5, <<>>),
   [R(u2, NoId, g1, NoId, <<>>) EXCEPT !.home = "/"], R(u1, NoId, g2, NoId, <<g1>>),
   R(u2, NoId, wheel, NoId, <<g1>>),
   R(daemon, NoId, gdaemon, NoId, <<wheel>>), R(u2, 5, wheel, 3, <<>>),
   R(u2, 5, g1, 4, <<wheel, g1>>), R(u1, NoId, wheel, 4, <<>>),
   R(root, NoId, g1, NoId, <<>>), R(u1, 0, g1, 0, <<>>),
   R(u2, NoId, g2, 3, <<>>), R(u1, 3, g1, NoId, <<>>), R(u2, 4, g2, NoId, <<g1>>),
   R(u2, NoId, g1, NoId, <<g2, wheel>>),
   [R(u2, NoId, g2, NoId, <<>>) EXCEPT !.clear = TRUE, !.home = "-"]}

MCTables == UNION {[1..k -> MCRows] : k \in 1..2}
=============================================================================
