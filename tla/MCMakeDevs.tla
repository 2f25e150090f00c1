------------------------------ MODULE MCMakeDevs -----------------------------
(* All tables of up to three rows from a pool, in which rows name the same      *)
(* files, lie in a directory of another row, or make a batch whose names are    *)
(* those of other rows.                                                         *)
EXTENDS MakeDevs

RowOf(name, type, rest) == [text |-> "row", name |-> name, type |-> type, rest |-> rest]

Dev == <<"dev">>
Tty == <<"dev", "tty">>
Tty1 == <<"dev", "tty1">>
Su == <<"su">>

Pool == {
  RowOf(Dev, "d", <<"755", "0", "0">>),
  RowOf(Tty, "c", <<"666", "0", "daemon", 4, 1, 1, 2, 2>>),   \* tty1 and tty2 with 1 and 3
  RowOf(Tty, "c", <<"640", "0", "0", 5, 0>>),
  RowOf(Tty1, "b", <<"640", "0", "0", 3, 1, 1, 1, 0>>),
  RowOf(Tty1, "d", <<"755", "daemon", "0">>),
  RowOf(Dev \o <<"fifo">>, "p", <<"644", "0", "0">>),
  RowOf(Tty1, "f", <<"600", "0", "0">>),
  RowOf(Su, "f", <<"4755", "daemon", "0">>),
  RowOf(Su \o <<"x">>, "d", <<"755", "0", "0">>),
  RowOf(Su, "f", <<"4755", "nobody", "0">>),
  RowOf(Su, "f", <<"644">>),
  RowOf(Su, "l", <<"644", "0", "0">>),
  RowOf(Tty, "c", <<"666", "0", "0", 8>>),
  [RowOf(Su, "", <<>>) EXCEPT !.text = "indented"],
  [RowOf(Su, "f", <<>>) EXCEPT !.text = "comment"]}

MCTables == UNION {[1..n -> Pool] : n \in 0..3}

SuFile == Su :> [Entry("f", "755", NoDev) EXCEPT !.uid = 1000, !.gid = 1000]
MCTrees == {SuFile, SuFile @@ (Dev :> Entry("d", "755", NoDev))}

MCIds == [name \in {"0", "daemon"} |-> IF name = "0" THEN 0 ELSE 1]
MCCleared(mode) == "755"
MCNumbered(word, n) == word \o ToString(n)
=============================================================================
