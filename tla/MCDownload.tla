------------------------------ MODULE MCDownload ------------------------------
(* Small instances of Download: one or two builds, an archive of two or three *)
(* chunks and up to three sites.                                              *)
EXTENDS Download

CONSTANTS b1, b2

MCInodes == 1..5

S(primary, only, method, backup) ==
  [primary |-> primary, only |-> only, method |-> method, backup |-> backup]

MCSetups ==
  {S("wget", TRUE, "wget", FALSE), S("scp", FALSE, "wget", TRUE)} \union
  {S("none", FALSE, m, k) : m \in {"wget", "scp", "git", "svn", "cvs"}, k \in BOOLEAN} \union
  {S(w, FALSE, m, TRUE) : w \in {"wget", "scp"}, m \in {"wget", "git", "svn"}}

MCSetupsPair ==
  {S("none", FALSE, "wget", TRUE), S("scp", FALSE, "wget", FALSE),
   S("none", FALSE, "git", TRUE), S("wget", FALSE, "svn", FALSE), S("none", FALSE, "cvs", FALSE)}

MCSetupsDefault == {S("none", FALSE, "wget", TRUE)}
=============================================================================
