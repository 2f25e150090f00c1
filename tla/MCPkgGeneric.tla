---------------------------- MODULE MCPkgGeneric ----------------------------
(* Small instances of PkgGeneric for TLC.  tc: the toolchain; tool: a host   *)
(* package; lib: a patched library that needs tool; app: an application     *)
(* built from a local source directory that needs lib.  A run may leave     *)
(* packages out.                                                            *)
EXTENDS PkgGeneric

CONSTANTS tc, tool, lib, app

Present(s) == SelectSeq(s, LAMBDA p : p \in Packages)

MCDeps == [p \in Packages |-> CASE p = lib -> Present(<<tool>>)
                                [] p = app -> Present(<<lib>>)
                                [] OTHER   -> <<>>]
MCRank == [p \in Packages |-> CASE p = lib -> 1 [] p = app -> 2 [] OTHER -> 0]
MCHostPkgs == {tool} \intersect Packages
MCOverrides == {app} \intersect Packages
MCInstallTo == [p \in Packages |-> CASE p = tool -> {"host"}
                                     [] p = lib  -> {"staging", "target"}
                                     [] p = app  -> {"target", "images"}
                                     [] p = tc   -> {"staging"}]
MCNPatches == [p \in Packages |-> IF p = lib THEN 2 ELSE 0]
MCTargetsAll == Present(<<app, lib>>)

\* An interrupted rm -Rf has removed the sources; the configured and compiled
\* files; the sources and the early stamps; or the late stamps only.
MCCutRemovals == {{"src"}, {"conf", "obj"}, {"src", "downloaded", "extracted"},
                  {"configured", "built"}}

\* For three packages: the sources and the early stamps only.
MCCutRemovalsWorld == {{"src", "downloaded", "extracted"}}
=============================================================================
