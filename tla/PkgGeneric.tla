----------------------------- MODULE PkgGeneric -----------------------------
(***************************************************************************)
(* The generic package infrastructure (package/pkg-generic.mk) as one       *)
(* sequential GNU make runs it (.NOTPARALLEL, Makefile:64).                 *)
(*                                                                         *)
(* Every step of a package is an implicit rule without prerequisites whose  *)
(* target is a stamp file: make runs the recipe when the file is missing    *)
(* and the recipe touches it last.  The "human-friendly" targets order the  *)
(* stamps.  The state is what survives between two invocations of make (the *)
(* stamps, the build trees, the installed files, the download directory)    *)
(* and the depth-first walk of the invocation in progress.                  *)
(*                                                                         *)
(* File contents are abstracted to version numbers: 0 is "absent or         *)
(* incomplete", a larger number is a later edit.                            *)
(***************************************************************************)
EXTENDS Integers, Sequences

CONSTANTS
  Packages,       \* target and host packages
  Deps,           \* Deps[p]: the sequence FOO_DEPENDENCIES
  Rank,           \* a numbering of the packages that decreases along Deps
  HostPkgs,       \* packages whose FOO_TYPE is host
  Overrides,      \* packages with a FOO_OVERRIDE_SRCDIR
  InstallTo,      \* InstallTo[p]: destinations whose FOO_INSTALL_x is YES
  NPatches,       \* NPatches[p]: patches the patch step applies
  Toolchain,      \* BASE_TARGETS
  TargetsAll,     \* TARGETS, in the order they were added
  GoalKinds,      \* the targets users ask for
  HandRemovable,  \* stamps users delete by hand
  CutRemovals,    \* what an interrupted rm -Rf of a build tree may have removed
  MaxGen,         \* bound on the edits of one file tree or configuration
  MaxFaults       \* bound on the recipes that fail or are interrupted

Dests == {"staging", "target", "images", "host"}

\* Mutant: FOO_TARGET_INSTALL_TARGET left out of the assignments.
InstallStampNoTarget ==
  [d \in Dests |-> CASE d = "staging" -> "staging_installed"
                     [] d = "target"  -> ""
                     [] d = "images"  -> "images_installed"
                     [] d = "host"    -> "host_installed"]

\* The install stamp of each destination (pkg-generic.mk:320-323).
InstallStamp ==
  [d \in Dests |-> CASE d = "staging" -> "staging_installed"
                     [] d = "target"  -> "target_installed"
                     [] d = "images"  -> "images_installed"
                     [] d = "host"    -> "host_installed"]

InstallStamps ==
  {"staging_installed", "target_installed", "images_installed", "host_installed"}

\* Stamps that are touched.  .stamp_rsync_sourced, .stamp_uninstalled,
\* .stamp_cleaned and .stamp_dircleaned are targets but never files.
Stamps == {"downloaded", "extracted", "rsynced", "patched", "configured",
           "built"} \union InstallStamps

PseudoStamps == {"rsync_sourced", "uninstalled", "cleaned", "dircleaned"}

TreeParts == {"src", "conf", "obj"}

ASSUME ConstantsAssumption ==
  /\ Deps \in [Packages -> Seq(Packages)]
  /\ Rank \in [Packages -> Nat]
  /\ \A p \in Packages : \A i \in DOMAIN Deps[p] : Rank[Deps[p][i]] < Rank[p]
  /\ HostPkgs \subseteq Packages
  /\ Overrides \subseteq Packages
  /\ InstallTo \in [Packages -> SUBSET Dests]
  /\ \A p \in Packages : IF p \in HostPkgs THEN InstallTo[p] = {"host"}
                                           ELSE "host" \notin InstallTo[p]
  /\ NPatches \in [Packages -> Nat]
  /\ Toolchain \in Packages
  /\ TargetsAll \in Seq(Packages)
  /\ HandRemovable \subseteq {"configured", "built"}
  /\ CutRemovals \subseteq SUBSET (Stamps \union TreeParts)
  /\ MaxGen \in Nat \ {0}
  /\ MaxFaults \in Nat

VARIABLES
  stamps,   \* stamps[p]: the .stamp_* files in the build directory of p
  dl,       \* packages whose archive is complete in DL_DIR
  tree,     \* tree[p]: what the build directory of p holds
  inst,     \* inst[p][d]: the build of p that destination d holds
  torn,     \* history: stamps that outlived an interrupted removal of their files
  stale,    \* history: packages with an install stamp that outlived .stamp_built
  srcdir,   \* srcdir[p]: version of the local sources of an override package
  cfg,      \* cfg[p]: version of the configuration of p (.config, FOO_CONF_OPT)
  stack,    \* the targets make is considering, innermost last; <<>>: no make runs
  done,     \* the targets this invocation of make is finished with
  goal,     \* the target asked for
  want,     \* history: the versions in force when make was started
  faults    \* faults that may still happen

files  == <<stamps, dl, tree, inst, torn, stale>>
user   == <<srcdir, cfg>>
engine == <<stack, done, goal, want>>
vars   == <<files, user, engine, faults>>

-----------------------------------------------------------------------------
(* The target graph *)

Version == [src : 0..MaxGen, conf : 0..MaxGen]
None    == [src |-> 0, conf |-> 0]

EmptyTree == [src |-> 0, patches |-> 0, conf |-> 0, obj |-> None]

HumanKinds ==
  {"pkg", "install", "install-staging", "install-target", "install-images",
   "install-host", "build", "configure", "patch", "extract", "depends",
   "source", "rsync", "uninstall", "clean", "dirclean", "clean-for-rebuild",
   "rebuild", "clean-for-reconfigure", "reconfigure", "real", "world",
   "top-clean"}

Targets == (HumanKinds \union Stamps \union PseudoStamps) \X Packages

Goals == {g \in HumanKinds \X Packages :
            /\ g[1] \in GoalKinds
            /\ g[1] \in {"world", "top-clean"} => g[2] = Toolchain}

\* The prerequisites of foo-install-staging, -target and -images: empty
\* unless FOO_INSTALL_x is YES.
InstallPrereqs(d, p) ==
  IF d \in InstallTo[p] THEN << <<"build", p>>, <<InstallStamp[d], p>> >>
                        ELSE <<>>

\* Mutant: foo-configure lists its stamp before foo-depends.
SourcePrereqsSwapped(k, p) ==
  CASE k = "configure" -> << <<"patch", p>>, <<"configured", p>>, <<"depends", p>> >>
    [] k = "patch"     -> IF p \in Overrides THEN << <<"rsync", p>> >>
                          ELSE << <<"extract", p>>, <<"patched", p>> >>
    [] k = "extract"   -> IF p \in Overrides THEN << <<"rsync", p>> >>
                          ELSE << <<"source", p>>, <<"extracted", p>> >>
    [] k = "depends"   -> [i \in DOMAIN Deps[p] |-> <<"pkg", Deps[p][i]>>]
    [] k = "source"    -> IF p \in Overrides THEN << <<"rsync_sourced", p>> >>
                          ELSE << <<"downloaded", p>> >>
    [] k = "rsync"     -> IF p \in Overrides THEN << <<"rsynced", p>> >> ELSE <<>>

\* Mutant: foo-extract does not depend on its stamp.
SourcePrereqsNoExtract(k, p) ==
  CASE k = "configure" -> << <<"patch", p>>, <<"depends", p>>, <<"configured", p>> >>
    [] k = "patch"     -> << <<"extract", p>>, <<"patched", p>> >>
    [] k = "extract"   -> << <<"source", p>> >>
    [] k = "depends"   -> [i \in DOMAIN Deps[p] |-> <<"pkg", Deps[p][i]>>]
    [] k = "source"    -> << <<"downloaded", p>> >>
    [] k = "rsync"     -> <<>>

\* Mutant: foo-configure depends on foo-extract instead of foo-patch.
SourcePrereqsUnpatched(k, p) ==
  CASE k = "configure" -> << <<"extract", p>>, <<"depends", p>>, <<"configured", p>> >>
    [] k = "patch"     -> << <<"extract", p>>, <<"patched", p>> >>
    [] k = "extract"   -> << <<"source", p>>, <<"extracted", p>> >>
    [] k = "depends"   -> [i \in DOMAIN Deps[p] |-> <<"pkg", Deps[p][i]>>]
    [] k = "source"    -> << <<"downloaded", p>> >>
    [] k = "rsync"     -> <<>>

\* The prerequisites of the targets whose rules depend on the package being
\* overridden or not (pkg-generic.mk:390-424).
SourcePrereqs(k, p) ==
  IF p \notin Overrides
  THEN CASE k = "configure" -> << <<"patch", p>>, <<"depends", p>>, <<"configured", p>> >>
         [] k = "patch"     -> << <<"extract", p>>, <<"patched", p>> >>
         [] k = "extract"   -> << <<"source", p>>, <<"extracted", p>> >>
         [] k = "depends"   -> [i \in DOMAIN Deps[p] |-> <<"pkg", Deps[p][i]>>]
         [] k = "source"    -> << <<"downloaded", p>> >>
         [] k = "rsync"     -> <<>>
  ELSE CASE k = "configure" -> << <<"depends", p>>, <<"configured", p>> >>
         [] k = "patch"     -> << <<"rsync", p>> >>
         [] k = "extract"   -> << <<"rsync", p>> >>
         [] k = "depends"   -> << <<"rsync", p>> >> \o
                               [i \in DOMAIN Deps[p] |-> <<"pkg", Deps[p][i]>>]
         [] k = "source"    -> << <<"rsync_sourced", p>> >>
         [] k = "rsync"     -> << <<"rsynced", p>> >>

\* Mutant: the toolchain is left out of BASE_TARGETS.
NoBaseTargets == <<>>

\* BASE_TARGETS, which every __real_tgt_foo and world itself start with.
BaseTargets == << <<"pkg", Toolchain>> >>

\* The prerequisites of a target, in the order make considers them.  "real"
\* stands for __real_tgt_foo and "top-clean" for the clean target of the
\* top-level Makefile.
Prereqs(t) ==
  LET k == t[1]
      p == t[2]
  IN CASE k = "pkg"     -> << <<"install", p>> >>
       [] k = "install" -> IF p \in HostPkgs
                           THEN << <<"install-host", p>> >>
                           ELSE << <<"install-staging", p>>, <<"install-target", p>>,
                                   <<"install-images", p>> >>
       [] k = "install-staging" -> InstallPrereqs("staging", p)
       [] k = "install-target"  -> InstallPrereqs("target", p)
       [] k = "install-images"  -> InstallPrereqs("images", p)
       [] k = "install-host"    -> << <<"build", p>>, <<"host_installed", p>> >>
       [] k = "build"           -> << <<"configure", p>>, <<"built", p>> >>
       [] k \in {"configure", "patch", "extract", "depends", "source", "rsync"}
                                -> SourcePrereqs(k, p)
       [] k = "uninstall"       -> << <<"configure", p>>, <<"uninstalled", p>> >>
       [] k = "clean"           -> << <<"uninstall", p>>, <<"cleaned", p>> >>
       [] k = "dirclean"        -> << <<"dircleaned", p>> >>
       [] k = "rebuild"         -> << <<"clean-for-rebuild", p>>, <<"pkg", p>> >>
       [] k = "clean-for-reconfigure" -> << <<"clean-for-rebuild", p>> >>
       [] k = "reconfigure"     -> << <<"clean-for-reconfigure", p>>, <<"pkg", p>> >>
       [] k = "real"            -> Append(BaseTargets, <<"pkg", p>>)
       [] k = "world"           -> BaseTargets \o
                                   [i \in DOMAIN TargetsAll |-> <<"real", TargetsAll[i]>>]
       [] OTHER                 -> <<>>

\* The other targets without a recipe: make is done with them once it is done
\* with their prerequisites.
HasRecipe(t) == t[1] \in Stamps \union PseudoStamps \union
                  {"clean-for-rebuild", "clean-for-reconfigure", "top-clean"}

-----------------------------------------------------------------------------
(* The walk of one make invocation *)

Idle == stack = <<>>
Top  == stack[Len(stack)]

\* make may run the recipe of t, or conclude that t needs none.
Ready(t) == /\ stack # <<>>
            /\ t = Top
            /\ \A i \in DOMAIN Prereqs(t) : Prereqs(t)[i] \in done

\* Mutant: make forgets that it is finished with a target.
ReturnForgetting ==
  IF Len(stack) = 1
  THEN stack' = <<>> /\ done' = {} /\ goal' = <<>> /\ want' = None
  ELSE stack' = SubSeq(stack, 1, Len(stack) - 1) /\ UNCHANGED <<done, goal, want>>

\* make is finished with the innermost target; the whole invocation has
\* succeeded when that is the goal.
Return ==
  IF Len(stack) = 1
  THEN stack' = <<>> /\ done' = {} /\ goal' = <<>> /\ want' = None
  ELSE /\ stack' = SubSeq(stack, 1, Len(stack) - 1)
       /\ done' = done \union {Top}
       /\ UNCHANGED <<goal, want>>

\* A recipe fails: make stops at once (no -k), the files stay as they are.
Abort == stack' = <<>> /\ done' = {} /\ goal' = <<>> /\ want' = None

\* A command of a recipe fails or the user interrupts make.
Fault == faults > 0 /\ faults' = faults - 1 /\ Abort

\* The sources that a make started now has to deliver: the override
\* directory, or what was extracted and perhaps edited in the build tree.
CurrentSrc(p) == IF p \in Overrides THEN srcdir[p]
                 ELSE IF "extracted" \in stamps[p] THEN tree[p].src
                 ELSE 1

\* A user runs make for one goal.  What the goal promises to bring up to date
\* is recorded: the sources for a rebuild, the configuration as well for a
\* reconfigure and for a package that starts from nothing.
Make(g) ==
  LET p       == g[2]
      scratch == g[1] = "pkg" /\ stamps[p] = {}
  IN /\ Idle
     /\ stack' = <<g>>
     /\ done' = {}
     /\ goal' = g
     /\ want' = [src  |-> IF scratch \/ g[1] \in {"rebuild", "reconfigure"}
                          THEN CurrentSrc(p) ELSE 0,
                 conf |-> IF scratch \/ g[1] = "reconfigure" THEN cfg[p] ELSE 0]
     /\ UNCHANGED <<files, user, faults>>

\* make turns to the first prerequisite of the innermost target that this
\* invocation has not considered yet.
Descend ==
  /\ stack # <<>>
  /\ \E i \in DOMAIN Prereqs(Top) :
       /\ Prereqs(Top)[i] \notin done
       /\ \A j \in 1..(i - 1) : Prereqs(Top)[j] \in done
       /\ stack' = Append(stack, Prereqs(Top)[i])
  /\ UNCHANGED <<files, user, done, goal, want, faults>>

\* Nothing to run: a target without a recipe, or a stamp that exists.
UpToDate ==
  /\ stack # <<>>
  /\ Ready(Top)
  /\ HasRecipe(Top) => Top[1] \in Stamps /\ Top[1] \in stamps[Top[2]]
  /\ Return
  /\ UNCHANGED <<files, user, faults>>

-----------------------------------------------------------------------------
(* The recipes.  Each one either completes, and touches its stamp, or is    *)
(* cut short, possibly after part of its effect.                            *)

\* Recipe s of p runs: make has reached it and the stamp is missing.
Runs(s, p) == Ready(<<s, p>>) /\ s \notin stamps[p]

Touch(s, p) == /\ stamps' = [stamps EXCEPT ![p] = @ \union {s}]
               /\ torn' = [torn EXCEPT ![p] = @ \ {s}]
               /\ stale' = stale
               /\ Return

Download(p) ==
  /\ Runs("downloaded", p)
  /\ dl' = dl \union {p}
  /\ Touch("downloaded", p)
  /\ UNCHANGED <<tree, inst, user, faults>>

\* A build tree whose sources are now v, without any patch.
WithSources(t, v) == [src |-> v, patches |-> 0, conf |-> t.conf, obj |-> t.obj]

\* What the destinations hold once the files in those of D are gone.
Without(D, i) == [d \in Dests |-> IF d \in D THEN None ELSE i[d]]

\* tar writes the files of the archive over whatever the directory holds.
Extract(p) ==
  /\ Runs("extracted", p)
  /\ p \in dl
  /\ tree' = [tree EXCEPT ![p] = WithSources(@, 1)]
  /\ Touch("extracted", p)
  /\ UNCHANGED <<dl, inst, user, faults>>

\* rsync -au: the files of the source directory that are newer are copied.
Rsync(p) ==
  /\ Runs("rsynced", p)
  /\ tree' = [tree EXCEPT ![p].src = srcdir[p]]
  /\ Touch("rsynced", p)
  /\ UNCHANGED <<dl, inst, user, faults>>

\* Mutant: the exit status of apply-patches.sh is ignored.
PatchUnchecked(p) ==
  /\ Runs("patched", p)
  /\ tree[p].src > 0
  /\ tree' = [tree EXCEPT ![p].patches = IF @ = 0 THEN NPatches[p] ELSE @]
  /\ Touch("patched", p)
  /\ UNCHANGED <<dl, inst, user, faults>>

\* apply-patches.sh exits 1 at a patch that is applied already (patch -N), so
\* the step only completes on a tree without any of its patches.
Patch(p) ==
  /\ Runs("patched", p)
  /\ tree[p].src > 0
  /\ tree[p].patches = 0
  /\ tree' = [tree EXCEPT ![p].patches = NPatches[p]]
  /\ Touch("patched", p)
  /\ UNCHANGED <<dl, inst, user, faults>>

\* The configure commands run in the sources, with the configuration in force.
Configure(p) ==
  /\ Runs("configured", p)
  /\ tree[p].src > 0
  /\ tree' = [tree EXCEPT ![p].conf = cfg[p]]
  /\ Touch("configured", p)
  /\ UNCHANGED <<dl, inst, user, faults>>

\* What the build commands make of the tree of p.
Compiled(p) == [src |-> tree[p].src, conf |-> tree[p].conf]

Build(p) ==
  /\ Runs("built", p)
  /\ tree[p].src > 0
  /\ tree[p].conf > 0
  /\ tree' = [tree EXCEPT ![p].obj = Compiled(p)]
  /\ Touch("built", p)
  /\ UNCHANGED <<dl, inst, user, faults>>

\* The install commands copy what was built.
Install(p, d) ==
  /\ Runs(InstallStamp[d], p)
  /\ tree[p].obj # None
  /\ inst' = [inst EXCEPT ![p][d] = tree[p].obj]
  /\ Touch(InstallStamp[d], p)
  /\ UNCHANGED <<dl, tree, user, faults>>

\* Nothing to do to source a local package; the stamp is not touched.
RsyncSource(p) ==
  /\ Ready(<<"rsync_sourced", p>>)
  /\ Return
  /\ UNCHANGED <<files, user, faults>>

\* A removal of stamps: a package is stale from when it has an install stamp
\* without .stamp_built until the last of its install stamps is gone.
Ages == stale' = {q \in Packages : /\ stamps'[q] \intersect InstallStamps # {}
                                   /\ q \in stale \/ "built" \notin stamps'[q]}

\* Stamps are removed from the build tree of p.
Remove(S, p) == /\ stamps' = [stamps EXCEPT ![p] = @ \ S]
                /\ torn' = [torn EXCEPT ![p] = @ \ S]
                /\ Ages

\* Mutant: the staging stamp is not removed.
UninstallTargetOnly(p) ==
  /\ Ready(<<"uninstalled", p>>)
  /\ Remove({"target_installed"}, p)
  /\ inst' = [inst EXCEPT ![p] = Without({"staging", "target"}, @)]
  /\ Return
  /\ UNCHANGED <<dl, tree, user, faults>>

\* The stamps go first, then the uninstall commands run.
Uninstall(p) ==
  /\ Ready(<<"uninstalled", p>>)
  /\ Remove({"staging_installed", "target_installed"}, p)
  /\ inst' = [inst EXCEPT ![p] = Without({"staging", "target"}, @)]
  /\ Return
  /\ UNCHANGED <<dl, tree, user, faults>>

\* The clean commands run first, then the stamp goes.
CleanPackage(p) ==
  /\ Ready(<<"cleaned", p>>)
  /\ tree' = [tree EXCEPT ![p].obj = None]
  /\ Remove({"built"}, p)
  /\ Return
  /\ UNCHANGED <<dl, inst, user, faults>>

Dirclean(p) ==
  /\ Ready(<<"dircleaned", p>>)
  /\ tree' = [tree EXCEPT ![p] = EmptyTree]
  /\ Remove(Stamps, p)
  /\ Return
  /\ UNCHANGED <<dl, inst, user, faults>>

\* Mutant: the images stamp is forgotten.
RebuildStampsNoImages(p) ==
  (IF p \in Overrides THEN <<"rsynced">> ELSE <<>>) \o
  <<"built", "staging_installed", "target_installed", "host_installed">>

\* The stamps that foo-clean-for-rebuild removes, in its order.
RebuildStamps(p) ==
  IF p \in Overrides
  THEN <<"rsynced", "built", "staging_installed", "target_installed",
         "images_installed", "host_installed">>
  ELSE <<"built", "staging_installed", "target_installed", "images_installed",
         "host_installed">>

\* The first n of them.
FirstRebuildStamps(n, p) == {RebuildStamps(p)[i] : i \in 1..n}

CleanForRebuild(p) ==
  /\ Ready(<<"clean-for-rebuild", p>>)
  /\ Remove(FirstRebuildStamps(Len(RebuildStamps(p)), p), p)
  /\ Return
  /\ UNCHANGED <<dl, tree, inst, user, faults>>

CleanForReconfigure(p) ==
  /\ Ready(<<"clean-for-reconfigure", p>>)
  /\ Remove({"configured"}, p)
  /\ Return
  /\ UNCHANGED <<dl, tree, inst, user, faults>>

\* make clean: the target, images and host directories (the staging directory
\* lies in the latter), then the build directory.  DL_DIR stays.
CleanAll ==
  /\ Ready(<<"top-clean", Toolchain>>)
  /\ inst' = [p \in Packages |-> Without(Dests, inst[p])]
  /\ tree' = [p \in Packages |-> EmptyTree]
  /\ stamps' = [p \in Packages |-> {}]
  /\ torn' = [p \in Packages |-> {}]
  /\ stale' = {}
  /\ Return
  /\ UNCHANGED <<dl, user, faults>>

-----------------------------------------------------------------------------
(* The recipes cut short by a fault: after a part of their commands, or     *)
(* after all of them but before touch.                                      *)

\* The recipe at hand has not done anything yet.
Interrupted ==
  /\ stack # <<>>
  /\ Ready(Top) /\ HasRecipe(Top)
  /\ Fault
  /\ UNCHANGED <<files, user>>

\* Downloads leave nothing under the final name before they are complete.
DownloadCut(p) ==
  /\ Runs("downloaded", p)
  /\ Fault
  /\ dl' = dl \union {p}
  /\ UNCHANGED <<stamps, tree, inst, torn, stale, user>>

\* tar or rsync was stopped and the sources are incomplete, or a hook failed.
FetchCut(s, p) ==
  /\ Runs(s, p)
  /\ Fault
  /\ \E v \in {0, IF s = "rsynced" THEN srcdir[p] ELSE 1} :
       /\ s = "extracted" /\ v > 0 => p \in dl
       /\ tree' = [tree EXCEPT ![p] = WithSources(@, v)]
  /\ UNCHANGED <<stamps, dl, inst, torn, stale, user>>

\* Some patches are in, perhaps all of them, but not the stamp.
PatchCut(p) ==
  /\ Runs("patched", p)
  /\ tree[p].src > 0
  /\ tree[p].patches = 0
  /\ \E k \in 0..NPatches[p] : tree' = [tree EXCEPT ![p].patches = k]
  /\ Fault
  /\ UNCHANGED <<stamps, dl, inst, torn, stale, user>>

ConfigureCut(p) ==
  /\ Runs("configured", p)
  /\ Fault
  /\ \E c \in {0, cfg[p]} :
       /\ c > 0 => tree[p].src > 0
       /\ tree' = [tree EXCEPT ![p].conf = c]
  /\ UNCHANGED <<stamps, dl, inst, torn, stale, user>>

BuildCut(p) ==
  /\ Runs("built", p)
  /\ Fault
  /\ \E b \in {None, Compiled(p)} :
       /\ b # None => tree[p].src > 0 /\ tree[p].conf > 0
       /\ tree' = [tree EXCEPT ![p].obj = b]
  /\ UNCHANGED <<stamps, dl, inst, torn, stale, user>>

InstallCut(p, d) ==
  /\ Runs(InstallStamp[d], p)
  /\ Fault
  /\ \E b \in {None, tree[p].obj} : inst' = [inst EXCEPT ![p][d] = b]
  /\ UNCHANGED <<stamps, dl, tree, torn, stale, user>>

\* n: how many of the two stamps and the two sets of commands were reached.
UninstallCut(p) ==
  /\ Ready(<<"uninstalled", p>>)
  /\ \E n \in 1..4 :
       /\ Remove({"staging_installed"} \union
                 IF n > 1 THEN {"target_installed"} ELSE {}, p)
       /\ inst' = [inst EXCEPT ![p] =
                     Without((IF n > 2 THEN {"staging"} ELSE {}) \union
                             (IF n > 3 THEN {"target"} ELSE {}), @)]
  /\ Fault
  /\ UNCHANGED <<dl, tree, user>>

\* The clean commands removed object files and failed: the stamp is still there.
CleanPackageCut(p) ==
  /\ Ready(<<"cleaned", p>>)
  /\ tree' = [tree EXCEPT ![p].obj = None]
  /\ torn' = [torn EXCEPT ![p] = @ \union ({"built"} \intersect stamps[p])]
  /\ Fault
  /\ UNCHANGED <<stamps, dl, inst, stale, user>>

\* What is left of a build tree and of its stamps when rm -Rf, which goes by
\* directory order, has removed the parts in gone.
TornTree(t, gone) ==
  [src     |-> IF "src" \in gone THEN 0 ELSE t.src,
   patches |-> IF "src" \in gone THEN 0 ELSE t.patches,
   conf    |-> IF "conf" \in gone THEN 0 ELSE t.conf,
   obj     |-> IF "obj" \in gone THEN None ELSE t.obj]

DircleanCut(p) ==
  /\ Ready(<<"dircleaned", p>>)
  /\ \E gone \in CutRemovals :
       /\ tree' = [tree EXCEPT ![p] = TornTree(@, gone)]
       /\ stamps' = [stamps EXCEPT ![p] = @ \ gone]
       /\ torn' = [torn EXCEPT ![p] = stamps[p] \ gone]
  /\ Ages
  /\ Fault
  /\ UNCHANGED <<dl, inst, user>>

\* Interrupted between two of the rm commands: the later stamps are still there.
CleanForRebuildCut(p) ==
  /\ Ready(<<"clean-for-rebuild", p>>)
  /\ \E n \in 0..(Len(RebuildStamps(p)) - 1) : Remove(FirstRebuildStamps(n, p), p)
  /\ Fault
  /\ UNCHANGED <<dl, tree, inst, user>>

\* The destinations that the first n directories of make clean hold.
FirstCleaned(n) == (IF n > 0 THEN {"target"} ELSE {}) \union
                   (IF n > 1 THEN {"images"} ELSE {}) \union
                   (IF n > 2 THEN {"host", "staging"} ELSE {})

\* make clean is interrupted in its n-th directory; the fourth is BUILD_DIR.
CleanAllCut ==
  /\ Ready(<<"top-clean", Toolchain>>)
  /\ \E n \in 1..4, gone \in CutRemovals :
       LET lost == IF n = 4 THEN gone ELSE {}
       IN /\ inst' = [p \in Packages |-> Without(FirstCleaned(n), inst[p])]
          /\ tree' = [p \in Packages |-> TornTree(tree[p], lost)]
          /\ stamps' = [p \in Packages |-> stamps[p] \ lost]
          /\ torn' = [p \in Packages |-> stamps[p] \ lost]
  /\ Ages
  /\ Fault
  /\ UNCHANGED <<dl, user>>

\* A recipe that cannot succeed in the state it finds: no archive, no
\* sources, a patch that is applied already, nothing configured or built.
RecipeFails(p) ==
  /\ \/ Runs("extracted", p) /\ p \notin dl
     \/ Runs("patched", p) /\ (tree[p].src = 0 \/ tree[p].patches > 0)
     \/ Runs("configured", p) /\ tree[p].src = 0
     \/ Runs("built", p) /\ (tree[p].src = 0 \/ tree[p].conf = 0)
     \/ \E d \in Dests : Runs(InstallStamp[d], p) /\ tree[p].obj = None
  /\ Abort
  /\ UNCHANGED <<files, user, faults>>

-----------------------------------------------------------------------------
(* The user, between and during invocations of make *)

\* Editing the local sources of an override package, at any time.
EditSources(p) ==
  /\ p \in Overrides
  /\ srcdir[p] < MaxGen
  /\ srcdir' = [srcdir EXCEPT ![p] = @ + 1]
  /\ UNCHANGED <<files, cfg, engine, faults>>

\* Editing the sources of another package in its build directory.
EditTree(p) ==
  /\ Idle
  /\ p \notin Overrides
  /\ "extracted" \in stamps[p]
  /\ tree[p].src \in 1..(MaxGen - 1)
  /\ tree' = [tree EXCEPT ![p].src = @ + 1]
  /\ UNCHANGED <<stamps, dl, inst, torn, stale, user, engine, faults>>

\* Changing the configuration of a package; make reads it when it starts, so
\* a change during an invocation counts from the next one.
EditConfig(p) ==
  /\ Idle
  /\ cfg[p] < MaxGen
  /\ cfg' = [cfg EXCEPT ![p] = @ + 1]
  /\ UNCHANGED <<files, srcdir, engine, faults>>

\* Deleting a stamp by hand (docs/manual/rebuilding-packages.txt:64-70).
DeleteStamp(p) ==
  /\ Idle
  /\ \E s \in HandRemovable : s \in stamps[p] /\ Remove({s}, p)
  /\ UNCHANGED <<dl, tree, inst, user, engine, faults>>

-----------------------------------------------------------------------------
Init ==
  /\ stamps = [p \in Packages |-> {}]
  /\ dl = {}
  /\ tree = [p \in Packages |-> EmptyTree]
  /\ inst = [p \in Packages |-> [d \in Dests |-> None]]
  /\ torn = [p \in Packages |-> {}]
  /\ stale = {}
  /\ srcdir = [p \in Packages |-> 1]
  /\ cfg = [p \in Packages |-> 1]
  /\ stack = <<>>
  /\ done = {}
  /\ goal = <<>>
  /\ want = None
  /\ faults = MaxFaults

\* A step of the make in progress that is not a fault.
MakeStep ==
  \/ Descend
  \/ UpToDate
  \/ CleanAll
  \/ \E p \in Packages :
       \/ Download(p) \/ Extract(p) \/ Rsync(p) \/ Patch(p)
       \/ Configure(p) \/ Build(p)
       \/ \E d \in Dests : Install(p, d)
       \/ RsyncSource(p) \/ Uninstall(p) \/ CleanPackage(p) \/ Dirclean(p)
       \/ CleanForRebuild(p) \/ CleanForReconfigure(p)
       \/ RecipeFails(p)

CutStep ==
  \/ Interrupted
  \/ CleanAllCut
  \/ \E p \in Packages :
       \/ DownloadCut(p) \/ FetchCut("extracted", p) \/ FetchCut("rsynced", p)
       \/ PatchCut(p) \/ ConfigureCut(p) \/ BuildCut(p)
       \/ \E d \in Dests : InstallCut(p, d)
       \/ UninstallCut(p) \/ CleanPackageCut(p) \/ DircleanCut(p)
       \/ CleanForRebuildCut(p)

UserStep ==
  \/ \E g \in Goals : Make(g)
  \/ \E p \in Packages :
       EditSources(p) \/ EditTree(p) \/ EditConfig(p) \/ DeleteStamp(p)

Next == MakeStep \/ CutStep \/ UserStep

\* Once started, make goes on until it is finished: the only fairness assumed.
Spec == Init /\ [][Next]_vars /\ WF_vars(MakeStep)

-----------------------------------------------------------------------------
(* Properties *)

Tree == [src : 0..MaxGen, patches : Nat, conf : 0..MaxGen, obj : Version]

\* The types of the variables; torn is a part of the stamps.
TypeOK ==
  /\ stamps \in [Packages -> SUBSET Stamps]
  /\ dl \in SUBSET Packages
  /\ tree \in [Packages -> Tree]
  /\ inst \in [Packages -> [Dests -> Version]]
  /\ torn \in [Packages -> SUBSET Stamps]
  /\ \A p \in Packages : torn[p] \subseteq stamps[p]
  /\ stale \in SUBSET Packages
  /\ srcdir \in [Packages -> 1..MaxGen]
  /\ cfg \in [Packages -> 1..MaxGen]
  /\ stack \in Seq(Targets)
  /\ done \in SUBSET Targets
  /\ goal \in Goals \union {<<>>}
  /\ want \in Version
  /\ faults \in 0..MaxFaults

\* What has to be on disk for stamp s of p to tell the truth.
Evidence(s, p) ==
  CASE s = "downloaded" -> p \in dl
    [] s \in {"extracted", "rsynced"} -> tree[p].src > 0
    [] s = "patched"    -> tree[p].patches = NPatches[p]
    [] s = "configured" -> tree[p].conf > 0
    [] s = "built"      -> tree[p].obj # None
    [] s \in InstallStamps -> \E d \in Dests : InstallStamp[d] = s /\ inst[p][d] # None

\* A stamp file is only there while the result of its step is complete on
\* disk, whatever sequence of builds, rebuilds, uninstalls, cleans, failures
\* and interruptions came before; the exception are the stamps left behind by
\* a removal (foo-clean, foo-dirclean, clean) that was itself cut short.
StampSound ==
  \A p \in Packages : \A s \in stamps[p] \ torn[p] : Evidence(s, p)

\* All that p installs is in place, as far as its stamps can be trusted.
Installed(p) ==
  \A d \in InstallTo[p] :
    /\ InstallStamp[d] \in stamps[p]
    /\ InstallStamp[d] \notin torn[p] => inst[p][d] # None

Completes(s, p) == s \in stamps'[p] \ stamps[p]

\* A package is configured only while everything it depends on is installed
\* in every destination (foo-depends, pkg-generic.mk:397-416).
DepsBeforeConfigure ==
  [][\A p \in Packages : Completes("configured", p) =>
       \A i \in DOMAIN Deps[p] : Installed(Deps[p][i])]_vars

\* In a full build nothing but the toolchain and what it needs itself is
\* configured before the toolchain is installed (Makefile:400,410).
ToolchainFirst ==
  [][\A p \in Packages :
       /\ goal # <<>> /\ goal[1] = "world"
       /\ p # Toolchain /\ Rank[p] >= Rank[Toolchain]
       /\ Completes("configured", p)
       => Installed(Toolchain)]_vars

\* A tree that is only partly patched, or patched twice, is never configured:
\* after an interrupted patch step make fails until the tree is removed.
PatchedBeforeConfigure ==
  [][\A p \in Packages \ Overrides :
       Completes("configured", p) /\ torn[p] = {} =>
         tree[p].patches = NPatches[p]]_vars

\* The make in progress ends without an error.
Succeeds == Len(stack) = 1 /\ stack' = <<>>

\* When foo-rebuild, foo-reconfigure or a build of foo from nothing succeeds,
\* every destination of foo holds the sources, and after a reconfigure or a
\* build from nothing the configuration, that were there when make started.
RebuildDelivers ==
  [][Succeeds =>
       \A d \in InstallTo[goal[2]] :
         /\ inst[goal[2]][d].src >= want.src
         /\ inst[goal[2]][d].conf >= want.conf]_vars

\* When foo-rebuild or foo-reconfigure succeeds, the destinations of foo hold
\* the same build, whatever went wrong before, an earlier foo-clean-for-rebuild
\* interrupted between its removals (pkg-generic.mk:440-444) included.  After a
\* plain "make foo" they do too, except where that very interruption, a
\* foo-clean or a .stamp_built removed by hand left an install stamp without
\* .stamp_built (foo is stale: foo is built again but only installed where a
\* stamp is missing), or where an interrupted removal of the build tree left
\* stamps (torn).
DestinationsAgree ==
  [][/\ Succeeds
     /\ \/ goal[1] \in {"rebuild", "reconfigure"}
        \/ goal[1] = "pkg" /\ goal[2] \notin stale /\ torn[goal[2]] = {}
     => \A d, e \in InstallTo[goal[2]] : inst[goal[2]][d] = inst[goal[2]][e]]_vars

\* The stamps of p that say that it has reached each of the stages of PkgLife.
Landmarks(p) ==
  [prepared   |-> IF p \in Overrides THEN {"rsynced"} ELSE {"patched"},
   configured |-> {"configured"},
   built      |-> {"built"},
   installed  |-> {InstallStamp[d] : d \in InstallTo[p]}]

\* A package that is installed nowhere never reaches the last one.
Reached(p) == {s \in DOMAIN Landmarks(p) : /\ Landmarks(p)[s] # {}
                                           /\ Landmarks(p)[s] \subseteq stamps[p]}

Requires == [p \in Packages |->
               {q \in {Deps[p][i] : i \in DOMAIN Deps[p]} : InstallTo[q] # {}}]

Life == INSTANCE PkgLife WITH reached <- [p \in Packages |-> Reached(p)]

\* Whatever goals the user asks for, in whatever order, with removals and
\* failures in between, a package takes each step on top of the steps before
\* it, and is configured, built and installed only while everything it depends
\* on is installed, although the stamps' rules name no prerequisites: the order
\* of the prerequisites of the human-friendly targets is all there is to it
\* (pkg-generic.mk:355-424).
StagesInOrder == Life!Spec

\* Every invocation of make comes to an end.
MakeEnds == stack # <<>> ~> stack = <<>>

\* A full build that meets no further fault, on trees whose stamps can be
\* trusted and whose patch step was not interrupted, installs everything:
\* whatever earlier invocations left unfinished, running make again resumes it.
Resumable == \A p \in Packages :
  /\ torn[p] = {}
  /\ p \notin Overrides /\ "patched" \notin stamps[p] => tree[p].patches = 0

WorldResumes ==
  goal # <<>> /\ goal[1] = "world" /\ faults = 0 /\ Resumable
    ~> \A i \in DOMAIN TargetsAll : Installed(TargetsAll[i])

=============================================================================
