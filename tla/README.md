# A verification project for Buildroot (Hach AT91 fork, 2013.11)

TLA+ modules of the parts of this Buildroot tree that decide what gets
configured and built, in which order, and what a program or a build leaves
behind when it is interrupted; TLC configurations that check them on small
instances; and theorems that TLAPS checks for every instance.

Paths below are relative to the root of the repository unless they name a
`.tla`, `.cfg` or `.json` file of this directory.

## 1. Inventory

### The system

Buildroot is a set of makefiles and shell scripts. One `make` reads the
configuration, works out which packages are wanted and runs, for each package,
a fixed chain of steps; then it cleans up the target directory, runs the
post-build scripts on it and packs it into one file system image per
configured format. There is no daemon and no database: the state is files, and
every invocation of make starts from the files that the earlier ones, finished
or not, left behind. What is to be built is the result of a small language:
`Config.in` files declare symbols with dependencies, defaults, ranges, selects
and choices, and the programs of `support/kconfig` compute `.config` from them
and from what the user asks for. Those two, files that survive and values that
depend on one another, are where its correctness is hard, and what this project
is about.

| component | source | state | operations | interacts with |
|---|---|---|---|---|
| package infrastructure | `package/pkg-generic.mk` | stamp files, build trees, staging/target/images/host directories | download, extract or rsync, patch, configure, build, install; rebuild, reconfigure, uninstall, clean, dirclean | called by the top-level makefile; calls download and apply-patches.sh |
| top-level makefile | `Makefile` | the target graph of one invocation | world, toolchain, clean, target-finalize, post-build and post-image scripts, legal-info | includes everything |
| download | `package/pkg-download.mk` | the download directory, shared by all builds of a user | eight methods, tried site after site | called by the download step |
| patching | `support/scripts/apply-patches.sh` | the source tree, `.applied_patches_list` | scan directories, series files and archives for patches, apply them | called by the patch step and by linux, u-boot, ... |
| users and groups | `support/scripts/mkusers` | `etc/passwd`, `shadow`, `group`, `gshadow` of the target | five passes over the users table | run once per image by `fs/common.mk` |
| root filesystem images | `fs/common.mk`, `fs/*/*.mk` | the fakeroot script, device table, users table, images | one recipe per image format | runs mkusers, makedevs and the image tool on the target directory |
| device tables | `package/makedevs/makedevs.c` | nodes, owners and modes in the target directory | interpret one table line after the other | run under fakeroot |
| target finalisation | `Makefile` (target-finalize), `system/system.mk` | the target directory | strip, purge, host name, getty, root password, overlay, post-build scripts | after all packages, at every make |
| Hach scripts | `support/scripts/post-op-functions.sh` and the scripts that use it | `etc`, its symbolic link, `shadow`, permissions | move etc to the writable partition and link it, rewrite shadow, set up SFTP, network, keyboard, touch screen | post-build scripts of `configs/hach-*_defconfig` |
| image scripts | `generate-*.sh`, `update-*rootf*.sh` | copies of the images | run make for a defconfig, copy results | call make |
| dependency expressions | `support/kconfig/expr.c`, `zconf.y` | expression trees | build, transform, simplify, compare, print, evaluate | used by all of kconfig |
| menu tree | `support/kconfig/zconf.y`, `menu.c` | entries linked by list, next and parent; properties of symbols | parse a statement, finalize, check for recursion | made once by each program |
| symbol values | `support/kconfig/symbol.c` | a cache of values with valid and write flags; what the user set | calculate on demand, set, offer | read and set by the programs |
| configuration files | `support/kconfig/confdata.c` | `.config`, defconfig, `auto.conf`, `autoconf.h`, the change count | read, write, minimise, fill in what is new, synchronise | make reads `auto.conf` |
| configuration programs | `conf.c`, `mconf.c`, `nconf.c`, `gconf.c`, `qconf.cc` | one process at a time, its screen | modes of `conf`; menus, edits, load, save, quit | run by `Makefile:640-760` |
| kernel | `linux/linux.mk` | kernel build tree, images | a package with its own commands, and a second build for an initramfs | package infrastructure, images |
| toolchain | `toolchain/`, `ext-toolchain-wrapper.c` | host and staging directories | import or build a toolchain, wrap its compilers | package infrastructure |
| autotools, cmake | `package/pkg-autotools.mk`, `pkg-cmake.mk` | - | commands for the steps | package infrastructure |
| dependency checks | `support/dependencies` | - | look at the host's tools | top-level makefile |
| package recipes | `package/*/*.mk`, `boot/*`, `linux` | - | data for the infrastructure | package infrastructure |
| start-up scripts | `system/skeleton/etc/init.d` | processes of the target | start and stop services in order | run on the target |
| reports | `support/scripts/graph-depends`, ... | - | read the tree and print | - |

### What is hard

* **Crashes and restarts.** A build takes hours and is interrupted, or fails,
  anywhere. A stamp is touched last (`pkg-generic.mk:53-166`), but removals go
  in various orders (`171-190`, `436-450`), the patch step is not idempotent
  (`95-109`), and a download is recognised by its name alone
  (`pkg-download.mk:83-217`).
* **Ordering.** The order of the steps and of the packages exists only as
  prerequisites spread over a dozen rules, walked depth first by a make that
  is told not to be parallel (`Makefile:64`).
* **Staleness.** Stamps have no prerequisites: make never notices that a
  source, a configuration or an earlier step has changed; `foo-rebuild` and
  `foo-reconfigure` must remove the right stamps.
* **Interleaving.** Builds with different output directories share the
  download directory.
* **Repetition.** The target directory is worked on in place at every make and
  for every image: mkusers, the overlay and the post-build scripts meet their
  own earlier results.
* **Evaluation on demand.** The value of a symbol is cached, calculated when it
  is looked at, and depends on others that may be half calculated; showing a
  menu, asking a question and writing a file all calculate
  (`symbol.c:292-428`, `menu.c:433-468`).
* **Rewriting in place.** Dependencies are simplified by rules on pairs of
  operands, and the menu tree is relinked while it is walked
  (`expr.c:346-612`, `menu.c:262-420`).
* **Replacing files.** `.config` and the files made from it are replaced by
  programs that may be killed or fail at any system call (`confdata.c:729-830,
  959-1048`).
* **Allocation.** User and group ids are given or automatic, from a range that
  can run out, over tables that name the same user or group several times.

### What makes each component correct

* *Package infrastructure*: stamps tell the truth; a package is configured
  only when its dependencies are installed; a half-patched tree is never
  built; rebuild delivers what the sources are now, to all destinations alike;
  every make ends; make run again after a failure completes the build.
* *Download*: what has the archive's final name is the complete archive, and
  stays it; what a failed download leaves does not make later ones fail;
  builds in parallel do not damage each other.
* *Users*: ids are unique, given ids win, existing ids are stable, every user
  is in its groups, and running for a second image changes nothing.
* *Configuration*: simplifying a dependency never changes what it asks for;
  the tree keeps every entry, its conditions and its reachability; a cached
  value is what a new calculation would give; a choice has exactly one value;
  what is offered takes effect; what is written is read again, by defconfig
  too; oldconfig ends with nothing left to ask; a program that ends without a
  question loses nothing; saves are atomic and the build misses no change.
* *Device tables*: a run that reports success has given every row its nodes,
  owners, modes and numbers, and all images get the same.
* *Images and finalisation* (planned beyond the above): the same target
  directory gives the same image whether it is the first or a later make.
* *Patch scan* (planned): the result is what reading the patch directory in
  order says.

## 2. Modules

| module | what it is |
|---|---|
| `PkgGeneric` | the package infrastructure run by one sequential make |
| `MCPkgGeneric` | four packages: toolchain, host tool, patched library, override application |
| `PkgGeneric_proofs` | theorems about `PkgGeneric`: types, stamps, dependencies, patches |
| `PkgGoals_proofs` | the theorems about what a goal promises |
| `PkgProgress_proofs` | the theorems about the progress of make |
| `PkgLife` | the stages of a package, and what has to be installed for each |
| `PkgLife_proofs` | the theorem that `PkgGeneric` implements `PkgLife` |
| `Archive` | what a download promises to the build that asked for it |
| `Download` | the download step of any number of builds that share a directory |
| `MCDownload` | its small instances |
| `Download_proofs` | theorems about `Download`, among them that it implements `Archive` |
| `MkUsers` | support/scripts/mkusers, run after run |
| `MCMkUsers` | its tables and skeleton |
| `MkUsers_proofs` | theorems about `MkUsers` |
| `KExpr` | `expr.c`: expressions as tuples, and every operation on them |
| `KDep` | the way of one dependency from the parser through `menu_finalize` |
| `KMenu` | `menu.c`, and the recursion check of `symbol.c`: the tree as a record |
| `KTree` | `conf_parse`: a file read statement by statement, finalized and checked |
| `KSymbol` | `symbol.c`: values calculated on a heap of cached values |
| `KConfdata` | reading, writing and minimising configuration files |
| `KSession` | what the programs share: files, the symbols of the one that runs |
| `KConf` | `conf` in all its modes |
| `KFront` | mconf and nconf, gconf and qconf |
| `KConfig` | the composition of `KConf` and `KFront`: programs one after the other |
| `AtomicSave` | what saving a configuration promises |
| `KSave` | `conf_write` and `conf_write_autoconf`, system call by system call |
| `KSave_proofs` | theorems about `KSave`, among them that it implements `AtomicSave` |
| `MakeDevs` | makedevs run for image after image |
| `MakeDevs_proofs` | theorems about `MakeDevs` |
| `MCKDep`, `MCKTree`, `MCKConfig`, `MCKSave`, `MCMakeDevs` | their small instances |

`PROJECT.json` says for each definition which lines it models.

### PkgGeneric

The state is what survives an invocation of make: per package the stamps
(`stamps`), the archive (`dl`), the build tree (`tree`: version of the
sources, number of patches, version of the configuration, what the objects
were compiled from) and what each destination holds (`inst`); and the
invocation itself: the path of targets from the goal to the one under
consideration (`stack`), the targets finished with (`done`), the goal. The
versions `srcdir` and `cfg` stand for what the user can edit. Contents are
version numbers, 0 being absent or incomplete.

*Target graph.* `Prereqs` is the rules of `pkg-generic.mk:355-451` and
`Makefile:400,410`: for each human-friendly target its prerequisites in
order. `Descend` takes make one level down, each prerequisite once per
invocation; a target whose prerequisites are finished is `Ready`. A stamp that
exists is up to date (`UpToDate`), one that does not has its recipe run.

*Recipes.* One action per recipe (`Download`, `Extract`, `Rsync`, `Patch`,
`Configure`, `Build`, `Install`, `RsyncSource`, `Uninstall`, `CleanPackage`,
`Dirclean`, `CleanForRebuild`, `CleanForReconfigure`, `CleanAll`), the stamp
being touched in the same step as the commands. What an interruption or a
failing command leaves is an action of its own for each (`...Cut`): the
commands done in part, or all of them, and the stamp not touched (a hook that
fails after the commands does this without any interruption), or, for the
recipes that remove, the removals done in part, in the order of the lines;
before the first command nothing has changed (`Interrupted`). A recipe whose
inputs are missing fails (`RecipeFails`), as `configure` does in an empty
tree. Every failure ends the invocation (`Abort`): make is run without `-k`.

*User.* `Make` starts an invocation for one goal. `EditSources`,
`EditTree`, `EditConfig` and `DeleteStamp` are what
`docs/manual/rebuilding-packages.txt` tells users they may do. Sources may be
edited while make runs, the configuration counts from the next invocation.

`torn` is a history variable: the stamps that an interrupted removal has left
although their files are gone. The code has nothing against that (the recipe
removes the stamp last, or with the files in arbitrary order), so the
properties make an exception for them. `stale` is another: the packages with an
install stamp that outlived `.stamp_built` (a clean-for-rebuild cut short between
its `rm`s, `foo-clean`, a stamp removed by hand). A plain `make foo` then builds
again and installs only where a stamp is missing; `DestinationsAgree` says
nothing of a plain `make foo` of such a package, and everything of
`foo-rebuild` and `foo-reconfigure`, whatever was left behind.

*PkgLife* is the abstract specification: a package is prepared (its sources
patched, or rsynced), configured, built and installed, in this order; it goes on
from the first stage only while everything it depends on is installed; and the
user may take any stages away at any time. It knows of no make, no stamp, no
goal. The mapping takes a stage to be reached when its stamps (`Landmarks`) are all
there: one stamp, or for the last stage the stamp of every destination. A stamp
that is not the last of its stage, a target that has no recipe and an edit are
stutters. The prerequisites of the implicit rules say nothing of this order, so
that what is shown is about the walk: which targets make has finished when it
comes to a stamp, and that nothing it relies on has been removed since.

### Download

A file is an inode: names (`final`, `tmp`) refer to it and processes write to
it (`fd`, `pos`), also when the name has meanwhile gone to another inode or to
none; its content is the set of chunks that are there. Each build has a
configuration of its own (`setup`): primary site, method of the package,
backup site. This is what decides
what two builds do to each other: `wget -O` empties the inode under another
build's wget, `mv` renames the inode the other is still writing to, `rm -f`
takes the name away. `Attempts` is the chain of sites of `DOWNLOAD_INNER` for a configuration;
`TestExists` the `test -e` that every method begins with; the other actions
are the commands of the methods, grouped into those that use a temporary file
(wget), those that write the final name (scp, bzr, cp) and those that check out
and pack (git, hg, svn, cvs). There is one checkout directory (`clone`) for all
builds: what is packed is what it holds at that moment, and `ArchiveDone` removes
it under whoever else works in it. git, hg and svn refuse a directory that is
there, so that only a cvs build can share it with another; the code has nothing
against that, and `ParallelSettles` leaves it out (`OwnCheckout`). `Interrupt` kills the processes of a build at any
point and leaves the files.

*Archive* is the abstract specification: the archive is absent or complete, a
download that succeeds leaves it complete, and it never goes. `Held` and
`Succeeded` are the mapping, under which a whole run of wget into the temporary
file is a stutter and the `mv` the one step that counts. This is also what
`PkgGeneric` takes a download to be: `Download` and `DownloadCut` put a whole
archive into `dl` or nothing. The condition under which `Download` keeps the
promise (`OneBuild`, `WgetOnly`) is therefore the one under which the two models fit
together; for the other methods and for several builds see the hazards.

### MkUsers

`etc/passwd` and `etc/group` are functions from the names to ids and members.
`pass`, `row` and `extra` are where the script is in its five readings of the
table; each line of the table is one step, as are the error paths
(`GroupsFull`, `UserInvalid`, `UserRejected`), which end the script by `set -e`
and leave the files as they are, and `Interrupt`, which may also hit between
the removal of a line and its replacement. `Start` is the next image of the
same make, or of a later one with another table. A password is abstracted to
whether it is in clear, a home to `-`, `/` or another path: this is what makes
the script fail. Ids are compared as numbers and names as values; that a name
is also used as a regular expression by sed is left out.

### The configuration system

The modules are layers, each extending the one below: `KExpr`, `KMenu`,
`KSymbol`, `KConfdata`, `KSession`, and on it `KConf` and `KFront`, which
`KConfig` composes. The lower four have no state: the functions of C that
rewrite a tree or a cache are operators that take it and return what they
leave. Two state machines stand beside them to drive the lower layers through
inputs no fixed list would hold: `KDep` builds a dependency operand by operand
and takes it through the stages of the code, `KTree` builds a file statement
by statement.

*KExpr.* An expression is a tuple headed by its type. Where the C code passes
two pointers that may lie in one tree (`expr_eliminate_dups1` and `2`) the
operators work on paths into one tree, so that what one rewriting does to the
other operand is there.

*KMenu, KTree.* The tree is a record of entries, linked as in C by `list`,
`next` and `parent`, and of properties; `menu_finalize` is the recursion of the
source, with the relinking of automatic submenus and of choices, and `KTree`
keeps beside it, in `want`, what the language says the condition of each entry
is. Expressions are values, with one exception that matters: `menu_add_prompt` gives
a prompt the visibility of the menu above without a copy, and `menu_finalize` may
rewrite and free these nodes when it propagates a dependency to the prompt. `shared`
and `freed` follow this, and a file for which it happens ends in the phase
"undefined", of which the properties say nothing; it takes a menu with a `visible if`,
which no `Config.in` file of Buildroot has. Types of symbols are constants, so that the propagation of types in a
choice is left out.

*KSymbol, KConfdata.* The heap holds per symbol the cached value, visibility,
reverse dependency, what the user set and the flags `SYMBOL_DEF_USER`,
`_VALID` and `_WRITE`. A calculation returns the heap it leaves, in the order in
which the source calculates: this is what makes stale values possible and
`CacheCoherent` worth checking. `stale` of the heap is a history variable: reading a
file has dropped an integer that is out of range, which invalidates that symbol
and nothing that was calculated from it (`confdata.c:451-454`), and no symbol has
changed since. `CacheCoherent` makes an exception for that. A file is a sequence of lines. Buildroot has no
`MODULES` symbol, so `modules_val` is no and every tristate behaves as a
boolean.

*KConf.* `todo` is the call stack of the walk over the menu tree; `conf` and
`check_conf` each do one entry, with every answer the user may give, and `Finish`
writes what the mode writes. `Seeded` are the symbols that
`KCONFIG_ALLCONFIG` gives (`Makefile:681-709`). `ChooseIn` has a branch for a
choice that is n which only an optional choice reaches; the instances have
none, as Buildroot has none.

*KFront.* `PressKey` is one turn of the loop of mconf and nconf on the menu at
`at`, `LeaveScreen` what their other screens do (load, save, end), `HandleEvent`
an event of gconf or qconf. Drawing is a calculation and so part of every step.
`fresh` is a history variable: the program has not reset its change count by a
load that failed, by loading another file (gconf, qconf) or by a save under
another name (gconf).

*KSave.* The same files again, at the grain of system calls: a save writes
line by line to a temporary file, moves `.config` to `.config.old`, renames;
`silentoldconfig` compares symbol by symbol, touches, and renames three files,
`auto.conf` last. `Killed` may come after each, `RenameFails` where the source
looks at the result; `LoseLine` where it does not, the results of `fprintf` and
`fclose` being ignored (`confdata.c:798, 815`): a line may be `Lost`, and the file is
renamed over `.config` all the same. That lines of `auto.conf`, `autoconf.h` and
`tristate.conf` may be lost in the same way (1003-1023) is left out. Calculating all
symbols anew before writing also sets the change count (`symbol.c:437`), which
only a rename that works clears. `Build` is the make that sees the touched files. `Retries`
says whether a user saves again, with nothing changed in between, after a save
that failed: the one thing under which the code does not keep its promise.
`KCONFIG_OVERWRITECONFIG`, which no makefile of Buildroot sets, is left out.

### MakeDevs

The target directory is a function from paths to kind, owner, mode and number.
One action per kind of row, one step per node of a batch; `user` and `group`
keep what the row before left, because the C buffers do. `BeginImage` starts
the fakeroot of the next image: `chown -R` first, and the devices of the image
before are ordinary files of nobody. `MakeImage` ignores the exit status, as the
fakeroot script does; `Killed` ends a make in the middle. Numbers are taken
modulo `IntSize`. How the number of a batch is printed into a name is the
constant `Numbered`, of which `TablesAssumption` says all that matters: two
numbers of one batch give two names (`%s%d`).

## 3. Runs

There is one run for each question.
All runs use the module's `Spec`, without constraints or symmetry. Deadlock is
not checked where the system may stop for good: when the bounds on runs,
edits and faults are used up and nothing is asked for any more.

| run | instance and bounds | shows |
|---|---|---|
| `pkg_stamps` | one patched package, all goals that remove stamps, stamps deleted by hand, one edit, two faults | `StampSound`: a stamp tells the truth; `PatchedBeforeConfigure`: a tree patched in part or twice is never configured |
| `pkg_rebuild` | an override package installed to staging, target and images, edited before and during makes; the goals of a package, rebuild, reconfigure and foo-clean among them; `.stamp_built` removed by hand; two faults | `RebuildDelivers`, `DestinationsAgree` |
| `pkg_world` | toolchain, host tool <- library; world, dirclean, clean, two faults | `TypeOK`; `DepsBeforeConfigure`: dependencies are installed in every destination when a package is configured; `ToolchainFirst`; `MakeEnds`; `WorldResumes`: make run again after failures installs everything; `StagesInOrder`: `PkgGeneric` implements `PkgLife` |
| `mkusers` | tables of one or two of 17 rows, ids 3 and 4 (and 5 given), two runs on the same files | `IdsUnique`; `RowsHonoured`; `StableIds`: an automatic id never replaces an existing one; `Repeatable`: the second image gets the users of the first |
| `download_alone` | one build, 17 configurations of primary site, method and backup site, three downloads, two interruptions | `FetchesAtomically`: with wget `Download` implements `Archive`; `CompleteStays`: a complete archive is never touched again; `RetryWorks`: with a backup site leftovers never make a download fail |
| `download_pair` | two builds at the same time, each with one of five configurations | `ParallelSettles`: what they leave when both are done and nothing failed is complete, if a build that uses cvs is the only one that checks anything out |
| `kdep` | two booleans, a tristate and the constant m; three pools of operands: three or two of every kind, four plain symbols | `MeaningKept`: at every stage a dependency means what the file says, exactly in a configuration without modules, and off by one at most with an m; `StagesKeep`: what each stage promises the next; `PrintKeepsMeaning`: what is shown to the user reads back as the same |
| `ktree` | files of up to three config statements with one block (if, menu, choice) or one select, and of two with two blocks; conditions A, !B or none | the finalized tree against the language: `TreeIntact`, `ScopeRespected`, `NoHiddenPrompt`; `RecursionReported` |
| `kconfig` | four Config.in trees (selects and a menu under a symbol, a choice, ranges that follow a symbol, a value that follows an integer) with eight sets of files and programs; two programs, three user actions | `CacheCoherent`; `OneChosen`; `OfferedTakesEffect`; `WrittenIsRead`; `DefconfigRestores`; `SilentEndLosesNothing`; `NothingLeftToAsk`; `ConfEnds` |
| `ksave` | three symbols, five programs, changes, failures and lost lines | `TypeOK`; `UnsavedIsMarked`; `AutoLast`; `NoChangeMissed`; `SavesAtomically`: `KSave` implements `AtomicSave` under `saved <- Saved` |
| `ksave_retry` | two symbols, six events, `Retries` | fails: see below |
| `makedevs` | tables of up to three of 15 rows, three images, numbers modulo 8 | `SuccessMeansDone`: success means that every row has had its effect; `ImagesAlike`: once makedevs has succeeded it succeeds for every later image, with the same devices |

The type invariants of `PkgGeneric` and `KSave` are checked and proved, those of
`Download` and `MkUsers` are proved only; elsewhere the properties look at every variable that a
wrong step could corrupt.

Two faults are the smallest number at which one interruption meets what
another left (an interrupted removal after an interrupted build); three
downloads let a third meet the leftovers of two. A package, the one it needs
and the toolchain are enough for a dependency to be finished in one invocation
and removed in the next; two rows are what it takes for users to clash, and two
runs for a run to meet what another, finished or cut short, left. Two ids in
the range make it run out. Two or three chunks distinguish empty, partial and
complete, and a hole from a prefix.

The rules of `expr_eliminate_dups2` look at pairs of operands, and a pair on
each side of an operator makes four. An entry, the one it moves under and the
one after it are the three entries of `ktree`, and one block inside another or
after another is what two blocks give; three entries with two blocks have too
many files for a run of minutes. In `kconfig` the second program meets what
the first wrote, and three actions let a user load or save, change something and
leave; the trees were chosen so that a value depends on a select, a choice, a
visibility or a range that another value changes. Five events of `ksave` give two
programs, a change and two faults or kills. In `makedevs` three rows are a
batch, a row that names one of its nodes, and a row below it.

### Where the program does something else than its documents say

`ksave_retry` checks what the help of the save dialog promises, that saving to a
file lets one retrieve the current configuration (`mconf.c:224-228`), and fails:
after a save whose rename failed, the next one, with no change in between,
reports success and leaves a file without the lines of the symbols, because the flags
that say what to write were cleared the first time (`confdata.c:796`, `778-779`).

The models have more such steps, which have no run of their own. They were
found by checking what a document says; the steps are in the modules, named
here in parentheses.

* The comment above the rules and the manual put a package's dependencies
  before its extraction (`pkg-generic.mk:391-396`,
  `docs/manual/package-make-target.txt:20-35`); the rules extract first
  (`SourcePrereqs`), so that extract commands cannot use a tool the package
  depends on.
* `foo-clean` runs the clean commands before it removes `.stamp_built`
  (`pkg-generic.mk:171-172`, `CleanPackageCut`): when they fail half way the
  stamp stays without the objects and the next make skips the build.
* The check "the group does not already exist with another gid"
  (`mkusers:108,139-142`) comes after the group has been replaced
  (`AddOneGroup`) and can never fail.
* A password in clear, as in the examples of the manual, always fails:
  `encode_passwd` (`mkusers:310`, `Rejected`) does not exist.
* Builds that share the download directory, which is the default, take each
  other's half-written temporary file for the archive (`pkg-download.mk:203-205`,
  `WgetOpen`, `WgetMove`; `docs/manual/common-usage.txt:46-48` says that
  parallel builds are safe).
* A recursive dependency through the choice symbol itself is not reported
  (`symbol.c:1170`): `RecursionReported` leaves it out.
* A front end that fails to load a file has reset its change count
  (`confdata.c:406`) and then ends without asking; gconf and qconf also do after
  loading another file, and gconf after a save under another name.
* When the disk is full conf_write renames a truncated file over `.config` and
  reports success (`confdata.c:798, 815`, `LoseLine`).
* An integer of the file that is out of its range is dropped after other symbols
  have been calculated from it; they keep these values until something changes
  (`confdata.c:451-454`, `DropOutside`).
* The visibility of a menu is shared by all prompts in it and may be freed
  through one of them while the others use it (`menu.c:151-153, 306-308`,
  `expr.c:543`, `PropagateToProp`).
* `foo-clean-for-rebuild` interrupted between its removals, and then `make foo`:
  the new build is installed in some destinations only (`pkg-generic.mk:440-444`,
  `CleanForRebuildCut`).
* Two builds with cvs share the checkout directory: the `rm -rf` of one empties what
  the tar of the other packs (`pkg-download.mk:127-128`, `ArchiveDone`).
* conf at the end of its input reads its last line again and again when that
  holds an answer out of range (`conf.c:137-162`, `xfgets` 701), qconf saves to
  `.config` whatever name it is given (`qconf.cc:1491-1497`), gconf ends even if
  the save it offered has failed (`gconf.c:470`), and after a curses front end
  has loaded another file it saves to that one (`mconf.c:838`).
* A row of a device table for a directory whose name is taken by a file changes
  that file and reports nothing (`makedevs.c:449`, `Directory`); a row of less
  than five fields gets an owner from an uninitialised buffer (414-424); and a
  row that fails does not stop the image, because the fakeroot script does not
  look at the status (`fs/common.mk:78`, `MakeImage`).

Also: deleting `.stamp_configured` reconfigures without recompiling
(`pkg-generic.mk:387-388`; `rebuilding-packages.txt:64-66` says otherwise);
`get_ugid` never finds a user because of `awk -F:i` (`mkusers:66`), which
disables the checks of a user's main group (112, 165-167); groups written by a
run of mkusers that failed can give a later run two groups with one gid; a
checkout method or a scp that stops half way leaves a partial file under the
final name (`pkg-download.mk:91,127,146,163,179`), which the next build, and
for scp the next site of the same download, takes for the archive
(`Config.in:168-170` promises a fallback). "hazards" in `PROJECT.json` lists
them.

### Fairness

`PkgGeneric` and `KConfig` have liveness properties. The specification of
`PkgGeneric` assumes weak fairness of `MakeStep`: an invocation of make that can
go on does go on, which is what a process that is scheduled does; recipes are
assumed to end, as commands that loop for ever are outside the infrastructure. Nothing is assumed
of the user (who may never run make again) nor of faults (which need not
happen). `WorldResumes` speaks of an invocation of `world` that is running when
no more faults come and whose trees are `Resumable`; the exceptions, a torn
removal and a half-patched tree, are real: make does not recover from them
without `foo-dirclean`.

`ConfEnds` assumes that conf goes on (`Goes` of `KConfig`): it is a process that
is scheduled, and a user who gives it answers. `Goes` says that infinitely often
conf is not the running program or a step is taken, which, as no reachable
state of conf is a deadlock (the run checks it), is weak fairness of conf's
actions without their `ENABLED`. That steps then lead to an end is what the
property is about: the loop of oldconfig goes on as long as an answer makes new
symbols visible. Nothing is assumed of the front ends, whose user may stay for
ever.

## 4. Proofs

`PkgGeneric_proofs`, for all packages, acyclic dependency graphs, destinations,
override sets, goals and numbers of faults and edits:

* `TypeCorrect`: `TypeOK`.
* `StampsAreSound`: `StampSound`.
* `DependenciesFirst`: `DepsBeforeConfigure`.
* `PatchesFirst`: `PatchedBeforeConfigure`.

None of them is inductive. `StampSound` says that a stamp is there only with
its evidence, and a step may remove evidence (an uninstall, a rebuild, an
extraction over a built tree) without looking at other stamps: it is the
position of the step in make's walk that makes it right. The inductive
invariant `IInv` therefore adds to the types

* `EngineInv`: the stack is a path of the target graph (`StackIsPath`), the
  prerequisites of a finished target are finished (`DoneIsClosed`), and a
  stamp is reached from the human-friendly targets that name it
  (`StampContext`); a removal comes before or after everything else of its
  package (`RemovalsFirst`, `RemovalsLast`), so that what was finished in this
  invocation is not removed again while make still relies on it;
* `DoneStampsExist`: stamps of finished targets exist;
* `StampOrder`: stamps of later steps come with those of the earlier ones, as
  far as no removal is torn;
* `Sound`: the evidence of each stamp that can be trusted.

`DependenciesFirst` and `PatchesFirst` are then statements about one step:
configure runs only when patch and depends are finished, and finished targets
have their stamps and their stamps the evidence. The assumption used is
`ConstantsAssumption`, in particular that `Rank` decreases along the
dependencies: the dependency graph has no cycle, as make requires.

`Download_proofs`:

* `TypeCorrect`: `TypeOK`, for every set of builds, sites and faults; it needs
  `Placed`, which says that a build past the test is at a site and one that
  writes has a file open.
* `FetchIsAtomic`: `FetchesAtomically`, that is, every step of `Download` is a step
  of `Archive` or a stutter, for one build and wget sites only (`OneBuild` and
  `WgetOnly`) and archives of any size. The invariant `AloneInv` has three parts.
  `WgetInv` says that the process writes the inode of the temporary name, that
  this is not the inode of the final name, that it holds what has been written,
  and that whatever has the final name is complete (`FinalComplete`, which
  `WhatIsThereIsComplete` states on its own). `StayInv` is that of `ArchiveStays`.
  `DoneInv` says that a build whose download is reported as done finds the final
  name there; it is by `DoneInductive` that the name changes its meaning in no
  other step than such a report. Neither precondition can be dropped: of
  several builds one may rename the file the other has just emptied, and the
  other methods write the final name itself.
* `ArchiveStays`: `CompleteStays` for one build and any methods. `StayInv`
  says that a build which is past the test of a site found no archive, and
  that the archive, once there, is the file the build itself is writing.

* `RetriesWork`: `RetryWorks` for one build. `RetryInv` says that, until
  something has failed in this download, the build has a site left (`BackupIsLast`:
  the backup site is the last of every list), and that the temporary file is
  there while wget writes. The remains of earlier failures, a checkout
  directory among them, make other methods fail, but not this one.
* `BuildsSettle`: `ParallelSettles`, for any number of builds and any methods.
  While nothing has failed (`Clean`), each inode that has one of the two names is
  complete or is being written by some build that has put there all that comes
  before its position (`Supplied`, `Underway`), and the checkout directory is whole
  while a build packs it (`CheckoutInv`), which is where `OwnCheckout` is needed: a build that opens the file of
  another empties it, but takes over, and what the other still writes is the same
  bytes at the same places.

`DownloadAssumption` restates the dependencies of `Config.in:136-170` and
`InodesAssumption` that the file system has a free inode.

`KSave_proofs`, for all sets of symbols, values and numbers of events:

* `TypeCorrect`: `TypeOK`, with and without retries.
* `UnsavedMarked`, `AutoComesLast`, `ChangesAreSeen`: `UnsavedIsMarked`, `AutoLast`
  and `NoChangeMissed`, under `~Retries`; the first two speak of all lines that were
  not lost and of a `.config` with no lost line.
* `SaveIsAtomic`: `SavesAtomically`, that is, every step of `KSave` is a step of
  `AtomicSave` or a stutter, with `Saved` (`.config`, or `.config.old` while there
  is none) for the saved configuration; also under `~Retries`, without which
  `ksave_retry` is the counterexample.

The inductive invariant `Inv` adds to the types: `Writing` (what is written so
far is what the program holds or was lost, and a file about to be renamed is complete),
`Marked` (while nothing is marked as changed `.config` holds what is in memory, up
to lost lines), `Syncing` (a
program that synchronises holds `.config`, and each file it has renamed says
so), and `Tracked` (a symbol whose file is not touched has in `auto.conf` the
value that the last build saw, up to those the running program has yet to
compare). `NoChangeMissed` alone is not inductive because a program that is
killed leaves some files touched and `auto.conf` old: `Tracked` says that what is
touched is then never too little.

`PkgGoals_proofs`, on top of `IInv`:

* `ToolchainBeforeOthers`: `ToolchainFirst`. The walk starts at the goal
  (`GoalBelow`), and until `world` is done with the toolchain everything above it
  on the stack is the toolchain or ranks lower (`ToolchainBelow`).
* `RebuildsDeliver`: `RebuildDelivers`, without further conditions. `Delivery`
  follows the goal's package through the invocation: once the removals the goal
  starts with are over (`Cleared`; for a reconfigure there is a point between the
  two, `HalfCleared`) whatever has a stamp is as new as what was there when make
  started (`Current`), and the sources the remaining steps will use are too
  (`SourceThere`). Edits while make runs only make things newer.
* `DestinationsHoldOneBuild`: `DestinationsAgree`, without further conditions.
  `Aged` says that a package that is not stale has no install stamp without
  `.stamp_built`, and `Agrees` that what a trusted install stamp of such a package stands for
  is the last build. For rebuild and reconfigure, of which the property speaks
  also when the package is stale, `Restarted` says that once the removals the goal
  starts with are over the package is neither stale nor torn.

`PkgProgress_proofs`; the first two are for any finite set of packages:

* `EveryStepAdvances`: every step of an invocation ends it or decreases
  `StepsLeft`, a natural number bounded by twice the number of targets. It rests
  on two facts: every prerequisite is `Lower` than its target, in an order made of
  the kind of target, the rank of its package and the step (`PrereqLower`: the
  rules have no cycle, whatever the packages are), and therefore the stack never
  comes to a target it is already at, nor to one make is done with (`Falling`).
* `WorldGetsThere`: a build of `world` that has no fault to come and whose trees
  are `Resumable` never fails (`NoFailure`), stays resumable (`ResumableStep`), comes
  closer to its end with each step and ends with everything installed.
* `BuildsAreComplete`: a build that succeeds (of a package, a rebuild, a
  reconfigure or `world`) leaves a set of installed packages that holds what was
  asked for and is closed under dependencies. The set is what the invocation is
  done with: `DoneIsClosed` carries it through the dozen rules between a package
  and its dependencies, and `DoneStampsExist` and `Sound` to the files. A package
  that no `FOO_INSTALL_x` installs is an exception, for which the rules build
  nothing. No run has this property; it adds to `DepsBeforeConfigure`, which is
  about the moment of configuring only, what earlier invocations took away since.

The first two are `MakeEnds` and `WorldResumes` without the one thing that cannot be
proved here: that make goes on, which is the fairness of `Spec`.

`PkgLife_proofs`, for all packages, dependencies, overrides, destinations and goals:

* `BuildsInOrder`: `StagesInOrder`. A step either adds no stamp, and then it
  withdraws stages or does nothing (`StampsWithdrawn`), or it adds the one stamp
  whose recipe has run (`StampsMove`), which belongs to one stage at most
  (`LandmarksDiffer`). For that stage `StageIsReady` has to show everything `PkgLife` asks:
  from the position of the stamp in the walk (`TopContext`, and `WhyStamp` for the
  stamps whose rules say nothing) follows which targets are finished, from
  `DoneIsClosed` that the stamps of the earlier stages and of the dependencies
  are among them, and from `DoneStampsExist` that they are still there. It goes
  beyond `DependenciesFirst` in that the dependencies are there at each later stage as
  well, also when the package was configured by an earlier invocation and the
  dependency removed in between: the walk then installs it again first.

`MkUsers_proofs`, for all tables, skeletons, users, groups and numbers of runs:

* `TypeCorrect`, `IdsAreUnique` (`IdsUnique`), `RowsAreHonoured` (`RowsHonoured`),
  `IdsAreStable` (`StableIds`) and `RunsAreRepeatable` (`Repeatable`).

The script is five passes over the table, and what each of the properties
says is true only at the end. `IInv` says what is true in between: no uid is
ever given twice (`UidsUnique`), but a gid may be, to a group and to another to
which the table gives it (`GidsUnique`); `IdsKept` and `GroupsThere` follow the ids and
the groups that are written; `RowsSettled`, `MembersAdded` and `LastLineWins` say what
the users added so far have, with several rows for one user. For repeated runs
`LastServed`, `FilesLasting` and `RowsServed` say that the files are what the last
table asks for, and `Unchanging` that a second run with the same table rewrites
what is there, line by line.

`MakeDevs_proofs`, for all tables, target directories and numbers of images:

* `TablesAreDone`: `SuccessMeansDone`. `InProgress` says what the directory is at each
  row and each node of a batch: of the rows that name a file so far the last
  decides on owner and mode, the last that is not for a directory on kind and
  number, and the rest belongs to root (`Effect`). The theorem is about tables in
  which the minor numbers of a batch fit 32 bits (`MinorsFit`): the code checks each
  field of a row but not the sum.
* `ImagesDoNotDiffer`: `ImagesAlike`, without conditions. `ImagesKept` says that the
  directory can always become again what every image so far was (`Alike`): same
  files, same directories, and no difference where no row reaches. It is needed
  because each image starts from what the one before, or a killed one, left.
  `Passed` says of the rows done so far without an error that they can be done again
  (`MknodAgain`, `PassedAfter`), `RowAgain` that this holds for any directory that is alike; so a later image gets
  through the table as an earlier one that succeeded did (`ImagesAgain`).

Only model-checked:

* the liveness properties `MakeEnds`, `WorldResumes` and `ConfEnds`: TLAPS cannot
  prove liveness under fairness here; of the first two the rest is proved;
* `KDep`, `KTree` and `KConfig`. `KExpr` and what extends it are made of recursive
  operators, which TLAPS cannot use; what they compute is the result of an
  induction over expressions and trees, which is out of its reach in any form.

## 5. Not modelled

`PROJECT.json` lists every component with what is left out. In short: `make`
with several goals on one command line, which lets a removal and a build of
the same package share one invocation; `make -j` at the top level, which the
makefile rules out; the commands of the packages (they succeed, fail or are
interrupted); the toolchain's import; documentation and report tools.

Of the configuration system: strings and hexadecimal numbers, which take the
path of the integers; modules, which Buildroot does not have; the dialog
widgets, windows, search and help of the front ends; the lexer and the warnings
of the parser; two programs at once, which nothing in the code prevents or
handles; an input of conf that ends in the middle of an answer.

## 6. Plan

In this order:

1. `ApplyPatches`: the recursive scan of `apply-patches.sh` over directories,
   series files and archives, against a reference definition of the order of
   patches, and what an interruption leaves.
2. `RootfsImage`: target-finalize, overlay, post-build scripts, shadow
   handling, mkusers and the fakeroot script on one target directory, make
   after make and image after image: repeatability, and that a failing step
   fails the image. It composes `MkUsers` through an abstract specification of
   its result, and `MakeDevs`.
3. Several builds that share the download directory, composing the download
   step of `PkgGeneric` with `Download`; for one build and wget `Archive` is the
   interface of the two.
4. `Kernel`: the second pass for an initramfs; `LegalInfo`.
5. Proofs: the invariants of the modules that come.
