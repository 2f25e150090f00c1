SPECIFICATION Spec
CONSTANTS
  tc = tc
  tool = tool
  lib = lib
  app = app
  Packages = {tc, tool, lib}
  Deps <- MCDeps
  Rank <- MCRank
  HostPkgs <- MCHostPkgs
  Overrides <- MCOverrides
  InstallTo <- MCInstallTo
  NPatches <- MCNPatches
  Toolchain = tc
  TargetsAll <- MCTargetsAll
  GoalKinds = {"world", "dirclean", "top-clean"}
  HandRemovable = {}
  CutRemovals <- MCCutRemovalsWorld
  MaxGen = 1
  MaxFaults = 2
INVARIANTS
  TypeOK
PROPERTIES
  DepsBeforeConfigure
  ToolchainFirst
  MakeEnds
  WorldResumes
  StagesInOrder
