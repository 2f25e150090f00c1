SPECIFICATION Spec
CONSTANTS
  tc = tc
  tool = tool
  lib = lib
  app = app
  Packages = {lib}
  Deps <- MCDeps
  Rank <- MCRank
  HostPkgs <- MCHostPkgs
  Overrides <- MCOverrides
  InstallTo <- MCInstallTo
  NPatches <- MCNPatches
  Toolchain = lib
  TargetsAll <- MCTargetsAll
  GoalKinds = {"pkg", "rebuild", "reconfigure", "uninstall", "clean", "dirclean"}
  HandRemovable = {"configured", "built"}
  CutRemovals <- MCCutRemovals
  MaxGen = 2
  MaxFaults = 2
INVARIANTS
  StampSound
PROPERTIES
  PatchedBeforeConfigure
