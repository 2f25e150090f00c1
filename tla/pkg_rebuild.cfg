SPECIFICATION Spec
CONSTANTS
  tc = tc
  tool = tool
  lib = lib
  app = app
  Packages = {app}
  Deps <- MCDeps
  Rank <- MCRank
  HostPkgs <- MCHostPkgs
  Overrides <- MCOverrides
  InstallTo <- MCInstallTo
  NPatches <- MCNPatches
  Toolchain = app
  TargetsAll <- MCTargetsAll
  GoalKinds = {"pkg", "source", "rebuild", "reconfigure", "uninstall", "dirclean", "clean"}
  HandRemovable = {"built"}
  CutRemovals <- MCCutRemovals
  MaxGen = 2
  MaxFaults = 2
PROPERTIES
  RebuildDelivers
  DestinationsAgree
