\* The root of an installed bundle cannot be uninstalled.
SPECIFICATION Spec
CONSTANTS
  p1 = p1
  p2 = p2
  lib = lib
  app = app
  tool = tool
  Free = Free
  Proc = {p1, p2}
  Name = {lib, app, tool}
  Artifact <- Packs
SYMMETRY ProcSymmetry
INVARIANTS
  UninstallsWhatNobodyNeeds
