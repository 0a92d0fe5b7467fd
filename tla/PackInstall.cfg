\* Two processes install, upgrade and uninstall packs that depend on each other.
SPECIFICATION Spec
CONSTANTS
  p1 = p1
  p2 = p2
  lib = lib
  app = app
  tool = tool
  Free = Free
  Proc = {p1, p2}
  Name = {lib, app, tool}
  Artifact <- Packs
SYMMETRY ProcSymmetry
INVARIANTS
  TypeOK
  RequirementsMet
  LockedIsCached
PROPERTIES
  NoLostUpdate
  SameVersionSameContent
