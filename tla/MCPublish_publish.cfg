SPECIFICATION Spec
CONSTANTS
  Releaser = r1
  Patchers = {p1}
  Versions = {1}
  Builds = {b1, b2}
  NoBuild = NoBuild
  Archs = {arm64, arm}
  MaxPatches = 1
SYMMETRY Symmetry
INVARIANTS PublishTypeOK ActiveIsComplete OneReleasePerVersion PromotedIsComplete PatchFitsRelease
