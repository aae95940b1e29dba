SPECIFICATION Spec
CONSTANTS
  Inodes = {1, 2, 3, 4}
  Clients = {c1, c2}
  Releases = {1, 2}
  MaxEvents = 4
  Overlap = FALSE
INVARIANTS StateTypeOK FileWhole StoreMatchesRelease
PROPERTIES ClientIdStable EventsKept
