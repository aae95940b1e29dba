SPECIFICATION Spec
CONSTANTS
  Patches = {1, 2}
  Urls = {u1, u2}
  None = None
  Updaters = {t1, t2}
  RangeAnswers = {"200", "206"}
  ConcurrentBoot = TRUE
  KillInSection = FALSE
  Damage = FALSE
  CacheCleared = TRUE
SYMMETRY Symmetry
INVARIANTS ValidatedNextInstalled InstalledReachable NextNotTombstoned InstalledIsWhole NoUpdateMeansCurrent
