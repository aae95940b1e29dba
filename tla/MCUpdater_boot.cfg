SPECIFICATION Spec
CONSTANTS
  Patches = {1, 2}
  Urls = {u1}
  None = None
  Updaters = {t1, t2}
  RangeAnswers = {"200", "206"}
  ConcurrentBoot = FALSE
  KillInSection = TRUE
  Damage = TRUE
  CacheCleared = FALSE
SYMMETRY Symmetry
INVARIANTS TypeOK FallbackKept ValidatedNextInstalled SerialInv
PROPERTIES TombstonePermanent ImplementsContract
