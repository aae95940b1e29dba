SPECIFICATION Spec
CONSTANTS
  Patches = {1, 2}
  Urls = {u1}
  None = None
  Updaters = {t1}
  RangeAnswers = {"206"}
  ConcurrentBoot = FALSE
  KillInSection = TRUE
  Damage = FALSE
  CacheCleared = FALSE
INVARIANT NoUpdateMeansCurrent
