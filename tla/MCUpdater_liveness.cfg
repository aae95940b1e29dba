SPECIFICATION FairSpec
CONSTANTS
  Patches = {1, 2}
  Urls = {u1}
  None = None
  Updaters = {t1}
  RangeAnswers = {"200"}
  ConcurrentBoot = FALSE
  KillInSection = FALSE
  Damage = FALSE
  CacheCleared = FALSE
PROPERTIES OfferResolved RollbackTakesEffect
