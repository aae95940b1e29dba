SPECIFICATION DeliverySpec
CONSTANTS
  Radix = 2
  Word = 16
  Data = {0, 3}
  MaxOld = 5
  MaxNew = 6
  Slack = 1
  MaxShipped = 8
  Unknown = Unknown
INVARIANTS DeliveryTypeOK PatchRebuilds ScoreIsWindow RoundTrip FileIsPrefix TombstoneHasCause
PROPERTIES MakerEnds EveryStepAdvances
CHECK_DEADLOCK FALSE
