SPECIFICATION LimiterSpec
CONSTANTS
  Senders = {t1}
  Ticks = 2
  Scale = 2
  Initial = 6
  Opening = 4
  ServerLimits = {3, 6}
  Remaining = {0, 2}
  MaxTicks = 5
INVARIANT RemainingIsHonoured
CHECK_DEADLOCK FALSE
