\* Two rows, one of them namespaced, two workers, one fault, two flips of the kill-switch.
CONSTANTS
  Events = {1, 2}
  Namespaced = {2}
  Workers = {w1, w2}
  NoEvent = NoEvent
  Limit = 1
  RetryFailed = TRUE
  MaxAttempts = 2
  RetryBase = 1
  RetryMax = 1
  ClaimTimeout = 1
  PublishTimeout = 0
  Horizon = 0
  MaxFaults = 1
  MaxFlips = 2
SPECIFICATION FairSpec
PROPERTIES
  PausedOnceDrained
  EventuallySettled
