\* One row, two workers, faults: claims expire, are stolen and reclaimed.
CONSTANTS
  Events = {1}
  Namespaced = {}
  Workers = {w1, w2}
  NoEvent = NoEvent
  Limit = 2
  RetryFailed = TRUE
  MaxAttempts = 2
  RetryBase = 1
  RetryMax = 2
  ClaimTimeout = 2
  PublishTimeout = 1
  Horizon = 0
  MaxFaults = 3
  MaxFlips = 0
SPECIFICATION Spec
SYMMETRY WorkerSymmetry
INVARIANTS
  TypeOK
  ClaimsAccounted
  OneOwner
  LockedRowIsStable
  DeadLetterWasRefused
  DuplicatesNeedFaults
PROPERTIES
  StaleWorkerIsInert
  SettledIsFinal
  KeepsDeliveryPromise
