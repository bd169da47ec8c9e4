SPECIFICATION FairSpec
CONSTANTS
  g1 = g1
  g2 = g2
  c1 = c1
  c2 = c2
  d1 = d1
  Gateways = {g1, g2}
  Commands <- OneCommand
  Devices <- OneDevice
  DeviceOf <- AllOnD1
  NoOwner = NoOwner
  NoCommand = NoCommand
  MaxAttempts = 2
  ClaimLimit = 1
  MaxFaults = 1
  MaxLog = 2
INVARIANTS ClaimsFenced AttemptsBounded ResultsBacked RunsOncePerBoot
PROPERTIES ImplementsLifecycle EveryCommandDecided
