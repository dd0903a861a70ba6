CONSTANTS
  Descriptors <- AllDescriptors
  Clobber = FALSE
  MaxFaults = 3
SPECIFICATION Spec
INVARIANTS TypeOK AtomicPublish GuardedCheckoutSound RemovedOnlyWhenUnpacked OrdinaryFreshRunSucceeds
PROPERTY NothingUndone
