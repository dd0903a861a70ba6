CONSTANTS
  Descriptors <- AllDescriptors
  Clobber = TRUE
  MaxFaults = 2
SPECIFICATION FairSpec
PROPERTY RetryRecovers
