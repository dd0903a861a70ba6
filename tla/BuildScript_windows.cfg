CONSTANTS
  osg = osg  poco = poco  proj4rb = proj4rb  mingw = mingw  typo = typo
  Files <- MCFiles
  Words <- MCWords
  Osg = osg
  Defs <- WindowsDefs
  Appends <- MCAppends
  Clears <- MCClears
  InBase <- MCInBase
  Names <- MCNames
  Name <- MCName
  Retrieval <- MCRetrieval
  WorksIn <- MCWorksIn
  Configures = {}
  Overrides <- OneOverride
  Ves <- MCVes30
  Platform = "Windows"
  OptionSets <- Single
  Lines <- MCLines
  MaxFaults = 1
SPECIFICATION FairSpec
INVARIANT OwnValues
PROPERTY Termination
CHECK_DEADLOCK FALSE
