CONSTANTS
  osg = osg  poco = poco  proj4rb = proj4rb  mingw = mingw  typo = typo
  Files <- MCFiles
  Words <- MCWords
  Osg = osg
  Defs <- LinuxDefs
  Appends <- MCAppends
  Clears <- MCClears
  InBase <- MCInBase
  Names <- MCNames
  Name <- MCName
  Retrieval <- MCRetrieval
  WorksIn <- MCWorksIn
  Configures = {}
  Overrides <- NoOverride
  Ves <- MCVes30
  Platform = "Linux"
  OptionSets <- JustPack
  Lines <- MCLines
  MaxFaults = 1
SPECIFICATION Spec
INVARIANT ExportsAlwaysOwn
CHECK_DEADLOCK FALSE
