CONSTANTS
  Path <- MCPath
  NoPackage = NoPackage
  Inputs <- MCInputs
SPECIFICATION FairSpec
INVARIANTS DependentsExact HotspotsAreFew HotspotsImportHotspots HotspotsAreHot ViewerAgrees
PROPERTIES Terminates
CHECK_DEADLOCK FALSE
