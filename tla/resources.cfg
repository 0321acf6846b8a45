SPECIFICATION FairSpec
CONSTANTS
  None = None
  ImageSpecs = {}
  Configs = {}
  SecretNames = {}
  Ports = {}
  RuntimeName = "runtime"
  Kinds = {"ConfigMap", "Deployment", "NetworkPolicy"}
  Specs <- PlainOrGuarded
  Faults <- SomeFaults
  MaxChanges = 1
  MaxMischief = 1
INVARIANTS TypeOK ChecksumNamesRenderedData PodsAreSelected RestMeansConverged
PROPERTIES ForeignObjectsAreKept ResourcesConverge
CHECK_DEADLOCK FALSE
