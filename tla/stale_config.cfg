SPECIFICATION RolloutSpec
CONSTANTS
  None = None
  ImageSpecs = {}
  Configs = {}
  SecretNames = {}
  Ports = {}
  RuntimeName = "runtime"
  Kinds = {"ConfigMap", "Deployment"}
  Specs <- PlainOrGuarded
  Faults <- NoFaults
  MaxChanges = 2
  MaxMischief = 0
PROPERTY ConfigurationReachesPods
CHECK_DEADLOCK FALSE
