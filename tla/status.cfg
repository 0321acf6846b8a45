SPECIFICATION Spec
CONSTANTS
  repo = repo
  t1 = t1
  sha = sha
  c1 = c1
  None = None
  ImageSpecs <- TwoImages
  Configs = {c1}
  SecretNames = {}
  Ports = {80}
  Inputs <- AllInputs
INVARIANTS TypeOK StatusIsFixpoint ConditionsAreCoherent
PROPERTY TransitionTimesTrackStatus
