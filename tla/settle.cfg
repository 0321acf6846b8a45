SPECIFICATION FairSpec
CONSTANTS
  repo = repo
  t1 = t1
  sha = sha
  c1 = c1
  c2 = c2
  s1 = s1
  s2 = s2
  None = None
  ImageSpecs <- TwoImages
  Configs = {c1}
  SecretNames = {}
  Ports = {80}
  PodIds = {p1, p2}
  Faults = {}
  MaxMischief = 0
  Specs <- SettleSpecs
  InitialSpecs <- BaseOrIdle
  MaxGeneration = 2
PROPERTIES RuntimeSettles ReadinessIsReported
CHECK_DEADLOCK FALSE
