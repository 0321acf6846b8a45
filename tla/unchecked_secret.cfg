SPECIFICATION Spec
CONSTANTS
  repo = repo
  t1 = t1
  sha = sha
  c1 = c1
  c2 = c2
  s1 = s1
  s2 = s2
  None = None
  ImageSpecs <- TwoImages
  Configs = {c1}
  SecretNames = {s1, s2}
  Ports = {80}
  PodIds = {p1, p2}
  Faults = {"api"}
  MaxMischief = 1
  Specs <- SecretSpecs
  InitialSpecs <- OnlyNeedsSecrets
  MaxGeneration = 1
PROPERTY ConfigurationValidMeansFound
CHECK_DEADLOCK FALSE
