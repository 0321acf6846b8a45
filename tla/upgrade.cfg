SPECIFICATION Spec
CONSTANTS
  repo = repo
  t1 = t1
  sha = sha
  c1 = c1
  c2 = c2
  s1 = s1
  s2 = s2
  None = None
  ImageSpecs <- TwoImages
  Configs = {c1}
  SecretNames = {}
  Ports = {80}
  PodIds = {p1, p2}
  Faults = {"rollout", "api"}
  MaxMischief = 1
  Specs <- AutoscaledUpgrade
  InitialSpecs <- OnlyBase
  MaxGeneration = 2
INVARIANTS TypeOK LastSuccessfulImageWasRolledOut EventsAnnounceNewTransitions RestMeansSettled
PROPERTIES StatusDescribesStoredSpec UpgradeFollowsLifecycle
CHECK_DEADLOCK FALSE
