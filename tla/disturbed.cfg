SPECIFICATION Spec
CONSTANTS
  repo = repo
  t1 = t1
  sha = sha
  c1 = c1
  c2 = c2
  s1 = s1
  s2 = s2
  None = None
  ImageSpecs <- TwoImages
  Configs = {c1}
  SecretNames = {s1}
  Ports = {80}
  PodIds = {p1, p2}
  Faults = {"drift", "undeploy", "crash", "pod", "observe", "api", "secret", "list", "load"}
  MaxMischief = 1
  Specs <- AutoscaledWithCredentials
  InitialSpecs <- AutoscaledWithCredentials
  MaxGeneration = 1
INVARIANTS LastSuccessfulImageWasRolledOut EventsAnnounceNewTransitions
           
PROPERTIES StatusDescribesStoredSpec AutoscalerScaleIsKept
           ReconciliationIsIdempotent
CHECK_DEADLOCK FALSE
