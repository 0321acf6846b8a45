SPECIFICATION ManagersSpec
CONSTANTS
  repo = repo
  t1 = t1
  sha = sha
  c1 = c1
  None = None
  ImageSpecs <- TwoImages
  Configs = {c1}
  SecretNames = {}
  Ports = {80}
  Inputs <- FewInputs
  Managers = {m1, m2}
  MaxGeneration = 2
  MaxWrites = 3
  MaxRestarts = 1
SYMMETRY EitherManager
INVARIANT ManagersTypeOK
PROPERTIES ActsAsOneWriter StoredReportIsOfStoredSpec AnnouncementIsOfStoredTransition
CHECK_DEADLOCK FALSE
