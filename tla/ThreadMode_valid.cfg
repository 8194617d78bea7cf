\* No protection: can a wrong result pass result_validate?
CONSTANTS
  NumThreads = 2
  NumTrials = 3
  Buckets = {"RISK_SAFE", "RISK_COLLISION"}
  RiskCollision = "RISK_COLLISION"
  Risk <- MCRisk
  NoThread = NoThread
  NoValue = NoValue
SPECIFICATION Spec
INVARIANTS
  ValidMeansExact
