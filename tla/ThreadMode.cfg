\* Three threads, one of them with two of the four trials, in every sync mode.
CONSTANTS
  NumThreads = 3
  NumTrials = 4
  Buckets = {"RISK_SAFE", "RISK_COLLISION"}
  RiskCollision = "RISK_COLLISION"
  Risk <- MCRisk
  NoThread = NoThread
  NoValue = NoValue
SPECIFICATION FairSpec
INVARIANTS
  TypeOK
  ExactResult
  NeverTooMany
  ValidHistogram
PROPERTIES
  Ends
