SPECIFICATION Spec
CONSTANTS
  None = None
  Configured <- MCConfigured
  Scales <- MCScales
  Gaps <- MCGaps
INVARIANTS
  CompleteAnalysisResolves
  AdviceServes
PROPERTIES
  
  WorseIsNoBetter
CHECK_DEADLOCK FALSE
