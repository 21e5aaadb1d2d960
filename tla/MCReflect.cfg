SPECIFICATION LearningFairSpec
CONSTANTS
  Sources = {1, 2}
  Scopes = {"A", "B"}
  Drains = {"d"}
  CaptureTries = 1
  JobTries = 2
  MaxJobs = 4
  MaxEpoch = 1
PROPERTIES ReflectionSettles
CHECK_DEADLOCK FALSE
