CONSTANTS
  EngagementTimeouts = {1}
  Script <- DefaultScript
  Conditions <- SafetyConditions
SPECIFICATION Spec
CHECK_DEADLOCK FALSE
INVARIANTS
  ShownGenuine
  ButtonsTellTruth
PROPERTIES
  RunNeverGoesBack
  AnticipationRight
  RecommendationLeadsOn
