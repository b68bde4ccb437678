CONSTANTS
  EngagementTimeouts = {1}
  Script <- DefaultScript
  Conditions <- LivenessConditions
  HeartbeatInterval = 1
  HeartbeatTimeout = 2
  MaxInFlight = 2
  MaxLate = 1
  MaxServerRestarts = 1
SPECIFICATION PartFairSpec
CHECK_DEADLOCK FALSE
INVARIANTS
  TimersAgree
PROPERTIES
  ScriptAwaitsVerdict
  ScriptCompletes
  Converges
  RegistrationHeals
  LabelSettles
