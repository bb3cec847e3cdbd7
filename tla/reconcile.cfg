CONSTANTS
  Names = {c1, c2}
  None = None
  Absent = Absent
  DefaultTTL = 2
  DefaultScaleUp = 80
  DefaultScaleDown = 20
  MaxAge = 2
  MaxPods = 2
  MaxPending = 1
  MaxEnvSteps = 1
  InitAnnotations <- ReconcileAnnotations
  WorkloadChoices <- ReconcileWorkloads
  ExternalTransitions <- MembershipTransitions
SPECIFICATION Spec
PROPERTY UpdateAppliesDecisionToCurrent KnownClusterSetConverges FederationRefinement
