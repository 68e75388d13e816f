SPECIFICATION FairSpec
CONSTANTS
  None = None
  magnet = magnet
  cryo = cryo
  r1 = r1
  r2 = r2
  a1 = a1
  VIs = {magnet, cryo}
  Registry <- MCRegistry
  Runs = {r1, r2}
  Agents = {}
  Flags = {1}
  PlanTargets <- SweepAndSeries
  StandbyTargets <- NoStandbyTargets
  Claims <- MCClaims
  Tolerates <- SeriesTolerates
  Affects <- MCAffects
  Gated = {r1}
  RampSteps = 1
  QueueBound = 1
  GuiBound = 1
  SpoolBound = 0
  Commands = {"run_procedure", "abort_procedure", "pause_procedure", "resume_procedure", "acknowledge", "submit_vi_action", "queue_procedure", "run_queue", "stop_ramp", "recover_from_error"}
  Disturbances = {"flag", "dispatch", "pull"}
INVARIANTS RunStateConsistent
PROPERTIES ImplementsRunLifecycle ClaimsKeptFromManualActions EndedRunIsStopped PauseTakesEffect ActionsAreAnswered
