SPECIFICATION Spec
CONSTANTS
  None = None
  magnet = magnet
  cryo = cryo
  r1 = r1
  r2 = r2
  a1 = a1
  VIs = {magnet}
  Registry <- OneVI
  Runs = {r1}
  Agents = {a1}
  Flags = {1}
  PlanTargets <- SetsOrReads
  StandbyTargets <- NoStandbyTargets
  Claims <- ClaimsVIs
  Tolerates <- ToleratesNone
  Affects <- MCAffects
  Gated = {}
  RampSteps = 1
  QueueBound = 1
  GuiBound = 1
  SpoolBound = 1
  Commands = {"run_procedure", "pause_procedure", "resume_procedure", "recover_from_error", "submit_vi_action", "emergency_standby", "acknowledge", "set_experiment_envelope", "start_monitoring", "stop_monitoring", "standby_all", "set_run_folder", "set_agent_gate"}
  Disturbances = {"critical", "breach", "flag", "comm", "raise"}
INVARIANTS ActiveRunIsMonitored OverridesConfined MeasuresOnlyUnheld
PROPERTIES EmergencyIsHonoured
