CHECK_DEADLOCK FALSE
SPECIFICATION MCSpec
CONSTANTS
  Kinds = {"serialcap", "hidrig"}
  Cmds = {c1, c2}
  MaxPid = 2
  MaxFaults = 1
  Linux = FALSE
  Editors = {p1, p2}
  Edits <- MCEdits
  HandLabs <- MCHandLabs
  Repairs <- MCRepairs
  MaxEdits = 3
  Inventories <- MCInventories
  d1 = d1
  d2 = d2
  Calls = {d1, d2}
  Modes <- MCModes
  StaleAge = 2
  RunsFor = 1
  MaxAge = 3
  Envs <- MCEnvs
  Inputs <- MCInputs
  Words <- MCWords
  HelperCrates <- MCHelperCrates
  Skills = {"a", "b"}
  SetupHosts <- MCSetupHosts
  MaxRev = 2
  MaxRuns = 2
  SetupFaults = 2
  ConsoleCases <- MCConsoleCases
  MaxInc = 2
  ConsoleFaults = 2
INVARIANT RerunFixesSetuid
