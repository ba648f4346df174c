SPECIFICATION Spec
CONSTANTS
  Slices <- MCSlices
  Terminal <- Gate9
  Agendas <- MCAgendas
  Limits <- MCLimits
  MaxReplans = 1
  MaxRemediations = 1
  MaxStarts = 2
  MaxOutputRetries = 1
  MaxProviderRetries = 1
  MaxDelay = 1
  StageTicks = 2
  MaxRequests = 2
  MaxControls = 1
  MaxNotices = 1
  MaxSlices = 2
  MaxProcesses = 1
INVARIANTS MCTypeOK CountedOnce AllowancesKept GateLast AnswersMatch SessionRests
PROPERTIES CampaignEnds InvocationEnds PauseHonoured
CHECK_DEADLOCK FALSE
