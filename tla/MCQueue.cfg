SPECIFICATION Spec
CONSTANTS
  main = main
  logger = logger
  j1 = j1
  j2 = j2
  j3 = j3
  NoJob = NoJob
  Apps = {main, logger}
  Jobs = {j1, j2, j3}
  Plan <- PlanOf
  Synced = {main}
  NumWorkers = 2
  Limit = 2
  Hung = {j1, j3}
  Late = {}
  Cancellable = {j3}
  MayDeleteBusy = FALSE

  
  
PROPERTIES
  
  EveryJobIsDone
  DeleteEnds
