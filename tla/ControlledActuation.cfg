SPECIFICATION ActuationSpec
CONSTANTS
  a1 = a1
  a2 = a2
  e1 = e1
  t1 = t1
  Actuations <- TwoActuations
  ExecutionOf <- SameExecution
  Executions <- OneExecution
  Tasks <- OneTask
  TaskOf <- SameTask
  MaxCrashes = 2
  MaxFaults = 1
INVARIANTS
  PassedIsEarned
  StartedIsReal
PROPERTIES
  NothingHangs
  ImplementsLife
