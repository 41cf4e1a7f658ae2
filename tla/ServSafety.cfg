SPECIFICATION BusySpec
CONSTANTS
  Client = {"a", "b"}
  Oid = {0, 5, 7}
  task_map = {5, 6}
  MaxTasks = 2
  CanKill = TRUE
  CanTerm = TRUE
  NoClient = NoClient
  NoTask = NoTask
CHECK_DEADLOCK FALSE
INVARIANTS
  TypeOK
  OneAnswer
PROPERTIES
  TasksAnsweredUntilTerm
