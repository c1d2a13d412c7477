SPECIFICATION Spec
CONSTANTS
  Original <- Names
  Groups <- Order
  TasksOf <- Contents
  DirOf <- Places
  Schedule <- Dates
  Runs = {1, 2}
  Courses <- Instances
  Full = 4
  None = None
CHECK_DEADLOCK FALSE
INVARIANT
  OutputsAreOwn
