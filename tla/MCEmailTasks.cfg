SPECIFICATION FairSpec
CONSTANTS
  Task = {m1, m2}
  MaxRetries = 3
INVARIANT TypeOK
INVARIANT CopiesBounded
PROPERTY TasksSettle
CHECK_DEADLOCK FALSE
