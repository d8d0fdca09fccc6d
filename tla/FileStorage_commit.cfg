SPECIFICATION Spec
CONSTANTS
  Uploads = {u1}
  Limit = 1
  Others = 1
  PoolMax = 3
CHECK_DEADLOCK FALSE
INVARIANT RecordsAlwaysHaveFiles
