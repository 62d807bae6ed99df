SPECIFICATION Spec
CONSTANTS
  Thread = {t1, t2}
  Uri = {u}
  OnDisk = {}
  MaxCalls = 3
  MaxFaults = 2
  None = None
PROPERTIES DisabledForGood
CHECK_DEADLOCK FALSE
