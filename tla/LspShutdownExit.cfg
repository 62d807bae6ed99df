SPECIFICATION Spec
CONSTANTS
  Path = {a}
  InRoot = {a}
  Ignored = {}
  OnDisk = {a}
  Schema = {}
  MaxSent = 2
  MaxId = 1
  Sends = {"request", "exit"}
  Kinds = {"shutdown"}
  Panics = FALSE
  None = None
PROPERTIES ShutdownThenExitSucceeds
CHECK_DEADLOCK FALSE
