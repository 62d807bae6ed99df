SPECIFICATION Spec
CONSTANTS
  Path = {a, n}
  InRoot = {a, n}
  Ignored = {n}
  OnDisk = {}
  Schema = {}
  MaxSent = 4
  MaxId = 2
  Sends = {"didOpen", "didChange", "request", "malformed", "exit", "gone"}
  Kinds = {"definition", "malformed", "shutdown"}
  Panics = TRUE
  None = None
PROPERTIES WriteCompletes ProcessEnds
CHECK_DEADLOCK FALSE
