SPECIFICATION Spec
CONSTANTS
  Path = {b, s}
  InRoot = {b, s}
  Ignored = {s}
  OnDisk = {s}
  Schema = {s}
  MaxSent = 2
  MaxId = 0
  Sends = {"didOpen"}
  Kinds = {}
  Panics = FALSE
  None = None
INVARIANTS SchemaStaysInProject
CHECK_DEADLOCK FALSE
