SPECIFICATION Spec
CONSTANTS
  Path = {a, i, n}
  InRoot = {a, i, n}
  Ignored = {i, n}
  OnDisk = {a, i}
  Schema = {}
  MaxSent = 3
  MaxId = 0
  Sends = {"didOpen", "didChange"}
  Kinds = {}
  Panics = FALSE
  None = None
PROPERTIES FresherSnapshotFollows
CHECK_DEADLOCK FALSE
