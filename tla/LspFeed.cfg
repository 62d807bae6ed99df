SPECIFICATION Spec
CONSTANTS
  Path = {a, b}
  InRoot = {a, b}
  Ignored = {}
  OnDisk = {a}
  Schema = {}
  MaxSent = 5
  MaxId = 0
  Sends = {"didOpen", "didChange", "didClose", "other"}
  Kinds = {}
  Panics = FALSE
  None = None
INVARIANTS TypeOK OneSnapshot SnapshotCurrent
PROPERTIES FeedRefined Converges
CHECK_DEADLOCK FALSE
