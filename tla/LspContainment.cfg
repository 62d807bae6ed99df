SPECIFICATION Spec
CONSTANTS
  Path = {b, i, n, s}
  InRoot = {b, i, n}
  Ignored = {i, n}
  OnDisk = {i}
  Schema = {s}
  MaxSent = 4
  MaxId = 1
  Sends = {"didOpen", "didChange", "didClose", "request"}
  Kinds = {"diagnostic", "hover"}
  Panics = FALSE
  None = None
INVARIANTS ProjectIsFiles IgnoredIsEvidence
PROPERTIES FeedRefined
CHECK_DEADLOCK FALSE
