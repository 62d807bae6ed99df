SPECIFICATION Spec
CONSTANTS
  Path = {a}
  InRoot = {a}
  Ignored = {}
  OnDisk = {a}
  Schema = {}
  MaxSent = 5
  MaxId = 3
  Sends = {"didOpen", "didChange", "request", "cancel"}
  Kinds = {"diagnostic", "unknown"}
  Panics = FALSE
  None = None
INVARIANTS AnswerCoversEdits AnsweredInOrder
PROPERTIES RequestsAnswered CancelTakesEffect
CHECK_DEADLOCK FALSE
