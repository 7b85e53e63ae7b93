CONSTANTS
  Capacity = 8
  Uids = {a, b}
  Actions = {}
  QueueSize = 8
  MaxLinks = 1
  MaxNotices = 2
  MaxMedia = 0
  Failures = FALSE
SPECIFICATION Spec
INVARIANTS IncomingAppears
