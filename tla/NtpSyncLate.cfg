SPECIFICATION Spec
INVARIANTS
  LateRepliesIgnored
