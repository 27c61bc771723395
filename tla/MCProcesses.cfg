CONSTANTS
  Launchers = {l1, l2}
  Servers = {s1, s2}
  Foreign = foreign
  Free = free
  None = none
SPECIFICATION Spec
INVARIANTS
  QuitLeavesNothing
PROPERTIES
  TakeoverEndsServing
  RaidSparesOwner
CHECK_DEADLOCK FALSE
