\* Clearing a backlog that holds the origin of a continuation.
SPECIFICATION Spec
CONSTANTS
  FeatureIds = {f1, f2}
  StoryIds = {s1, s2}
  GroupIds = {g1, g2}
  LaneIds = {l1}
  PiIds = {p1}
  None = None
  AnyBody = FALSE
SYMMETRY Interchangeable
INVARIANTS LineageResolves
CHECK_DEADLOCK FALSE
