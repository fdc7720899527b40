\* Every body the schemas accept, with continuations of continuations.
SPECIFICATION Spec
CONSTANTS
  FeatureIds = {f1, f2, f3}
  StoryIds = {s1, s2}
  GroupIds = {g1}
  LaneIds = {l1}
  PiIds = {p1}
  None = None
  AnyBody = TRUE
SYMMETRY Interchangeable
PROPERTIES WorkIsNotLost OnlyClearBacklogOrphans
CHECK_DEADLOCK FALSE
