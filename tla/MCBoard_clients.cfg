\* The requests of the web client and the MCP tools.
SPECIFICATION Spec
CONSTANTS
  FeatureIds = {f1, f2}
  StoryIds = {s1, s2, s3}
  GroupIds = {g1, g2, g3}
  LaneIds = {l1, l2}
  PiIds = {p1, p2}
  None = None
  AnyBody = FALSE
SYMMETRY Interchangeable
INVARIANTS ReferencesResolve PlacementAgrees GroupsAreWhole
CHECK_DEADLOCK FALSE
