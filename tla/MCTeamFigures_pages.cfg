SPECIFICATION Spec
CONSTANTS
  m1 = m1
  m2 = m2
  p1 = p1
  p2 = p2
  p3 = p3
  NoWindow = NoWindow
  NoDay = NoDay
  None = None
  Teams <- AllTeams
  Windows <- AllWindows
INVARIANTS PagesAgree RemainderTakesTheRest PointsLandOnce
