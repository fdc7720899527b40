\* Two requests at once on a team of two members, two absences and one meeting.
SPECIFICATION Spec
CONSTANTS
  r1 = r1
  r2 = r2
  m1 = m1
  m2 = m2
  v1 = v1
  v2 = v2
  a1 = a1
  a2 = a2
  Requests = {r1, r2}
  Members = {m1, m2}
  Versions = {v1, v2}
  Absences = {a1, a2}
  Meetings = {k1}
  Dates = {1, 2}
  Uids = {u1}
  NoUid = NoUid
  NoDay = NoDay
  Nothing = Nothing
  Rules <- ThreeRules
  MaxMembers = 1
  MaxVersions = 2
  MaxAbsences = 1
  MaxMeetings = 1
  MaxRows <- RowBounds
SYMMETRY Symmetric
PROPERTIES NothingOverwrittenUnseen EveryMemberKeepsAPattern OnlyOvertakenLeaveStrays
  RulesStayWhole UploadsKeepToTheirWindow
CHECK_DEADLOCK FALSE
