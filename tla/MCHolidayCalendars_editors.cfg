SPECIFICATION MCSpec
CONSTANTS
  m1 = m1
  m2 = m2
  t1 = t1
  t2 = t2
  Teams = {t1, t2}
  Members = {m1, m2}
  TeamOf <- TeamOfMember
  Calendars = {c1, c2}
  Entries = {e1, e2, e3}
  Absences = {a1, a2}
  Names = {n1}
  Keys <- SomeKeys
  YearDays = 3
  MaxCalendars = 1
  MaxEntries = 2
  MaxPerTeam = 1
  MaxRows = 4
  MaxRowsBeside = 2
  NoRequest = NoRequest
SYMMETRY Symmetry
PROPERTIES ExceptionsFollowTheirEntry NobodyReturnsUnasked UploadsAddNoTwins
CHECK_DEADLOCK FALSE
