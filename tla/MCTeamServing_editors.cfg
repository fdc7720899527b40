\* Two editors at once on one team and two projects of two sprints.
SPECIFICATION Spec
CONSTANTS
  c1 = c1
  c2 = c2
  t = t
  p = p
  q = q
  i = i
  j = j
  Clients = {c1, c2}
  Teams = {t}
  Projects = {p, q}
  Pis = {i, j}
  Owner <- OwnerOf
  Numbers = {1, 2}
  Spans <- TwoDays
  Planned <- Staggered
  MaxProjects = 2
INVARIANTS OneTeamOneRemainder
PROPERTIES AlignmentIsKept AcceptedDatesAgree RowsResolve NobodyLosesTheirTeam
CHECK_DEADLOCK FALSE
