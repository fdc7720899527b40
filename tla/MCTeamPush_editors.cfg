\* Two requests at once, two projects, one of them with two sprints.
SPECIFICATION PushSpec
CONSTANTS
  c1 = c1
  c2 = c2
  p = p
  q = q
  i = i
  j = j
  Clients = {c1, c2}
  Projects = {p, q}
  Pis = {i, j}
  Owner <- OwnerOf
  Sprints = {1, 2, 3}
  PiOf <- PiOfSprint
  DatedSprints = {1, 2, 3}
  Levels = {1, 2}
  Worth <- WorthOf
  Typed = {1}
  MaxChanges = 2
SYMMETRY Symmetry
PROPERTIES PushLeavesNothingStale PushWritesOnlyWhatItMay OnlyOvertakenRequestsMisstamp
CHECK_DEADLOCK FALSE
