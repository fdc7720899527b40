SPECIFICATION MCSpec
CONSTANTS
    u1 = u1
    u2 = u2
    u3 = u3
    x1 = x1
    x2 = x2
    UserIds = {u1, u2, u3}
    Values = {"new", "done"}
    Paths = {x1, x2}
    Sprints = {1}
    Nothing = Nothing
    Ids = {1, 2, 3, 4, 5, 6, 7}
    Seeds <- SomeSeeds
    Files <- SomeFiles
    MaxCopies = 2
INVARIANTS ImportSettles
PROPERTIES DoublesOnlyByRaces ItemsStandOnLiveRows DatesFollowTheStates CopiesAreWhole
CHECK_DEADLOCK FALSE
