SPECIFICATION MCSpec
CONSTANTS
    Usernames = {ann, bob}
    ann = ann
    bob = bob
    SessionIds = {s1, s2}
    MaxKeys = 2
    Passwords = {1, 2}
    Requests = {r1, r2}
    Seed <- SeedUsers
    MaxBorn = 2
    Nothing = Nothing
    Codes = {c1}
    MaxPairs = 3
    Asks = {q1, q2}
SYMMETRY Symmetry
INVARIANTS CredentialsMatchTheirAccount HonouredForAMinute UsedOnce
PROPERTIES AnAdminRemains ConsentsEnd
CHECK_DEADLOCK FALSE
