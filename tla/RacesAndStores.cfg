CONSTANTS
    u1 = u1
    u2 = u2
    u3 = u3
    g1 = g1
    g2 = g2
    c1 = c1
    c2 = c2
    x1 = x1
    x2 = x2
    q1 = q1
    q2 = q2
    NoOne = NoOne
    People = {u1, u2, u3}
    Groups = {g1}
    Characters = {c1}
    Games = {x1}
    Keeper <- Keepers
    GroupOf <- GamesGroup
    Requests = {q1, q2}
    Purges = FALSE
    a1 = a1
    a2 = a2
    l1 = l1
    i1 = i1
    Calls = {q1, q2}
    Ids = {a1, a2}
    Keys = {k1}
    Subjects = {s1}
    Names = {n1}
    Looks = {l1}
    Images = {i1}
    Dragon = l1
    Bare = i1
    Marks = {0, 1}
    Fresh = 0
    Absent = Absent
    Free = Free
SYMMETRY StoresSymmetry
VIEW View
SPECIFICATION StoresSpec
CHECK_DEADLOCK FALSE
INVARIANTS TypeOK OneOwner
PROPERTIES HandsOver RankedByOwner UsersInPostgres
