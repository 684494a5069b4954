CONSTANTS
    u1 = u1
    u2 = u2
    u3 = u3
    g1 = g1
    g2 = g2
    c1 = c1
    c2 = c2
    x1 = x1
    x2 = x2
    q1 = q1
    q2 = q2
    NoOne = NoOne
    People = {u1, u2}
    Groups = {g1, g2}
    Characters = {c1, c2}
    Games = {x1}
    Keeper <- Keepers
    GroupOf <- GamesGroup
    Requests = {q1}
    Purges = TRUE
    a1 = a1
    a2 = a2
    l1 = l1
    l2 = l2
    i1 = i1
    m1 = m1
    k1 = k1
    k2 = k2
    d1 = d1
    h1 = h1
    h2 = h2
    r1 = r1
    Nameless = Nameless
    Ids = {a1, a2}
    Keys = {k1}
    Subjects = {s1}
    Names = {n1}
    Looks = {l1, l2}
    Images = {i1}
    Dragon = l1
    Bare = i1
    Marks = {0, 1}
    Fresh = 0
    Absent = Absent
    Free = Free
    GroupIds = {g1, g2}
    PersonIds = {u1, u2, u3}
    CharacterIds = {c1, c2}
    MonsterIds = {m1}
    GameIds = {x1, x2}
    Owners = {u1, u2}
    LastFolder = 4
    Filings = {1, 2}
    Logs <- LogsKept
    EntriesOf <- EntriesKept
    BadLog = BadLog
    LastSheet = 2
    PackIds = {h1, h2}
    Drafts = {d1}
    PackGroups = {g1}
    Releases = {r1}
    Revisions = 3
VIEW View
SPECIFICATION BesideSpec
CHECK_DEADLOCK FALSE
SYMMETRY Trades
INVARIANTS OwnerKept SeatsAreShared NoGhosts
PROPERTIES TakesNothing StoresInMemory
