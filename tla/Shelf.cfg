CONSTANTS
    a1 = a1
    a2 = a2
    g1 = g1
    k1 = k1
    s1 = s1
    o1 = o1
    o2 = o2
    c1 = c1
    h1 = h1
    secret = secret
    t1 = t1
    q1 = q1
    q2 = q2
    NoOne = NoOne
    NoSheet = NoSheet
    Nothing = Nothing
    Minted = {a1, a2}
    Guests = {g1}
    Keys = {k1}
    Subjects = {s1}
    Visitors = {q1, q2}
    Owners = {o1, o2}
    Sheets = {c1}
    SheetOf <- SheetsOf
    Tasks = {q1, q2}
    FolderIds = 4
    Authors = {o1, o2}
    Homebrew = {h1}
    Public = {}
    Private = {secret}
    AuthorOf <- AuthorsOf
    Tables = {t1}
    SitsAt <- Sits
    Superadmins = {o2}
    Calls = {q1, q2}
    Versions = {1, 2}
    Revisions = 3
    Documents <- Docs
    Questions <- Asks
SYMMETRY Symmetry
SPECIFICATION Spec
CHECK_DEADLOCK FALSE
INVARIANTS ShelfTypeOK OneHolder LockAnswers FindsNewest Pinned
PROPERTIES CreatedWhole SignsInHolder OneDefault OrderedAsAsked EmptiedFirst ReleasesKept PassedOnByRight
