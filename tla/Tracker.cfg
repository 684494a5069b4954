CONSTANTS
    c1 = c1
    c2 = c2
    p1 = p1
    n1 = n1
    n2 = n2
    d1 = d1
    w1 = w1
    short = short
    long = long
    q1 = q1
    q2 = q2
    NoOne = NoOne
    Nobody = Nobody
    Characters = {c1, c2}
    Givers = {q1, q2}
    MaxHeld = 1
    Players = {p1}
    Monsters = {n1, n2}
    Masters = {d1}
    OwnerOf <- OwnersOf
    Short = {short}
    Long = {long}
    Patches = {q1, q2}
    GameEntries = 3
    MaxUses = 1
    MaxInitiative = 1
    r1 = r1
    r2 = r2
    b2 = b2
    k1 = k1
    race = race
    atFirst = atFirst
    levelled = levelled
    deeper = deeper
    spell = spell
    loose = loose
    s1 = s1
    s2 = s2
    s3 = s3
    branch = branch
    cantrip = cantrip
    hex = hex
    Entries = {r1, r2, b2, k1}
    Questions = {race, atFirst, levelled, deeper, spell, loose}
    KindOf <- Kinds
    UnderOf <- Unders
    GrantsOf <- Granted
    AskedBy <- Askers
    LevelOf <- Levels
    FromOf <- Options
    NeedsOf <- Needs
    Expertise = {deeper}
    Spells = {spell}
    Loose = {loose}
    TabEvents <- ClassTaken
    MaxLength = 4
    MaxRevision = 5
SYMMETRY Symmetry
SPECIFICATION Spec
CHECK_DEADLOCK FALSE
INVARIANTS RosterSound Settled
PROPERTIES NeverDuplicates NothingLost MovesOne LockHolds CommitsOnWhatItSaw
