CONSTANTS
    a1 = a1
    a2 = a2
    Calls = {q1, q2}
    Ids = {a1, a2}
    Keys = {k1}
    Subjects = {s1}
    Names = {n1}
    Looks = {l1}
    Images = {i1}
    Dragon = l1
    Bare = i1
    Marks = {0}
    Fresh = 0
    Absent = Absent
    Free = Free
SPECIFICATION PostgresSpec
CHECK_DEADLOCK FALSE
INVARIANT LoadedAtOneInstant
