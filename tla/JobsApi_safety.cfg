\* Rows and cache together: two users, two ids, writers that overtake each other,
\* readers, crashes, and payloads that set, erase and wrongly erase fields.
SPECIFICATION Spec
CONSTANTS
    Requests = {r1, r2, r3}
    Users = {u1,u2}
    Ranges = {d30}
    Miss = Miss
    JobIds = {j1, j2}
    Fields <- MCFields
    NotNull <- MCNotNull
    Values <- MCValues
    Null = "null"
    Unborn = Unborn
    Deleted = Deleted
    NoJob = NoJob
    Bodies <- MCBodies
    Seeds <- MCSeeds
SYMMETRY Symmetry
INVARIANTS TypeOK OutdatedExplained LastWriterWipes UndoneOnlyByPatch
PROPERTY WritesConfined
