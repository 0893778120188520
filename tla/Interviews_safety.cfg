\* Three requests of two users, each generating, answering or listing; one session
\* is there from the start, so that three answers to one question can race.
SPECIFICATION Spec
CONSTANTS
    Requests = {r1, r2, r3}
    Users = {u1, u2}
    SessionIds = {s1, s2, s3}
    Old = {s1}
    Texts = {a, b}
    Counts = {1, 2}
    Replies <- MCReplies
    None = None
SYMMETRY Symmetry
CHECK_DEADLOCK FALSE
INVARIANTS
    TypeOK
    SessionsWhole
    ListingWhole
    AnswersOwned
    RepliesTrue
