\* Every table of the instance, with up to two changes before, between and after
\* the four queries of a summary of a week or of 30 days.
SPECIFICATION Spec
CONSTANTS
    User <- MCUser
    Others <- MCOthers
    Times <- MCTimes
    Recent <- MCRecent
    RangeKeys = {"7d", "30d"}
    TieUp <- MCTieUp
    None = None
    Tables <- MCTables
    MaxWrites = 2
CHECK_DEADLOCK FALSE
INVARIANTS TypeOK StagesOrdered RatesNearest DriftBounded
