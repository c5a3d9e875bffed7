SPECIFICATION CompareSpec
CONSTANTS
    Catalog <- SmallCatalog
    Commands <- SmallCommands
    Queries <- SmallQueries
    CheckInterval = 2
    MaxVector = 2
    Never = 2
INVARIANTS RowsExact AnswerExact LimitsExact NoMixedAnswer StopIsPrompt CompareExact PublishedTogether
PROPERTY QueryEnds
CHECK_DEADLOCK FALSE
