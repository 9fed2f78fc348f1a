SPECIFICATION FairSpec
CONSTANTS
    Runners = {r1, r2}
    Jobs = {1, 2}
    Answers <- MCAnswers
    Required = {1, 3}
    FanOut = 2
    MaxNodes = 7
    MaxCrashes = 1
INVARIANTS
    CompletedIsWhole
    OneUnlinkedAtMost
PROPERTIES
    JobsEnd
CHECK_DEADLOCK FALSE
