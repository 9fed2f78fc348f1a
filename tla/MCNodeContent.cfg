CONSTANTS
    Sessions = {s1, s2}
    Workers = {w1}
    t1 = t1
    t2 = t2
    Titles <- MCTitles
    FirstDoc <- MCFirstDoc
    a = a
    b = b
    Contents <- MCContents
    Replacements <- MCReplacements
    Apply <- MCApply
    NoMatch = NoMatch
    Keep = Keep
    NoSummary = NoSummary
    NoSnapshot = NoSnapshot
    NoProcess = NoProcess
    MaxVersion = 3
    MaxArtifacts = 2
    MaxCrashes = 1
SPECIFICATION FairSpec
INVARIANTS
    TypeOK
    NumberedOnce
    HonestUnlessOvertaken
PROPERTIES
    ArtifactSettledOnce
    ImplementsHistory
    SummariesAnswered
CHECK_DEADLOCK FALSE
