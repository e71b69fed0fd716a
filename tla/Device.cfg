SPECIFICATION FairSpec
CONSTANTS
    Process = {p}
    Serial = {d}
    Dev = d
    MaxOpens = 1
    Script <- MCScript
    MaxReports = 2
    Odd = {2}
INVARIANTS TypeOK OnlyApprovedOpened InputWithoutGap OutputWithoutGap
PROPERTIES FeatureReportAnswered
CHECK_DEADLOCK FALSE
