SPECIFICATION BenchmarksSpec
CONSTANTS
    Cycles = 2
    FirstWaits = {700, 913, 1100}
    ExitWaits = {0, 3, 8}
    UsualFirst = 700
    UsualExit = 0
    MaxUpsets = 2
    Candidates <- MCCandidates
    Trials = 1
    ValidationTrials = 1
    ResetTimes = {2600, 4300}
    UsualReset = 2600
    Methods = {"none", "usb", "depth-prime", "full-reset"}
    MaxAttempts = 2
    Runs = 1
    Warmup = 1
    Duration = 2
    Guard = 1
    StartDelays = {0, 1}
    AttemptLimit = 2
    NbRuns = 2
    CPUs = {0, 1}
    LastBucket = 1
    Histograms <- MCHistograms
    MaxInterrupts = 1
    Null = Null
    Repetitions = 2
    MaxSamples = 3
    MaxReruns = 1
    MaxKeys = 1
INVARIANTS
    RecommendationIsSafe
    RecordsAreHonest
    UvcAttributed
    SampledUnderLoad
    TailIsHonest
    OverheadIsAttributed
    NothingLeft
CHECK_DEADLOCK FALSE
