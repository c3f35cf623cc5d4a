SPECIFICATION AnalysisSpec
CONSTANTS
    Threads = {1, 2}
    Tids = {101, 102}
    Handles = {h1, h2}
    Stages = {dqbuf, qbuf}
    Focuses <- MCFocuses
    Null = Null
    Streams = {1, 2}
    FrameCount = 4
    Windows <- MCWindows
    Validations <- MCValidations
    MaxTroubles = 2
INVARIANTS
    ThreadsToldApart
    IntervalsAreHonest
    ActivationsAreJobs
    
    OverrunsCorrelated
    LossesCounted
    
CHECK_DEADLOCK FALSE
