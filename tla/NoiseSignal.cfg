SPECIFICATION Spec
CONSTANTS
    cpu = cpu
    gpu = gpu
    Workloads <- MCWorkloads
    MaxAttempts = 1
    MaxFaults = 0
    MaxSignals = 1
INVARIANT NoNoiseSurvives
CHECK_DEADLOCK FALSE
