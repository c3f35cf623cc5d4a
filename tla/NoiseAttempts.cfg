SPECIFICATION Spec
CONSTANTS
    cpu = cpu
    gpu = gpu
    Workloads <- MCWorkloads
    MaxAttempts = 2
    MaxFaults = 2
    MaxSignals = 1
INVARIANTS
    
    MeasuredUnderNoise
    
PROPERTIES
    Termination
CHECK_DEADLOCK FALSE
