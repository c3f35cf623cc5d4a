SPECIFICATION Spec
CONSTANTS
    c1 = c1
    c2 = c2
    NoSerial = NoSerial
    Cameras <- MCCameras
    Serials <- MCSerials
    Master = c1
    Slaves <- MCSlaves
    Callback = TRUE
    Modeled = TRUE
    Gated = FALSE
    FixedDuration = FALSE
    Frames = 2
    WarmupFrames = 2
    HealthWindow = 2
    ApplyAfter = 1
    MaxWarmups = 3
    MaxDeliveries = 2
    MaxTimeouts = 1
INVARIANTS
    EqualDeliveries
    PulseSourceInside
PROPERTIES
    ApplyAfterReady
