SPECIFICATION Spec
CONSTANTS
    Cameras = {c1, c2}
    MaxAttempts = 3
    RecoverOnFailure = TRUE
    ResetBeforeRun = TRUE
    Rsusb = TRUE
SYMMETRY CameraSymmetry
INVARIANTS
    FreshStart
    
    CamerasLeftClean
