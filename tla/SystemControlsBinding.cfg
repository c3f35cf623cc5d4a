CONSTANTS
    Devices = {d1, d2}
    Irqs = {i1}
    Policies = {p1}
    Isolation = FALSE
    Rsusb = TRUE
    Runs = 1
    Attempts = 1
SPECIFICATION ControlsSpec
INVARIANT BindingRestored
