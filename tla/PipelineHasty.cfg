CONSTANTS
    Smoke = FALSE
    IrqNumbers <- MCIrqNumbers
    Hasty = TRUE
    MaxFaults = 1
    MaxOrders = 1
SPECIFICATION Spec
INVARIANTS StartedOnce
