CONSTANTS
    Smoke = FALSE
    IrqNumbers <- MCIrqNumbers
    Hasty = FALSE
    MaxFaults = 2
    MaxOrders = 2
SPECIFICATION Spec
INVARIANTS CapturedAsDesigned StartedOnce 
PROPERTIES ComesToRest CampaignCompletes
