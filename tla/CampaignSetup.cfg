SPECIFICATION SetupSpec
CONSTANTS
    s1 = s1
    s2 = s2
    Master = master
    Slaves <- MCSlaves
    Modes <- MCModes
    Model <- MCModel
    Hub <- MCHub
    Registered <- MCRegistered
    Placements <- MCPlacements
    Suites = {"all"}
    MaxPerHub = 2
    MinimumRuns = 1
    MaxMoves = 1
    MaxRuns = 4
    Demands <- MCDemands
    Roles = {1, 2}
    Crews <- MCCrews
    Profiles <- MCProfiles
    TraceRuns = 2
    MinimumRuntime = 2
    MaximumPeriod = 25
    ModeledPeriods = {0, 25}
    TopPriorities = {0, 1, 2}
    MaxMishaps = 1
    Devices = {d1, d2}
    Irqs = {i1, i2}
    Policies = {p1, p2}
    Isolation = TRUE
    Rsusb = TRUE
    Runs = 2
    Attempts = 2
INVARIANTS
    RolledBack
    CasesWellPlanned
    ReservationCoversRole
    AllOrNothing
    InForce
    PutBack
PROPERTIES
    SourceOffFirst
