CONSTANTS
    MaxLines = 4
    Configs <- MCConfigs
    Durations = {0, 2}
    FaultyLines = {2}
    MaxNow = 4
SPECIFICATION CoreSpec
INVARIANTS
    CoreTypeOK
    EnergisedHasDeadline
    HealthyStaysControllable
    HealthyExclusive
PROPERTIES
    InterlockedTurnOn
