CONSTANTS
    MaxLines = 2
    Configs <- MCValveConfigs
    Durations = {0, 2}
    FaultyLines = {1}
    MaxNow = 2
    LineIds = {0, 1}
    Days = {mon}
    Minutes = {0}
    Schedules <- PresentSchedules
    Kinds = {"COMMAND_ON", "COMMAND_OFF", "ALL_OFF", "SET_INTERLOCK", "SET_DURATION",
             "SET_SCHEDULE_START_MINUTE"}
    QueueSize = 2
    Defaults <- MCDefaults
    NvsMayFail = TRUE
SPECIFICATION Spec
INVARIANTS
    TypeOK
    TimeIsBounded
PROPERTIES
    ImplementsTimedValves
    NoTurnOnDuringOta
    OverdueIsEnded
    AllOffIsObeyed
