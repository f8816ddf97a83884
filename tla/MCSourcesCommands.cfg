CONSTANTS
    MaxLines = 2
    Configs <- MCOneLine
    Durations = {0, 1}
    FaultyLines = {}
    MaxNow = 1
    LineIds = {0, 1, 2, 3}
    Days = {mon}
    Minutes = {0, 1}
    Schedules <- MCSchedules
    Kinds = {"COMMAND_ON", "COMMAND_OFF", "ALL_OFF"}
    QueueSize = 1
    Defaults <- MCDefaults
    NvsMayFail = FALSE
    ByteSize = 4
    MaxDuration = 1
    HoursPerDay = 1
    MinutesPerHour = 2
    Numbers <- MCNumbers
    Sources = {"panel", "uart", "mqtt", "system"}
    Nothing = Nothing
SPECIFICATION SourcesSpec
INVARIANTS
    SourcesTypeOK
    OnlyUartStrays
PROPERTIES
    ImplementsController
    PublishReturns
