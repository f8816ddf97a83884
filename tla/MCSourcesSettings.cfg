CONSTANTS
    MaxLines = 2
    Configs <- MCOneLine
    Durations = {0, 1}
    FaultyLines = {}
    MaxNow = 0
    LineIds = {0, 1, 2, 3}
    Days = {mon}
    Minutes = {0, 1}
    Schedules <- MCNoEntry
    Kinds = {"COMMAND_ON", "ALL_OFF", "SET_DURATION", "SET_INTERLOCK",
             "SET_SCHEDULE_ENABLED", "SET_SCHEDULE_START_MINUTE",
             "SET_SCHEDULE_WEEKDAYS", "SET_SCHEDULE_WEEKDAY"}
    QueueSize = 1
    Defaults <- MCDefaults
    NvsMayFail = FALSE
    ByteSize = 4
    MaxDuration = 1
    HoursPerDay = 1
    MinutesPerHour = 2
    Numbers <- MCNumbers
    Sources = {"mqtt", "zigbee"}
    Nothing = Nothing
SPECIFICATION SourcesSpec
INVARIANTS
    ConfigsSavable
    SettingsInSync
PROPERTIES
    ImplementsController
