CONSTANTS
    MaxLines = 2
    Configs <- MCOneLine
    Durations = {0, 2}
    FaultyLines = {}
    MaxNow = 1
    LineIds = {0, 1}
    Days = {mon, tue}
    Minutes = {0}
    Schedules <- NoSchedules
    Kinds = {"SET_SCHEDULE_WEEKDAY"}
    QueueSize = 2
    Defaults <- MCDefaults
    NvsMayFail = FALSE
SPECIFICATION Spec
PROPERTIES
    WeekdaysIndependent
