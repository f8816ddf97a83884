CONSTANTS
    MaxLines = 2
    Configs <- MCConfigs
    Durations = {0, 2}
    FaultyLines = {}
    MaxNow = 1
    LineIds = {0, 1}
    Days = {mon, tue}
    Minutes = {0}
    Schedules <- NoSchedules
    Kinds = {"COMMAND_ON", "SET_INTERLOCK"}
    QueueSize = 2
    Defaults <- MCDefaults
    NvsMayFail = FALSE
SPECIFICATION Spec
PROPERTIES
    ConfigChangeForcesOff
