CONSTANTS
    MaxLines = 2
    Configs <- MCConfigs
    Durations = {2}
    FaultyLines = {1}
    MaxNow = 2
    LineIds = {0, 1}
    Days = {mon}
    Minutes = {0}
    Schedules <- NoSchedules
    Kinds = {"COMMAND_ON"}
    QueueSize = 2
    Defaults <- MCDefaults
    NvsMayFail = FALSE
    UrlTasks = {u1, u2}
    Uploads = {}
    MaxSessions = 2
SPECIFICATION OtaSpec
INVARIANTS
    UpdateBlocksValves
