CONSTANTS
    MaxLines = 3
    DefaultCount = 3
    DefaultPins <- MCDefaultPins
    Pins = {0, 2, 3, 4, 10}
    Restricted = {4}
    Settings = {"default", "own"}
    DefaultSettings = "default"
    Devices = {"auto", "id"}
    AutoDevice = "auto"
    OldBlobs <- MCOlderBlobs
    Garbage <- MCGarbage
    PinForms <- MCPinForms
    Editors = {"panel", "uart"}
    MaxDoubt = 2
    Nothing = Nothing
    ReadMayFail = FALSE
    WriteMayFail = FALSE
SPECIFICATION StoreSpec
PROPERTIES
    SettingsSurviveUpgrade
