CONSTANTS
    MaxLines = 3
    DefaultCount = 3
    DefaultPins <- MCDefaultPins
    Pins = {0, 2, 3, 4, 10}
    Restricted = {4}
    Settings = {"default", "own"}
    DefaultSettings = "default"
    Devices = {"auto", "id"}
    AutoDevice = "auto"
    OldBlobs <- MCOldBlobs
    Garbage <- MCGarbage
    PinForms <- MCPinForms
    Editors = {"panel", "uart"}
    MaxDoubt = 2
    Nothing = Nothing
    ReadMayFail = TRUE
    WriteMayFail = TRUE
SPECIFICATION StoreSpec
INVARIANTS
    StoreTypeOK
    NeverAborts
    RightPolarity
PROPERTIES
    SavedIsLoaded
    CorruptIsRefused
    SettingsSurvive
