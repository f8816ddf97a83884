CONSTANTS
    Setups <- MCSetups
    MaxRetries = 1
    Copied = {"interlock"}
    Fresh = {"line"}
    Switches = {"line"}
    MaxOutbox = 1
SPECIFICATION ShownSpec
INVARIANTS
    ShownTypeOK
PROPERTIES
    PortalOpens
    KeepsTrying
    ServicesStart
    TopicsSettle
    TableIsRepaired
