SPECIFICATION FairSpec
CONSTANTS
    shutdown = shutdown
    sleep = sleep
    p1 = p1
    p2 = p2
    None = None
    Actions <- MCActions
    PoweringOff <- MCPoweringOff
    Polls <- TwoPolls
    MaxIds = 2
    MaxOutages = 0
PROPERTIES ShutdownIsConfirmed
