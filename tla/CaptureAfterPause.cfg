SPECIFICATION FairSpec
CONSTANTS
    MaxSockets = 1
    MaxClicks = 2
    MaxKeys = 0
    MaxUpsets = 0
    Backlog = 2
PROPERTIES
    NoFrameWhilePaused
CHECK_DEADLOCK FALSE
