SPECIFICATION Spec
CONSTANTS 
    None = None
    c = c
    d = d
PROPERTIES
    HostIsShown
    RequestsEnd
    QueuesAdvance
CHECK_DEADLOCK FALSE
