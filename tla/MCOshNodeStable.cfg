CONSTANTS
    BUTT = 5
    Width = 32
    DaemonQueue = 0
    Masks = {{0}, {1}, {2}}
    Callbacks = {"init_poweron", "init_connect", "on_disconnect"}
    NULL = NULL
    MaxPingTimeout = 5
    QueueBound = 2
    TimerQueueBound = 2
    Faults = {"refuse"}
SPECIFICATION NodeSpec
PROPERTIES StableLinkServes
CHECK_DEADLOCK FALSE
