CONSTANTS
    BUTT = 5
    Width = 32
    DaemonQueue = 0
    Masks = {{0}, {1}, {2}}
    Callbacks = {"init_poweron", "init_connect", "on_disconnect"}
    NULL = NULL
    MaxPingTimeout = 5
    QueueBound = 2
    TimerQueueBound = 1
    Faults = {"refuse", "drop", "renew", "button", "command"}
SPECIFICATION NodeSpec
INVARIANTS NodeTypeOK ModeConsistent LinkIsRetried BootRegistersAll
PROPERTIES ZeroTargetOnlyInWindow ImplementsFsm Reconnects DeadLinkStopsServer ServedUnlessStale
