CONSTANTS
    BUTT = 2
    Width = 2
    DaemonQueue = 1
    Masks = {{0}, {0, 1}, {1, 2}}
    Callbacks = {"cb"}
    NULL = NULL
SPECIFICATION FsmSpec
INVARIANTS FsmTypeOK OrthogonalEvents StepAccounts DispatchInOrder
PROPERTIES LatchedEventSurvives RegisterOkListsUnlessLatched ImplementsLatch
