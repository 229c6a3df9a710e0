CONSTANTS
    Datagrams <- MCDatagrams
    Faults = {"select", "recv", "send", "socket"}
SPECIFICATION ServerSpec
INVARIANTS ServerTypeOK
PROPERTIES AnswersItsRequest ReceivedUnlessStale
