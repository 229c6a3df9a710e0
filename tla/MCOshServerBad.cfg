CONSTANTS
    Datagrams <- MCDatagrams
    Faults = {}
SPECIFICATION ServerSpec
PROPERTIES BadRequestIsRefused
