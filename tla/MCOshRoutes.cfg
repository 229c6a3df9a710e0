CONSTANTS
    Addr = {p1, p2, p3, p4}
    Top = Top
    Wild = Wild
    Entries = {7, 8}
    Methods = {0, 1}
SPECIFICATION RoutesSpec
INVARIANTS RoutesTypeOK TraversalsStayInLists OneEntryPerNumber
PROPERTIES RegisteredIsMatched RoutesPassedOnce LookupsReturn
