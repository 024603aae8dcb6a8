SPECIFICATION ReceiptFairSpec
CONSTANTS
    a = a
    Contacts = {a}
    Removable = {a}
    MaxMessages = 2
    MaxGroups = 2
    MaxGen = 3
    MaxStops = 2
CHECK_DEADLOCK FALSE

    
PROPERTIES
    ReceiptConverges
