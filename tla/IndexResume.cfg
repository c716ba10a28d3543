SPECIFICATION Spec
CONSTANTS
    home = home
    usb = usb
    a = a
    d = d
    b = b
    Volume = {home, usb}
    Entry = {a, d, b}
    Dir = {d}
    Parent <- MCParent
    Above <- MCAbove
    Listing <- MCListing
    All = all
    NoPath = nopath
    NoFolder = nofolder
    MaxEvents = 2
    MaxBatch = 2
    MaxRecords = 1
    MaxTrouble = 2
INVARIANT CompleteIsReconciled
CHECK_DEADLOCK FALSE
