SPECIFICATION Spec
CONSTANTS
    home = home
    usb = usb
    a = a
    d = d
    b = b
    Volume = {home, usb}
    Entry = {a, d, b}
    Dir = {d}
    Parent <- MCParent
    Above <- MCAbove
    Listing <- MCListing
    All = all
    NoPath = nopath
    NoFolder = nofolder
    MaxEvents = 2
    MaxBatch = 1
    MaxRecords = 1
    MaxTrouble = 2
INVARIANTS
    NothingForgotten
PROPERTIES
    QueueLosesNothing
    RescanEnds
    LiveRowsStay
CHECK_DEADLOCK FALSE
