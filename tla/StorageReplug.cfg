SPECIFICATION ServicesSpec
CONSTANTS
    N = 2
    Dir = {v1, v2}
    NoDir = nodir
    MaxMoves = 3
    MaxModules = 3
    Process = {q1, q2}
    MaxWrites = 1
    Caller = {v1, v2}
    MaxStarts = 2
    MaxRequests = 3
    MaxServers = 2
    MaxDecisions = 3
    MaxOutages = 2
    Model = {base, extra}
    Base = base
    MaxWords = 3
    MaxMishaps = 2
    Modules <- MCParts
    Instance = {v1, v2}
    Nobody = nobody
    Moving = {"watching"}
    home = home
    usb = usb
    Medium = {v1, v2}
    System = {v1}
    Place = {home, usb}
    PlaceOf <- MCPlaceOf
    NoVolume = novolume
    NoDisk = nodisk
    MaxVersion = 1
    MaxChanges = 0
    Passage = {p1, p2, p3}
    CacheSize = 2
PROPERTY ConnectedGetsWatcher
CHECK_DEADLOCK FALSE
