\* Two devices, one relay that tells of another, a cache of one file.
SPECIFICATION Spec
CONSTANTS
    a = a
    b = b
    r1 = r1
    r2 = r2
    r3 = r3
    r4 = r4
    Sender = Sender
    Devices <- TwoDevices
    Pieces <- TwoPieces
    Url = {r1, r2, r3, r4}
    Host <- HostOf
    Internal = {r4}
    KnownRelays <- Told
    Configured <- StartRelays
    None = None
    MAX_RELAYS = 2
    MAX_CANDIDATES = 3
    Cap = 2
    MaxFiles = 1
    MaxDownloads = 2
    MaxFaults = 2
INVARIANTS TypeOK FileReachable CacheIsNewest FilesOpen
CHECK_DEADLOCK FALSE
