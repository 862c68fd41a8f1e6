\* Two accounts on one computer.
SPECIFICATION Spec
CONSTANTS
    Identity = {me, other}
    Encrypted = {me}
    Url = {r1, r2}
    DefaultRelays = {r1}
    UserRelays = {{}}
    LocalRelay = r2
    None = None
    Torn = Torn
    MaxWorkers = 2
    MaxCommands = 1
    MaxSettings = 1
    MaxDiscoveries = 1
    MaxModes = 1
    MaxEnds = 1
INVARIANTS TypeOK NoLostWakeup OneWorkerGoesOn KeyOpensRows
CHECK_DEADLOCK FALSE
