\* Two devices, a message in each direction and a contact, on two relays.
SPECIFICATION Spec
CONSTANTS
    r1 = r1
    r2 = r2
    Urls <- TwoRelays
    Device = {a, b}
    Mine = {s}
    Theirs = {m}
    Contact = contact
    Chunk = {}
    None = None
    MaxTransfers = 1
    MaxLive = 2
    MaxFaults = 1
INVARIANTS TypeOK CompleteMeansAll ConsentRequired RevokedStaysRevoked OneRowEach
SYMMETRY Symmetry
CHECK_DEADLOCK FALSE
