\* Two devices on two relays: one approves the other, which then sends a message.
SPECIFICATION Spec
CONSTANTS
    r1 = r1
    r2 = r2
    Urls <- TwoRelays
    Device = {a, b}
    Mine = {s}
    Theirs = {m}
    Contact = contact
    Chunk = {}
    None = None
    MaxTransfers = 1
    MaxLive = 2
    MaxFaults = 0
INVARIANTS MirrorsConsented
SYMMETRY Symmetry
CHECK_DEADLOCK FALSE
