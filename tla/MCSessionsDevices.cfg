\* Two devices of one contact, nothing lost and no crash.
SPECIFICATION Spec
CONSTANTS
    Relay = {r1}
    Opk = {1, 2}
    s1 = s1
    s2 = s2
    c1 = c1
    c2 = c2
    Sid = {s1, s2}
    Contact = {c1}
    ContactOf <- OneContact
    NoOpk = NoOpk
    None = None
    MaxSent = 2
    MaxCopies = 0
    MaxCrashes = 0
INVARIANTS AckedStored
CHECK_DEADLOCK FALSE
