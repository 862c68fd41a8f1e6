\* Two devices of one contact, two relays, lost acknowledgements, a crash.
SPECIFICATION FairSpec
CONSTANTS
    Relay = {r1, r2}
    Opk = {1}
    s1 = s1
    s2 = s2
    c1 = c1
    c2 = c2
    Sid = {s1, s2}
    Contact = {c1}
    ContactOf <- OneContact
    NoOpk = NoOpk
    None = None
    MaxSent = 2
    MaxCopies = 1
    MaxCrashes = 1
INVARIANTS TypeOK HandedOncePerRelay OpkAcceptedOnce OnlyDisplacedLost
PROPERTY EveryBlobAcked
CHECK_DEADLOCK FALSE
