\* A text and a receipt to two devices, with one prekey: puts fail, answers and
\* receipts get lost, the sender stops anywhere; twice a relay loses or repeats a
\* copy, a device stops in the middle of a message, or someone else's session comes.
SPECIFICATION Spec
CONSTANTS
    d1 = d1
    d2 = d2
    Devices <- TwoDevices
    Text = {t1}
    Receipt = {r1}
    Opk = {k1}
    Other = Other
    None = None
    MaxFaults = 2
INVARIANTS TypeOK TicksTruthful  SentReachesAll
CHECK_DEADLOCK FALSE
