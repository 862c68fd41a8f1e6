\* A send that is cut short, and the next one.
SPECIFICATION Spec
CONSTANTS
    d1 = d1
    d2 = d2
    Devices <- TwoDevices
    Text = {t1}
    Receipt = {r1, r2}
    Opk = {}
    Other = Other
    None = None
    MaxFaults = 0
INVARIANTS KeysUsedOnce
CHECK_DEADLOCK FALSE
