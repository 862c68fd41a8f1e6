\* A message of an earlier chain arrives late.
SPECIFICATION Spec
CONSTANTS
    Initiator = Initiator
    Responder = Responder
    NoChain = NoChain
    NoKey = NoKey
    Noise <- Strays
    Talking <- BothTalk
    MAX_SKIP = 2
    MaxSent = 2
    MaxKey = 3
INVARIANTS EveryMessageOpens
CHECK_DEADLOCK FALSE
