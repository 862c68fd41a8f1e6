\* Both parties talk; messages in any order, also behind two later chains.
SPECIFICATION Spec
CONSTANTS
    Initiator = Initiator
    Responder = Responder
    NoChain = NoChain
    NoKey = NoKey
    Noise <- Strays
    Talking <- BothTalk
    MAX_SKIP = 1
    MaxSent = 2
    MaxKey = 3
INVARIANTS TypeOK ReplaysFail ConsumedKeysGone NextKeysFresh CurrentChainsOpen
CHECK_DEADLOCK FALSE
