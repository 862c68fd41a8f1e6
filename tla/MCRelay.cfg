\* One mailbox through two lives: two concurrent requests on messages and a chunk that
\* share its byte quota, a stale acknowledgement, and every request ends.
SPECIFICATION FairSpec
CONSTANTS
    Handler = {h1, h2}
    Mailbox = {m1}
    Cap = {c1}
    Chunk = {k1}
    Size = {1}
    NoRow = NoRow
    Idle = Idle
    MaxMessages = 2
    MaxBytes = 2
    FetchLimit = 1
    MaxWait = 1
    MailboxTTL = 0
    BlobTTL = 0
    MaxClock = 1
    MaxPuts = 3
    MaxLives = 2
INVARIANTS TypeOK NoOrphans SeqIdentifiesMessage AckCoversFetched QuotaHeld
PROPERTIES NoSilentLoss ImplementsMailStore RequestsEnd
