SPECIFICATION FairSpec
CONSTANTS
    Senders = {c1, c2}
    Workers = {w1, w2}
    QueueSize = 1
    BatchSize = 2
    MaxSend = 2
    NoMsg = NoMsg
CHECK_DEADLOCK FALSE
INVARIANTS InOnePlace DrainedAtExit StoredIsOffered
PROPERTIES TakenIsWritten
