SPECIFICATION FairSpec
CONSTANTS
    Callers = {c1, c2}
    max_messages = 2
    Keeps = {1, 2}
    Limits = {1}
    MinScore <- MCMinScore
    Vectors <- MCVectors
    VersionBit = 2
    MaxSaid = 3
    MaxEntries = 2
    MaxEpisodes = 1
    MaxRecalls = 1
    MaxNow = 1
INVARIANTS
    TypeOK
    MessagesAccounted
    ConversationOrdered
    AccessesCounted
    RecallsBest
PROPERTY
    BufferAvailable
