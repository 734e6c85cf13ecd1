SPECIFICATION ChainSpec
CONSTANTS
    Record <- LongRecord
    Digest <- LongDigest
    Genesis = 0
    HashOf <- LongHashOf
    ChainPrev <- LongChainPrev
    Event <- LongEvent
    EventId <- LongEventId
    Capacity = 2
    MaxReported = 2
    None = 99
    Streams <- ExpiredStreams
INVARIANT
    ExpiryKeepsChain
