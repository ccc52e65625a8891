\* Seven documents in any order, a cache meant for two.
SPECIFICATION DocSpec
CONSTANTS
    noDoc = noDoc
    NoDoc <- noDoc
    Epochs <- SevenEpochs
    MaxCachedEpochs = 2
INVARIANTS
    RecentEpochsFound
