SPECIFICATION FairSpec
CONSTANTS
    Files <- MCFiles
    Delay = 1
    MaxInits = 2
INVARIANTS
    NoMissingHandle
    HandlesAreOwned
PROPERTIES
    PicturesInOrder
    PlayedToTheEnd
    LoopsForever
    EndsWhenNotLooping
CHECK_DEADLOCK FALSE
