SPECIFICATION FairSpec
CONSTANTS
    Clients = {c1, c2}
    Descriptors = {4, 5, 6}
    Blocks = {b1, b2}
    None = None
    Scrambled = Scrambled
INVARIANTS TypeOK OwnAnswers ReleasesItsOwn LeaksAreRefusals
PROPERTY EveryRequestHandled
CHECK_DEADLOCK FALSE
