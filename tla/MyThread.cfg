SPECIFICATION Spec
CONSTANTS
    Main = Main
    Threads = {t1, t2, t3}
    None = None
INVARIANTS TypeOK OwnStacks JoinGetsResult RunsBeforeReturn
PROPERTIES CallsReturn JoinedThreadsGo
CHECK_DEADLOCK FALSE
