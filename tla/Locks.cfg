SPECIFICATION FairSpec
CONSTANT Threads = {t1, t2, t3, t4, t5}
INVARIANTS TypeOK NoLostWakeup
PROPERTIES ImplementsMutex FreeLockIsTaken
