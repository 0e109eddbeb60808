\* Each service on its own.
CONSTANTS
    Sockets = {"a", "b", "c", "d"}
    KindOf <- MCKindOf
    Slots = 2
    Reads = 2
    Rounds = 1
    MaxHearts = 2
    Notices = {1, 2, 3}
    KeyOf <- MCKeyOf
    Flushers = {1, 2}
    Tasks = {"t1", "t2", "t3"}
    Later = {"t3"}
    Pool = {"p1", "p2"}
    QueueLimit = 1
    Timeout = 2
    Recycle = 2
    Cycles = 2
    MaxFaults = 2
SPECIFICATION Spec
INVARIANTS ServicesTypeOK EndAfterResult RunOnce
PROPERTIES WatchersEnd NoticeHanded TasksStart
CHECK_DEADLOCK FALSE
