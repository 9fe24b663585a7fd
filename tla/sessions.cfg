CONSTANTS
    Workers = {w1, w2}
    Sessions = {s1, s2}
    Callers = {acc, wai}
    acceptor = acc
    waiter = wai
    Pools = {0}
    ThreadMin = 1
    ThreadMax = 2
    QueuePercent = 0
    AddThreshold = 0
    Prompt = TRUE
    NULL = NULL
    Waiters = {"epoll", "poll", "kqueue", "ports"}
    MaxSess = 2
    PipeSize = 1
SYMMETRY Symmetry
SPECIFICATION Spec
INVARIANTS OnePlace OwnFreeList PoolSound WatchedIsListed QueuedHasServer
