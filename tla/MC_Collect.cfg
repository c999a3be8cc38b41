SPECIFICATION FairSpec
CONSTANTS
    Workers = {w1, w2}
    Pushers = {w1, w2}
    Counts = {0, 3}
    MaxTasks = 3
    IteratorRange = 256
    Capacities = {2, 4}
    Raw = Raw
    NoSlot = NoSlot
INVARIANTS TasksOutliveTheirUse CollectsAll
PROPERTY RunTaskReturns
