\* Overlapping ticks, crashes, failed statements, and an editor beside the queue.
SPECIFICATION FairSpec
CONSTANTS
    j1 = j1
    j2 = j2
    t1 = t1
    t2 = t2
    w1 = w1
    w2 = w2
    e1 = e1
    Jobs = {j1, j2}
    Ticks = {t1, t2}
    Workers = {w1, w2}
    Saves = {w1, w2, e1}
    Null = Null
    Bounds <- MCBounds
INVARIANTS
    OneRunPerJob
    RunningCounts
    OneVersionPerRun
    NumbersWithoutGap
    DoneHasVersion
PROPERTIES
    OldestFirst
    EndedStaysEnded
    EveryJobIsTaken
    EveryJobEnds
CHECK_DEADLOCK FALSE
