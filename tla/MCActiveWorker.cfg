\* The worker and two posters; three tasks fill a batch, the queue behind it
\* and a post from inside the batch.
CONSTANTS
    Self = worker
    Posters = {p1, p2}
    Tasks = {t1, t2, t3}
    NoTask = NoTask
SPECIFICATION FairSpec
INVARIANTS
    IInv
    NoLostWakeup
PROPERTY EveryTaskExecuted
