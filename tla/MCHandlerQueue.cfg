\* Two handlers to keep apart, more workers than handlers, a poster next to the
\* workers that post from their tasks; one task goes to the front of its queue.
CONSTANTS
    Handlers = {h1, h2}
    Workers = {w1, w2, w3}
    Posters = {p1}
    Tasks = {t1, t2, t3, u1}
    Urgent = {u1}
    NoHandler = NoHandler
    NoTask = NoTask
SPECIFICATION FairSpec
INVARIANTS
    IInv
    NoLostWakeup
PROPERTIES
    ImplementsMailbox
    EveryMailboxServed
