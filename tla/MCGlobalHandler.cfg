CONSTANTS
    Handlers = {h1, h2}
    Workers = {w1, w2}
    Posters = {main, p1}
    Main = main
    Tasks = {t1, t2}
    Urgent = {}
    NoHandler = NoHandler
    NoTask = NoTask
SYMMETRY Symmetry
SPECIFICATION LifeSpec
INVARIANT RefsExact
PROPERTIES
    NoTaskDropped
    ImplementsScheduler
