CONSTANTS
    Handlers = {h1}
    Workers = {w1}
    Posters = {main}
    Main = main
    Tasks = {t1}
    Urgent = {}
    NoHandler = NoHandler
    NoTask = NoTask
SPECIFICATION LifeSpec
INVARIANT TaskOwnsHandler
