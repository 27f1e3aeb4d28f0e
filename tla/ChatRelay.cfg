\* Two tabs, two connections of the process or its rival, two turns.
SPECIFICATION Spec
CONSTANTS
    None = None
    Nobody = None
    a = a
    b = b
    Conns = {1, 2}
    Tabs = {a, b}
    Agent = bot
    Rival = other
    Names = {bot, other}
    bot = bot
    other = other
    Turns = {1, 2}
    MaxEvents = 1
    MaxResets = 2
SYMMETRY Symmetry
VIEW Live
CONSTRAINT Focused
INVARIANTS
    TurnsDoNotMix
    ResetForgets
    IndicatorIsTrue
PROPERTIES
    FramesInOrder
CHECK_DEADLOCK FALSE
