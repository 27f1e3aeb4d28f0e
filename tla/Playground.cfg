\* Two projects, two messages, three sockets.
SPECIFICATION Spec
CONSTANTS
    A = A
    B = B
    Projects = {A, B}
    Turns = {1, 2}
    Guarded = {1}
    Null = Null
    MaxSockets = 3
    MaxLetters = 2
    MaxVisits = 3
    MaxDrops = 1
SYMMETRY Symmetry
VIEW Live
INVARIANTS
    NothingCrosses
    OneAnswerPerTurn
    NoPromptSwallowed
    LinkIsLive
CHECK_DEADLOCK FALSE
