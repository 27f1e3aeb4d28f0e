\* Three runs that share a context object, one tool call behind two
\* before-guards and an after-guard; two policies, two ban rows, two operators.
SPECIFICATION Spec
CONSTANTS
    r1 = r1
    r2 = r2
    r3 = r3
    b1 = b1
    b2 = b2
    o1 = o1
    o2 = o2
    mine = mine
    other = other
    third = third
    plain = plain
    risky = risky
    bot = bot
    alice = alice
    None = None
    NoArgs = NoArgs
    NoContext = NoContext
    Runs = {r1, r2, r3}
    Callers = {r1}
    Bans = {b1, b2}
    Targets = {bot, alice}
    Operators = {o1, o2}
    Agent = bot
    Args = {plain, risky}
    Roles = {"default", "reader", "editor", "admin"}
    Versions = {1, 2}
    MaxRoles = 2
    Contexts = {mine, other, third}
    ContextOf <- MCContextOf
    Ambient <- MCAmbient
    UserOf <- MCUserOf
    UserRoles <- MCUserRoles
    Policy <- MCPolicy
    Pre <- MCPre
    Post <- MCPost
SYMMETRY Symmetry
VIEW Live
CONSTRAINT OneSide
ACTION_CONSTRAINT CallsUndisturbed
INVARIANTS
    ExecutedAsDecided
    GatesAreSeparate
    TrailIsTrue
    ScopesRestore
PROPERTIES
    CheckIsAtomic
CHECK_DEADLOCK TRUE
