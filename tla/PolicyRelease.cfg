\* Two concurrent requests, two agents, two capabilities, one boundary.
SPECIFICATION Spec
CONSTANTS
    a1 = a1
    a2 = a2
    c1 = c1
    c2 = c2
    reader = reader
    Writers = {w1, w2}
    Agents = {a1, a2}
    Caps = {c1, c2}
    Fences = {f1}
    Contents = {"plain", "sets1", "sets2", "uses", "denies"}
    Bindings <- AllBindings
    Edits = {"edited", "broken"}
    Star = Star
    Default = Default
    Free = Free
    MaxWrites = 6
INVARIANTS
    LibraryLinks
    BundlesMatchStore
    OneMode
PROPERTIES
    LastGoodStays
SYMMETRY WriterSymmetry
CHECK_DEADLOCK FALSE
