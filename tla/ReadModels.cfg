CONSTANTS
    writer = writer
    clerk = clerk
    ann = ann
    bob = bob
    shell = shell
    mail = mail
    r1 = r1
    r2 = r2
    Samples <- MCSamples
    Roles = {r1, r2}
    Window = 2
    Skew = 0
    Retention = 3
    Hour = 1
    MinRequests = 2
    Medium = 40
    High = 50
    PageSize = 1
    MaxRows = 3
    MaxClock = 3
    MaxDoubled = 1
    None = None
SPECIFICATION Spec
INVARIANT SummaryAddsUp
INVARIANT NoneSkipped
INVARIANT BurstsFound
