\* Two concurrent refreshes; a bad bundle, a bad yaml, two good of each.
SPECIFICATION FairRefreshSpec
CONSTANTS
    Runs = {r1, r2}
    Bundles = {b1, b2, bad}
    Verified = {b1, b2}
    Yamls = {y1, y2, junk}
    Loadable = {y1, y2}
    None = None
INVARIANTS
    CacheIsPaired
PROPERTIES
    FeedSpec
    Converges
