CONSTANTS
    ann = ann
    bob = bob
    Users = {ann, bob}
    Post = post
    Get = get
    Requests = {post, get, other}
    Watched = {post, get}
    None = None
    Unset = Unset
    MaxRows = 3
    MaxInvites = 2
    MaxOrgs = 3
    MaxProjects = 2
    MaxClicks = 3
    MaxOthers = 1
SPECIFICATION MCSpec
CHECK_DEADLOCK FALSE
INVARIANT BooksKept
PROPERTY TabSettles
