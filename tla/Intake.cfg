SPECIFICATION Spec
CONSTANTS
    m1 = m1
    m2 = m2
    a1 = a1
    a2 = a2
    Message = {m1, m2}
    Account = {a1, a2}
    Post <- Posts2
    Direct = {m1, m2}
    Gallery = {g1}
    Plain = plain
    Gone = gone
    Manual = manual
    None = none
    Work <- Works2
    MaxAttempts = 2
    MaxChange = 2
INVARIANTS TypeOK OneWorkPerGallery SourcesAreCurrent PostsAreKept OldPostsStayOut
SYMMETRY Swap
