SPECIFICATION ChannelSpec
CONSTANTS
    m1 = m1
    m2 = m2
    a1 = a1
    a2 = a2
    Message = {m1, m2}
    Account = {a1}
    Post <- Posts1
    Direct = {m1, m2}
    Gallery = {g1, g2}
    Plain = plain
    Gone = gone
    Manual = manual
    None = none
    Work <- Works2
    MaxAttempts = 3
    MaxChange = 1
INVARIANTS NoMessageRefused
