SPECIFICATION Spec
CONSTANTS
    c1 = c1
    c2 = c2
    c3 = c3
    Calls = {c1, c2, c3}
    Free = Free
    ClientIds = {}
    Policy <- MCPolicy
    Configs <- MCGuarded
    Prompts = {{1}}
    Replies <- MCReviewedReplies
    GrantShapes <- MCExact
    NoToken = NoToken
    Wildcard = Wildcard
    ForgedTokens <- MCForged
    Ttl = 1
    MaxClock = 2
INVARIANT ApprovedRetryContinues
SYMMETRY Symmetry
CHECK_DEADLOCK FALSE
