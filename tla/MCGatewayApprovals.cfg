SPECIFICATION Spec
CONSTANTS
    c1 = c1
    c2 = c2
    c3 = c3
    Calls = {c1, c2, c3}
    Free = Free
    ClientIds = {}
    Policy <- MCPolicy
    Configs <- MCGuarded
    Prompts = {{1}}
    Replies <- MCReviewedReplies
    GrantShapes <- MCShapes
    NoToken = NoToken
    Wildcard = Wildcard
    ForgedTokens <- MCForged
    Ttl = 0
    MaxClock = 1
INVARIANTS
    TypeOK
    ForwardedIsCleared
    ApprovalIsBacked
    RefusalIsJustified
    ApprovalFollowsItsDecision
    TrailExplainsAnswer
SYMMETRY Symmetry
CHECK_DEADLOCK FALSE
