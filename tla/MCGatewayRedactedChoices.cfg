SPECIFICATION Spec
CONSTANTS
    c1 = c1
    c2 = c2
    c3 = c3
    Calls = {c1}
    Free = Free
    ClientIds = {}
    Policy <- MCPolicy
    Configs <- MCGuarded
    Prompts <- MCPrompts
    Replies <- MCMixedReplies
    GrantShapes <- MCShapes
    NoToken = NoToken
    Wildcard = Wildcard
    ForgedTokens <- MCForged
    Ttl = 1
    MaxClock = 2
INVARIANT RedactedOutputIsClean
CHECK_DEADLOCK FALSE
