SPECIFICATION FairSpec
CONSTANTS
    c1 = c1
    c2 = c2
    c3 = c3
    Calls = {c1, c2}
    Free = Free
    ClientIds = {"r1"}
    Policy <- MCPolicy
    Configs <- MCConfigs
    Prompts <- MCPrompts
    Replies <- MCReplies
    GrantShapes <- MCExact
    NoToken = NoToken
    Wildcard = Wildcard
    ForgedTokens = {}
    Ttl = 0
    MaxClock = 0
INVARIANTS
    ForwardedIsCleared
    DeliveredIsCleared
    TrailExplainsAnswer
PROPERTIES
    EveryCallEnds
    ProviderIsGuarded
CHECK_DEADLOCK FALSE
