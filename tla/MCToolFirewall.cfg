SPECIFICATION FairSpec
CONSTANTS
    u1 = u1
    u2 = u2
    r1 = r1
    Uses = {u1, u2}
    RequestIds = {}
    Policy <- MCPolicy
    Configs <- MCConfigs
    Invocations <- MCInvocations
    GrantShapes <- MCShapes
    NoToken = NoToken
    ForgedTokens <- MCForged
    Wildcard = Wildcard
    Ttl = 0
    MaxClock = 1
INVARIANTS
    TypeOK
    ExecutedIsCleared
    ExecutedIsLogged
    RejectionIsLogged
PROPERTIES
    EveryCheckEnds
    ToolsAreGuarded
CHECK_DEADLOCK FALSE
