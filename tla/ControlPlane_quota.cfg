SPECIFICATION Spec
CONSTANTS
    Focuses = {"limits"}
    AuthModes = {FALSE}
    Callers = {"c1", "c2"}
    Keys = {"k1", "k2"}
    Amounts = {1, 2}
    Users = {"u1", "u2"}
    SeatLimit = 1
    QuotaLimit = 2
    QuotaWindow = 1
    AccountPeriod = 1
    DefaultPeriod = 1
    QuotaStarts <- MCQuotaEmpty
    BillingClock = 2
    Operators = {"o1", "o2"}
    FlowBodies <- MCFlows
    MaxExecutions = 1
    MaxApprovals = 3
    Agents = {"o1", "o2"}
    Tools <- MCTools
    ScopesOf <- MCAgentScopes
    MaxActions = 2
    Admins = {"a1", "a2"}
    GrantChoices <- MCGrants
    Retentions = {0}
    DefaultRetention = 1
    MaxPuts = 3
    RecordClock = 1
    HttpRequests = {"h1", "h2"}
    ApiKeys <- MCApiKeys
    AccountScopes <- MCAccountScopes
    AccountProducts = {"parse"}
    Products = {"parse"}
    Sessions = {"s1"}
    SessionTtl = 1
    UsedEvery = 1
    Servers = {"p1", "p2"}
    AccessClock = 2
CHECK_DEADLOCK FALSE
INVARIANT QuotaNeverOvershoots
