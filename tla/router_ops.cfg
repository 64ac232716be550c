SPECIFICATION MCSpec
CONSTANTS
    Nats <- MCNats
    NatsV6 <- MCNatsV6
    Firewalls <- MCFirewalls
    Conditions <- MCConditions
    MaxFails = 1
    Routers = {r1, r2}
    Devices = {d1, d2}
    Ifaces = {i1, i2}
    NoRoute = NoRoute
    R0 = r1
    Budgets <- MCBudgets
INVARIANTS RulesAsRecorded NoOpening RepliesPass RouteFollowsRa
PROPERTIES AdvertisedEventually
CHECK_DEADLOCK FALSE
