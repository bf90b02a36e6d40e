\* Two worker threads, two addresses, under fair scheduling.
SPECIFICATION FairLogin
CONSTANTS
    Threads = {t1, t2}
    Addresses = {a1, a2}
    Users = {alice}
    analyst = analyst
    admin = admin
    Roles = {analyst, admin}
    NoRole = NoRole
    Grants <- SomeGrants
    MaxFailures = 2
    Window = 1
    TTL = 1
    CheckTime = 1
INVARIANTS
    LimiterHolds
    RoleIsRecent
PROPERTIES
    LockoutEnds
