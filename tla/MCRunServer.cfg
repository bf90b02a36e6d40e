\* Two runs of two users, with cancellation, under fair scheduling.
SPECIFICATION FairServer
CONSTANTS
    Runs = {r1, r2}
    Texts = {t1}
    NoDraft = NoDraft
    MaxRetries = 0
    Users = {alice, bob}
    Slugs = {s1}
    Nobody = Nobody
    NoRun = NoRun
    MaxSecond = 1
INVARIANTS
    ServerTypeOK
    RegistryIsUnfinished
    ClosedOnce
    CancelledByOwner
PROPERTIES
    StreamCloses
