\* Two runs of one prompt: expected to share a page.
SPECIFICATION ServerSpec
CONSTANTS
    Runs = {r1, r2}
    Texts = {t1}
    NoDraft = NoDraft
    MaxRetries = 0
    Users = {alice, bob}
    Slugs = {s1}
    Nobody = Nobody
    NoRun = NoRun
    MaxSecond = 1
INVARIANT PagePerRun
