\* Three runs by roles whose names meet, one viewer, crashes, torn files.
SPECIFICATION FairRecordings
CONSTANTS
    MaxTakes = 3
    Players = {p1}
    Prompts = {"q3-spend"}
    Roles = {"legal-clerk", "legal-head"}
    Names <- MCNames
    Series <- MCSeries
    MaxSteps = 0
INVARIANTS
    RecordingKept
    ReplayOfOneRun
    ReplayPinned
PROPERTIES
    ReplayCloses
