\* Two runs of roles whose names meet, in flight together, and one viewer.
SPECIFICATION Spec
CONSTANTS
    MaxTakes = 2
    Players = {p1}
    Prompts = {"q3", "q3-spend"}
    Roles = {"legal-clerk", "legal-head"}
    Names <- MCNames
    Series <- MCSeries
    MaxSteps = 0
INVARIANTS
    ReplayOfOwnRole
