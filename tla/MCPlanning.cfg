\* One request, every short plan over three departments, every kind of failure.
SPECIFICATION Spec
CONSTANTS
    engineering = engineering
    finance = finance
    hr = hr
    fable = fable
    opus = opus
    Departments = {engineering, finance, hr}
    Asks = {spend, risks}
    Models = {fable, opus}
    Configs <- OneConfig
    Overrides <- SomeOverrides
    RetryDelays = {2, 60}
    NoDelay = NoDelay
    Unset = Unset
    MaxTasks = 3
INVARIANTS
    PlanningTypeOK
    FanOut
    RetryDisciplined
