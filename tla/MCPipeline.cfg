\* One run with a retry budget of two, under fair scheduling.
SPECIFICATION FairPipeline
CONSTANTS
    Runs = {r1}
    Texts = {t1, t2}
    NoDraft = NoDraft
    MaxRetries = 2
INVARIANTS
    PipelineTypeOK
    ShippedAsReviewed
    StreamTellsLoop
    OneTerminalEvent
PROPERTIES
    RunEnds
    ShipsReviewed
