\* A crash while the execution of a compaction is being opened.
CONSTANTS
    None = None  Messages = {}  Editors = {}  Compactions = {c1}  WithSkills = {}
    QueueLimit = 1  MaxVersion = 1  MaxRuns = 2  MaxCrashes = 1  MaxFaults = 0
    Scenarios = {{"compact", "completed", "lost", "crash"}}
SPECIFICATION Spec
INVARIANTS CompactionTruthful
CHECK_DEADLOCK FALSE
