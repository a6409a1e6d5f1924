\* A crash while a second turn is being opened.
CONSTANTS
    None = None  Messages = {}  Editors = {}  Compactions = {}  WithSkills = {}
    QueueLimit = 1  MaxVersion = 1  MaxRuns = 2  MaxCrashes = 1  MaxFaults = 0
    Scenarios = {{"followup", "completed", "lost", "crash"}}
SPECIFICATION Spec
INVARIANTS ShownOnce
CHECK_DEADLOCK FALSE
