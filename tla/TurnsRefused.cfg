\* A crash before the first execution of a new task exists.
CONSTANTS
    None = None  Messages = {}  Editors = {}  Compactions = {}  WithSkills = {}
    QueueLimit = 1  MaxVersion = 1  MaxRuns = 1  MaxCrashes = 1  MaxFaults = 0
    Scenarios = {{"skills", "completed", "lost", "crash"}}
SPECIFICATION Spec
INVARIANTS RestartServes
CHECK_DEADLOCK FALSE
