\* Admission throws after the execution is reserved.
CONSTANTS
    None = None  Messages = {}  Editors = {}  Compactions = {}  WithSkills = {}
    QueueLimit = 1  MaxVersion = 1  MaxRuns = 2  MaxCrashes = 0  MaxFaults = 1
    Scenarios = {{"followup", "completed", "lost", "admission"}}
SPECIFICATION Spec
INVARIANTS InFlightHasOwner
CHECK_DEADLOCK FALSE
