\* A stopped turn's skills resolve while the next turn runs.
CONSTANTS
    None = None  Messages = {m1, m2}  Editors = {}  Compactions = {}  WithSkills = {m1}
    QueueLimit = 2  MaxVersion = 1  MaxRuns = 3  MaxCrashes = 0  MaxFaults = 0
    Scenarios = {{"send", "stop", "cancel", "completed", "lost"}}
SPECIFICATION Spec
INVARIANTS WorktreeOutlivesProvider
CHECK_DEADLOCK FALSE
