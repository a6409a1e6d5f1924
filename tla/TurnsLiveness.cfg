\* Two messages under fair scheduling, one crash.
CONSTANTS
    None = None  Messages = {m1, m2}  Editors = {}  Compactions = {}  WithSkills = {}
    QueueLimit = 2  MaxVersion = 1  MaxRuns = 2  MaxCrashes = 1  MaxFaults = 0
    Scenarios = {{"queue", "stop", "completed", "lost", "crash"}}
SPECIFICATION FairSpec
PROPERTIES QueueDrains StopSettles
CHECK_DEADLOCK FALSE
