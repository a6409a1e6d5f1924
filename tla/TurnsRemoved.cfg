\* A message is removed while its steer still resolves skills.
CONSTANTS
    None = None  Messages = {m1}  Editors = {}  Compactions = {}  WithSkills = {m1}
    QueueLimit = 1  MaxVersion = 1  MaxRuns = 1  MaxCrashes = 0  MaxFaults = 0
    Scenarios = {{"send", "delete", "completed", "lost"}}
SPECIFICATION Spec
PROPERTIES RemovedStaysRemoved
CHECK_DEADLOCK FALSE
