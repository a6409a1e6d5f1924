\* A crash between two commits of finishTurn after a stop.
CONSTANTS
    None = None  Messages = {}  Editors = {}  Compactions = {}  WithSkills = {}
    QueueLimit = 1  MaxVersion = 1  MaxRuns = 1  MaxCrashes = 1  MaxFaults = 0
    Scenarios = {{"stop", "completed", "lost", "crash"}}
SPECIFICATION Spec
PROPERTIES StopNeverFails
CHECK_DEADLOCK FALSE
