\* A crash after the mark of a stop is written and before its interrupt is sent.
CONSTANTS
    None = None  Messages = {}  Editors = {}  Compactions = {}  WithSkills = {}
    QueueLimit = 1  MaxVersion = 1  MaxRuns = 1  MaxCrashes = 1  MaxFaults = 0
    Scenarios = {{"stop", "completed", "lost", "crash"}}
SPECIFICATION FairSpec
PROPERTIES MarkedStopSettles
CHECK_DEADLOCK FALSE
