\* Requests overlap the two awaits: all of them with a failing store call, then with a crash, once without follow-ups and
\* once without stops; then everything else that starts a turn, with a failing store call, that of the admission too.
CONSTANTS
    None = None  Messages = {m1}  Editors = {e1, e2}  Compactions = {c1}  WithSkills = {m1}
    QueueLimit = 1  MaxVersion = 2  MaxRuns = 3  MaxCrashes = 1  MaxFaults = 1
    Scenarios = {{"send", "promote", "delete", "edit", "stop", "resume", "followup", "skills", "completed", "fault"},
                 {"send", "promote", "delete", "edit", "stop", "resume", "skills", "completed", "crash"},
                 {"send", "promote", "delete", "edit", "resume", "followup", "skills", "completed", "crash"},
                 {"followup", "steer", "compact", "update", "stop", "completed", "failed", "silent", "fault", "admission"}}
SPECIFICATION Spec
INVARIANTS RunHasOwner HandedIsCurrent
PROPERTIES RemovedIsNotHanded HoldRespected
CHECK_DEADLOCK FALSE
