\* Two messages sent, queued, promoted, deleted and resumed around stops and a failing store call, then with a crash of
\* the web at any commit, once without stops and once without promotions and deletions; follow-ups and everything that
\* ends a task; messages of a task that is cancelled or archived.
CONSTANTS
    None = None  Messages = {m1, m2}  Editors = {}  Compactions = {}  WithSkills = {}
    QueueLimit = 2  MaxVersion = 1  MaxRuns = 3  MaxCrashes = 1  MaxFaults = 1
    Scenarios = {{"send", "queue", "promote", "delete", "resume", "stop", "completed", "fault"},
                 {"send", "queue", "promote", "delete", "resume", "completed", "crash"},
                 {"send", "queue", "resume", "stop", "completed", "crash"},
                 {"followup", "cancel", "archive", "question", "lost", "crash"},
                 {"followup", "archive", "stop", "question", "completed", "lost", "crash"},
                 {"send", "cancel", "archive", "completed"}}
SPECIFICATION Spec
INVARIANTS TypeOK HandedOnce DeliveredIsAcknowledged QueuedRunInOrder
           WorktreeOutlivesProvider CompleteAtSettle InFlightHasOwner
CHECK_DEADLOCK FALSE
