\* Two runs compete for one script slot around one crash of the runtime or the daemon;
\* one run with stops, shutdowns and deaths, with and without control groups; edits and removals.
CONSTANTS
    None = None  Hosts = {1, 2}  RoutineIds = {r1}
    ScriptCapacity = 1  MaxTime = 1  MaxOutages = 1  MaxDeaths = 1
    Scenarios = {{"run", "again"}, {"stop", "shutdown", "death", "unsuccessful"},
                 {"stop", "death", "failing", "unsuccessful", "process-group"}, {"run", "update", "remove", "unsuccessful"}}
SPECIFICATION FairSpec
INVARIANTS ExecutedOnce FiredOncePerSlot SavedResultIsRecorded ExecutingIsRunning
PROPERTIES RunsEnd
CHECK_DEADLOCK FALSE
