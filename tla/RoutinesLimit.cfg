\* The runtime crashes while its launch request waits in a connection of the daemon.
CONSTANTS
    None = None  Hosts = {1, 2}  RoutineIds = {r1, r2}
    ScriptCapacity = 1  MaxTime = 0  MaxOutages = 1  MaxDeaths = 0
    Scenarios = {{"run", "again"}}
SPECIFICATION Spec
INVARIANTS TypeOK ScriptLimit
CHECK_DEADLOCK FALSE
