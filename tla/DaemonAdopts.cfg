\* The daemon crashes between a change of its configuration and the activation.
CONSTANTS
    None = None  Hosts = {1, 2, 11}
    WebHosts = {1, 2}  ApplicationHosts = {11}  WorkHosts = {}
    Releases = {r1, r2}  Supported = {r1, r2}  FirstRelease = r1
    MaxInstalls = 1  MaxCrashes = 1  MaxDeaths = 0
    Scenarios = {{"install", "restart", "recover", "crash", "again"}}
SPECIFICATION Spec
INVARIANTS TypeOK OldSchedulerStopped
CHECK_DEADLOCK FALSE
