\* The configuration changes again between the check of a replacement and the exec; nothing crashes.
CONSTANTS
    None = None  Hosts = {1, 2, 11}
    WebHosts = {1, 2}  ApplicationHosts = {11}  WorkHosts = {}
    Releases = {r1, r2}  Supported = {r1, r2}  FirstRelease = r1
    MaxInstalls = 1  MaxCrashes = 0  MaxDeaths = 0
    Scenarios = {{"install", "replace", "recover", "again", "exits"}}
SPECIFICATION Spec
INVARIANTS TypeOK OldSchedulerStopped
CHECK_DEADLOCK FALSE
