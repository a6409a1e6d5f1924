\* Hosts isolated by process groups alone: a guardian cannot find out who its child is.
CONSTANTS
    None = None  Hosts = {1, 2, 11}
    WebHosts = {1, 2}  ApplicationHosts = {11}  WorkHosts = {}
    Releases = {r1}  Supported = {r1}  FirstRelease = r1
    MaxInstalls = 0  MaxCrashes = 0  MaxDeaths = 1
    Scenarios = {{"restart", "failing", "process-group"}}
SPECIFICATION Spec
INVARIANTS TypeOK ReportedDeadIsGone
CHECK_DEADLOCK FALSE
