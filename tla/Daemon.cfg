\* Two webs, one scheduler, one host of work.  An update is activated or the daemon replaced for it; the daemon
\* crashes meanwhile; services fail and are recovered; an installation is stopped; guardians die, records are compacted.
CONSTANTS
    None = None  Hosts = {1, 2, 11, 21}
    WebHosts = {1, 2}  ApplicationHosts = {11}  WorkHosts = {21}
    Releases = {r1, r2}  Supported = {r1, r2}  FirstRelease = r1
    MaxInstalls = 1  MaxCrashes = 1  MaxDeaths = 1
    Scenarios = {{"install", "restart", "again"}, {"install", "replace", "recover", "again", "exits"},
                 {"install", "replace", "recover", "crash", "exits"}, {"recover", "guardian", "again", "exits"},
                 {"recover", "crash", "again", "exits"}, {"recover", "slow", "again", "exits"},
                 {"restart", "stop", "crash", "exits"}, {"restart", "work", "stop"},
                 {"restart", "guardian", "recover", "retention", "stable", "descendants", "exits"},
                 {"restart", "guardian", "failing", "descendants", "process-group", "exits"},
                 {"recover", "failing", "again", "process-group", "exits"},
                 {"work", "stop", "retention", "crash", "exits"}}
SPECIFICATION Spec
INVARIANTS OneOfEach SchedulerIsOfRelease StoppedIsIdle ReportedDeadIsOver
PROPERTIES HostsImplementInvocation
CHECK_DEADLOCK FALSE
