\* Two tasks compete for one or two slots, resuming and changing one session, with one fault anywhere.
CONSTANTS
    None = None  q1 = q1
    Tasks = {t1, t2}  Messages = {}  Sessions = {s1}  Requests = {}
    Commands = {}  Bodies <- NoBodies
    MaxExecutions = 2  MaxLaunches = 1  Capacities = {1, 2}  MaxOutput = 1  MaxFaults = 1
SPECIFICATION Spec
INVARIANTS TypeOK SessionExclusive
PROPERTIES AdmissionIsOrderly
CHECK_DEADLOCK FALSE
