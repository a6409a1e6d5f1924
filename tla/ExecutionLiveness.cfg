\* Two executions compete for a slot with one fault, or one execution with a command meets two.
CONSTANTS
    None = None  q1 = q1  t1 = t1
    Tasks = {t1, t2}  Messages = {m1}  Sessions = {}  Requests = {q1}
    Commands = {c1}  Bodies <- ControlBodies
    MaxExecutions = 2  MaxLaunches = 1  Capacities = {1}  MaxOutput = 1  MaxFaults = 2
SPECIFICATION LivenessSpec
PROPERTIES NoIdleSlot LostHostIsRecorded ReceiptsSettle
CHECK_DEADLOCK FALSE
