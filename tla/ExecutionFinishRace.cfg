\* One execution that ends in good order, no fault at all.
CONSTANTS
    None = None  q1 = q1
    Tasks = {t1}  Messages = {}  Sessions = {}  Requests = {}
    Commands = {}  Bodies <- NoBodies
    MaxExecutions = 1  MaxLaunches = 1  Capacities = {1}  MaxOutput = 0  MaxFaults = 0
SPECIFICATION Spec
PROPERTIES FinishedIsFinal
CHECK_DEADLOCK FALSE
