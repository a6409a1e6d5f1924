\* Two interchangeable command ids, each usable for an answer, an interrupt or a message; the execution may be launched
\* twice, and the open of its message repeated.
CONSTANTS
    None = None  q1 = q1
    Tasks = {t1}  Messages = {m1}  Sessions = {}  Requests = {q1}
    Commands = {c1, c2}  Bodies <- ControlBodies
    MaxExecutions = 1  MaxLaunches = 2  Capacities = {1}  MaxOutput = 1  MaxFaults = 1
SYMMETRY CommandSymmetry
SPECIFICATION Spec
INVARIANTS InvokedOnceByClaimant ActiveHostIsOwner WrittenOnce ReceiptTruthful AnsweredOnce WrittenInOrder
PROPERTIES InvocationIsImplemented
CHECK_DEADLOCK FALSE
