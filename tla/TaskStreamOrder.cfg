\* A status, prose and a call of one turn, without a reader.
CONSTANTS
    None = None
    Workloads = {{"unread", "status", "text", "tool"}}
    MaxEvents = 4  MaxBatch = 2  PageItems = 1  MaxFrames = 2  MaxPending = 1
    MaxTroubles = 1  Formats = {"transcript", "events"}
SPECIFICATION Spec
INVARIANT WorkFollowsProse
CHECK_DEADLOCK FALSE
