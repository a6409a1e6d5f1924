\* A reader of up to four further events, paged one by one, with one trouble; every kind of event without a reader.
CONSTANTS
    None = None
    Workloads = {{"text", "tool"}, {"status", "tool", "begin"},
                 {"unread", "reset", "begin", "user", "compacted", "text", "progress", "tool", "done",
                  "status", "marker", "result", "answer", "error", "failed"}}
    MaxEvents = 5  MaxBatch = 2  PageItems = 1  MaxFrames = 2  MaxPending = 1
    MaxTroubles = 1  Formats = {"transcript", "events"}
SPECIFICATION Spec
INVARIANTS TypeOK CursorIsTruthful QuietIsCurrent EveryEventShown
CHECK_DEADLOCK FALSE
