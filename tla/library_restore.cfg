\* A watched file is saved again, deleted in the library by its owner, and its import
\* dies once.
CONSTANTS
    Bytes = {a, b}
    Inbox = Inbox
    Assigned = Assigned
    FileRequest = {q1}
    MaxFolderSaves = 2
    MaxInterruptions = 1
SPECIFICATION RefreshSpec
INVARIANTS NeverARestore
\* Requests, saves and deaths are bounded: when they are used up nothing happens any more.
CHECK_DEADLOCK FALSE
