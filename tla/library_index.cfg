\* The library's worker builds the first index of a record while its owner saves it
\* again and rebuilds the index as well; nothing dies and every blob can be read.
CONSTANTS
    Record = {r}
    Builder = {w, v}
    Worker = w
    Unpublished = Unpublished
    MaxChanges = 1
    MaxRefreshes = 0
    MaxMishaps = 0
SPECIFICATION IndexSpec
INVARIANTS ReadyIsComplete
\* Changes are bounded: when they are used up nothing happens any more.
CHECK_DEADLOCK FALSE
