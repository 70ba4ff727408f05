\* Two workers send requests of every kind, again and at the same time, under
\* identifiers they share, on JSON files.  Two objects are linked, edited, moved,
\* restored and purged under four identities, two deletions each.  Two writers use
\* a JSON workspace with one thread: an operation, a conflicting use of its
\* identifier, a new thread and direct edits, repeated and interrupted.  Two
\* processes serve, provision, back up and restore a data directory of two pieces.
CONSTANTS
    w1 = w1  w2 = w2  w3 = w3  o1 = o1  o2 = o2  o3 = o3  a = a  b = b
    Worker = {w1, w2}
    Operation = {o1, o2, o3}
    Request <- Requests
    Overwrites = TRUE
    Null = Null
    MaxCalls = 5
    MaxStops = 1
    Object = {n1, n2}
    MaxOperations = 4
    NoRequest = NoRequest
    MaxVersions = 1
    MaxDeletions = 2
    MaxApprovals = 1
    MaxCommands = 1
    t1 = t1  t2 = t2  x = x  y = y
    Writer = {v1, v2}
    Thread = {t1, t2}
    Existing = {t1}
    Identifier = {"m1", "m2"}
    ManageRequest <- ManageRequests
    Text = {x}
    ForeignText = {y}
    Nil = Nil
    MaxAsked = 3
    MaxKilled = 2
    MaxForeign = 1
    Piece = {accounts, store}
    Accounts = accounts
    Process = {p, r}
    Tar = {t, u}
    Place = {d}
    NoProcess = NoProcess
    MaxChanges = 2
SYMMETRY Interchangeable
SPECIFICATION OperationsSpec
INVARIANTS EffectOnce CompleteMeansDone  SpaceInv ColdInv
PROPERTIES PurgeIsAsApproved ImplementsLog
\* Calls, approvals and faults are bounded: when they are used up nothing happens any more.
CHECK_DEADLOCK FALSE
