\* One project, one file, three transfers and three versions: forks,
\* superseded and stale bases, resolutions, damaged bytes, and the manifests of a
\* replica and the browser.  The content search of a workspace: two threads and
\* four changes of them or of its switch, a program that rebuilds, and one index
\* write that fails.  The index of a library: its worker and another builder, two changes
\* of a record or of the workspace, a refresh, and one builder that dies or one outage.
CONSTANTS
    a = a  b = b  d1 = d1  d2 = d2  f = f  g = g  k = k  p1 = p1  p2 = p2
    r1 = r1  r2 = r2  r3 = r3  t1 = t1  t2 = t2  t3 = t3
    Project = {p1}
    Path = {f}
    Alias <- NoAlias
    Transfer = {t1, t2, t3}
    Revision = {r1, r2, r3}
    Reporter = {d1, k}
    Browser = k
    Byte = {a}
    Stamp <- HistoryStamps
    MaxFile = 1
    MaxChunk = 1
    MaxTenant = 3
    MaxActive = 3
    MaxReserved = 3
    Damaged = Damaged
    Null = Null
    ThreadRows = 2
    Rebuilder = {q}
    NotReading = NotReading
    MaxWrites = 4
    MaxFaults = 1
    Record = {rec}
    Builder = {w, v}
    Worker = w
    Unpublished = Unpublished
    MaxChanges = 2
    MaxRefreshes = 1
    MaxMishaps = 1
SYMMETRY Identities
SPECIFICATION HistoriesSpec
INVARIANTS HistoryHasAHead   IndexInv
PROPERTIES ImplementsHistory
\* Changes and faults are bounded: when they are used up nothing happens any more.
CHECK_DEADLOCK FALSE
