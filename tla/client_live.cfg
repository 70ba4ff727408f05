\* Two replicas with an edit each, and one failed pass.  The library's worker and another
\* builder keep the index of one record: a change of the record or of the workspace, a
\* refresh, and one builder that dies or one outage of the blobs.
CONSTANTS
    a = a  b = b  c = c  d1 = d1  d2 = d2  f = f  k = k  p1 = p1
    Project = {p1}
    Path = {f}
    Alias <- NoAlias
    Transfer = {1, 2, 3}
    Revision = {1, 2}
    Reporter = {d1, d2}
    Browser = k
    Byte = {a, b}
    Stamp <- Contents
    MaxFile = 1
    MaxChunk = 1
    MaxTenant = 4
    MaxActive = 2
    MaxReserved = 2
    Damaged = Damaged
    Null = Null
    Client = {d1, d2}
    Home = p1
    File = f
    Edits <- Contents
    MaxEdits <- OneEach
    MaxFaults = 1
    MaxOps = 0
    MaxTroubles = 1
    MaxLate = 0
    Record = {rec}
    Builder = {w, v}
    Worker = w
    Unpublished = Unpublished
    MaxChanges = 1
    MaxRefreshes = 1
    MaxMishaps = 1
SPECIFICATION ProgressSpec
PROPERTIES HeadsArrive SavesArePublished StaleIndexIsRepaired
\* Changes and mishaps are bounded: when they are used up nothing happens any more.
CHECK_DEADLOCK FALSE
