\* Two saves or removals at d1 and one at d2, of three contents; one pass dies, a request
\* or an answer is lost, or the operator intervenes once.
CONSTANTS
    a = a  b = b  c = c  d1 = d1  d2 = d2  f = f  k = k  p1 = p1
    Project = {p1}
    Path = {f}
    Alias <- NoAlias
    Transfer = {1, 2, 3, 4}
    Revision = {1, 2, 3, 4}
    Reporter = {d1, d2}
    Browser = k
    Byte = {a, b, c}
    Stamp <- Three
    MaxFile = 1
    MaxChunk = 1
    MaxTenant = 4
    MaxActive = 2
    MaxReserved = 2
    Damaged = Damaged
    Null = Null
    Client = {d1, d2}
    Home = p1
    File = f
    Edits <- Three
    MaxEdits <- TwoAndOne
    MaxFaults = 1
    MaxOps = 1
    MaxTroubles = 1
    MaxLate = 0
SYMMETRY Bytes
SPECIFICATION CSpec
INVARIANTS ClientInv
PROPERTIES NothingDestroyed
