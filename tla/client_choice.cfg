\* Two replicas with an edit each; the operator acts once.
CONSTANTS
    a = a  b = b  c = c  d1 = d1  d2 = d2  f = f  k = k  p1 = p1
    Project = {p1}
    Path = {f}
    Alias <- NoAlias
    Transfer = {1, 2, 3}
    Revision = {1, 2, 3}
    Reporter = {d1, d2}
    Browser = k
    Byte = {a, b}
    Stamp <- Contents
    MaxFile = 1
    MaxChunk = 1
    MaxTenant = 4
    MaxActive = 2
    MaxReserved = 2
    Damaged = Damaged
    Null = Null
    Client = {d1, d2}
    Home = p1
    File = f
    Edits <- Contents
    MaxEdits <- OneEach
    MaxFaults = 0
    MaxOps = 1
    MaxTroubles = 1
    MaxLate = 0
SPECIFICATION FairCSpec
PROPERTIES ChoiceIsTakenOver
