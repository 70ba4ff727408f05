\* One replica with two saves or removals, of one or two blocks, whose uploads meet
\* two faults, late requests and one intervention of the operator.
CONSTANTS
    a = a  b = b  c = c  d1 = d1  d2 = d2  f = f  k = k  p1 = p1
    Project = {p1}
    Path = {f}
    Alias <- NoAlias
    Transfer = {1, 2, 3, 4, 5}
    Revision = {1, 2, 3}
    Reporter = {d1}
    Browser = k
    Byte = {a, b}
    Stamp <- Lengths
    MaxFile = 2
    MaxChunk = 1
    MaxTenant = 8
    MaxActive = 2
    MaxReserved = 4
    Damaged = Damaged
    Null = Null
    Client = {d1}
    Home = p1
    File = f
    Edits <- Lengths
    MaxEdits <- TwoByOne
    MaxFaults = 2
    MaxOps = 1
    MaxTroubles = 3
    MaxLate = 2
SPECIFICATION FairCSpec
PROPERTIES ReservationsEnd
