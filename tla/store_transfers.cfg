\* Two projects of one tenant and two file paths that are aliases of each other;
\* files of one and two bytes in blocks of one or two bytes, right and wrong ones,
\* and a transfer begun with a size that is not its digest's.
CONSTANTS
    a = a  b = b  d1 = d1  d2 = d2  f = f  g = g  k = k  p1 = p1  p2 = p2
    r1 = r1  r2 = r2  r3 = r3  t1 = t1  t2 = t2  t3 = t3
    Project = {p1, p2}
    Path = {f, g}
    Alias <- FGAlias
    Transfer = {t1, t2}
    Revision = {r1, r2}
    Reporter = {}
    Browser = k
    Byte = {a, b}
    Stamp <- TransferStamps
    MaxFile = 2
    MaxChunk = 2
    MaxTenant = 4
    MaxActive = 2
    MaxReserved = 3
    Damaged = Damaged
    Null = Null
SYMMETRY TenantIdentities
SPECIFICATION Spec
INVARIANTS QuotaRespected TransfersInv
PROPERTIES TerminalTransfersStay
