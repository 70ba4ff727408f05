\* One desktop keeps a binding of one remote in two directories.  Two guests are
\* paired twice with two rooms.  Two desks share a thread: two entries, with one key or
\* none, two changes of the thread, and a lost bundle or a crash.  Two runs answer one handoff,
\* by two programs at a time.  Two transfers bring one content of two blocks, and the
\* receiver dies once.  A watched file is saved twice, among two contents, and its
\* import dies once.  A view is saved twice and delivered to one of two tabs, with two
\* lost answers, moved cameras, reloads or restarts.  A bundle of two pages comes in
\* two editions, with two edits and one failure between their imports.  Two programs
\* back up a workspace of a database, one more file and a library of one while it is
\* written three times, and a restored one is selected.
CONSTANTS
    d1 = d1  d2 = d2  g1 = g1  g2 = g2  r1 = r1  r2 = r2  u1 = u1  u2 = u2  w1 = w1  w2 = w2
    t1 = t1  t2 = t2  v1 = v1  v2 = v2  s1 = s1  s2 = s2  x1 = x1  x2 = x2  e1 = e1  e2 = e2
    Process = {p1}
    Remote = {m1}
    Root = {d1, d2}
    NoBook = NoBook
    MaxSaves = 3
    MaxToggles = 1
    MaxTransfers = 2
    Guest = {g1, g2}
    Room = {r1, r2}
    Pool = {p1}
    MaxInvites = 2
    MaxPairs = 2
    MaxVisits = 1
    Desk = {hub, desk}
    Hub = hub
    Reader = {}
    Wording = {e1, e2}
    Name = {k1}
    MaxEntries = 12
    MaxPosts = 2
    MaxLifeChanges = 2
    MaxMishaps = 1
    MaxMail = 2
    Handoff = {h1}
    Run = {u1, u2}
    ReturnId = {i1}
    Handler = {w1, w2}
    Nobody = Nobody
    MaxChanges = 1
    MaxRequests = 3
    Transfer = {t1, t2}
    Content = {x}
    Size = 2
    NoContent = NoContent
    MaxActive = 1
    MaxRecords = 3
    MaxDeaths = 1
    MaxNotes = 1
    Bytes = {b1, b2}
    Inbox = Inbox
    Assigned = Assigned
    FileRequest = {}
    MaxFolderSaves = 2
    MaxInterruptions = 1
    Tab = {v1, v2}
    ViewState = {s1, s2}
    NoView = NoView
    MaxViews = 2
    MaxIntents = 1
    MaxClients = 2
    MaxLosses = 2
    Page = {"p", "q"}
    Edition = {"e1", "e2"}
    Text = {"a", "b", "c"}
    Pages <- BundlePages
    Absent = Absent
    MaxEdits = 2
    MaxFailures = 1
    Database = db
    OtherFile = {f}
    Moving = {}
    LibraryPart = {l}
    Exporter = {x1, x2}
    Archive = {a1}
    Profile = {n1}
    NoProfile = NoProfile
    MaxWrites = 3
    MaxHalts = 1
SYMMETRY Swaps
SPECIFICATION CollaborationSpec
INVARIANTS   BoardInv  UploadsInv RefreshInv GraphInv  
PROPERTIES BothVersionsStay LifeIsAgreed OverwritesAreDecided
\* Requests, edits and faults are bounded: when they are used up nothing happens any more.
CHECK_DEADLOCK FALSE
