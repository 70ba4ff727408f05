\* Two desktops and the server share a title and a task: two contents, one move,
\* restore or review, and one purge or dead pass.  One desktop binds a project that
\* the browser sees as well.  A watched file is saved once, in one of two contents,
\* its import dies once, and its owner makes one request.
CONSTANTS
  Replica = {a, b}
  Server = srv
  None = None
  MaxEdits = 2
  MaxActs = 1
  MaxUpsets = 1
  Desktop = {d1}
  Created = {c1}
  MaxTexts = 2
  MaxFaults = 2
  Bytes = {a, b}
  Inbox = Inbox
  Assigned = Assigned
  FileRequest = {q1}
  MaxFolderSaves = 1
  MaxInterruptions = 1
SPECIFICATION LiveSharingSpec
INVARIANTS  ProjInv RefreshInv
PROPERTIES  FormsSeeWhatTheyReplace WatchedFolderIsImported
\* Edits, requests and faults are bounded: when they are used up nothing happens any more.
CHECK_DEADLOCK FALSE
