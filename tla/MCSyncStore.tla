----------------------------- MODULE MCSyncStore -----------------------------
(* Small instances of SyncStore for TLC: finite tables and symmetric ids.     *)
EXTENDS SyncStore, TLC

CONSTANTS a, b, d1, d2, f, g, k, p1, p2, r1, r2, r3, t1, t2, t3

\* File bodies of zero, one and two bytes.
Empty == [size |-> 0, sha256 |-> <<>>]
OneA  == [size |-> 1, sha256 |-> <<a>>]
OneB  == [size |-> 1, sha256 |-> <<b>>]
Two   == [size |-> 2, sha256 |-> <<a, b>>]
TwoA  == [size |-> 2, sha256 |-> <<a, a>>]
\* A request whose size and digest belong to different bodies.
Wrong == [size |-> 1, sha256 |-> <<a, b>>]

HistoryStamps == {OneA}
TransferStamps == {Two, Wrong}
ReadyStamps   == {OneA, Empty}

NoAlias  == {}
FGAlias  == {<<f, g>>, <<g, f>>}

Identities == Permutations(Transfer) \cup Permutations(Revision)
TenantIdentities == Identities \cup Permutations(Project) \cup Permutations(Path)
==============================================================================
