---------------------------- MODULE MCSyncClient -----------------------------
(* Replicas of one file, with contents of one or two bytes.                   *)
EXTENDS SyncClient, TLC

CONSTANTS a, b, c, d1, d2, f, k, p1

A == [size |-> 1, sha256 |-> <<a>>]
B == [size |-> 1, sha256 |-> <<b>>]
C == [size |-> 1, sha256 |-> <<c>>]
BB == [size |-> 2, sha256 |-> <<b, b>>]
Contents == {A, B}
Three    == {A, B, C}
\* One content that takes one block and one that takes two.
Lengths  == {A, BB}
NoAlias == {}

\* Bounds on the owners' saves and removals.
OneEach  == [d \in Client |-> 1]
TwoByOne == [d \in Client |-> IF d = d1 THEN 2 ELSE 0]
TwoAndOne == [d \in Client |-> IF d = d1 THEN 2 ELSE 1]

Replicas == Permutations(Client)
Bytes    == Permutations(Byte)
==============================================================================
