----------------------------- MODULE SyncHistory -----------------------------
(***************************************************************************)
(* What SyncStore promises to the clients of a tenant, without blocks,      *)
(* reservations, manifests or quotas: every transfer identifier is settled  *)
(* at most once, either by publishing one immutable version on top of the   *)
(* version it was based on or by cancelling it for ever, and concurrent     *)
(* versions of a file stay side by side until somebody chooses one.         *)
(***************************************************************************)
CONSTANTS Project, Path, Transfer, Revision, Stamp, Null

VARIABLES
    published,   \* revision |-> [project, path, stamp]
    current,     \* rows <<project, path, revision>>
    settled      \* <<project, transfer>> |-> its revision, or Null if cancelled

hvars == <<published, current, settled>>

Extend(f, k, v) == [x \in DOMAIN f \cup {k} |-> IF x = k THEN v ELSE f[x]]

Init == published = <<>> /\ current = {} /\ settled = <<>>

\* A base that is no longer current takes nothing away from the current versions.
Publish(p, t, path, stamp, base, r) ==
    /\ <<p, t>> \notin DOMAIN settled
    /\ r \notin DOMAIN published
    /\ base # Null => /\ base \in DOMAIN published
                      /\ published[base].project = p
                      /\ published[base].path = path
    /\ published' = Extend(published, r, [project |-> p, path |-> path, stamp |-> stamp])
    /\ current' = (current \ {<<p, path, base>>}) \cup {<<p, path, r>>}
    /\ settled' = Extend(settled, <<p, t>>, r)

Cancel(p, t) ==
    /\ <<p, t>> \notin DOMAIN settled
    /\ settled' = Extend(settled, <<p, t>>, Null)
    /\ UNCHANGED <<published, current>>

Choose(p, path, r) ==
    /\ <<p, path, r>> \in current
    /\ current' = {h \in current : h[1] = p /\ h[2] = path => h[3] = r}
    /\ UNCHANGED <<published, settled>>

Next ==
    \/ \E p \in Project, t \in Transfer, path \in Path, base \in Revision \cup {Null},
          r \in Revision :
          \E stamp \in Stamp : Publish(p, t, path, stamp, base, r)
    \/ \E p \in Project, t \in Transfer : Cancel(p, t)
    \/ \E p \in Project, path \in Path, r \in Revision : Choose(p, path, r)

Spec == Init /\ [][Next]_hvars
==============================================================================
