------------------------------ MODULE ThreadLog ------------------------------
(***************************************************************************)
(* What a workspace promises to everybody who writes its threads, without   *)
(* locks, journals, revisions or anchors: an operation identifier takes     *)
(* effect at most once, in one step with its receipt, and every edit works  *)
(* on the note as it is at that moment, so nobody's text is lost.           *)
(***************************************************************************)
EXTENDS Sequences

CONSTANTS Thread, Operation, Request, Text, Notes

VARIABLES
    notes,       \* thread |-> its note, a sequence of texts
    receipts     \* operation |-> [request, thread, note]

lvars == <<notes, receipts>>

With(f, k, v) == [x \in DOMAIN f \cup {k} |-> IF x = k THEN v ELSE f[x]]

Edited(note, request) ==
    IF request.action = "append" THEN Append(note, request.text) ELSE <<request.text>>

Perform(q, t, note) ==
    /\ q.op \notin DOMAIN receipts
    /\ notes' = With(notes, t, note)
    /\ receipts' = With(receipts, q.op, [request |-> q, thread |-> t, note |-> note])

Create(q, t) ==
    /\ q.action = "create"
    /\ t \notin DOMAIN notes
    /\ Perform(q, t, <<q.text>>)

SetNote(q) ==
    /\ q.action # "create"
    /\ q.thread \in DOMAIN notes
    /\ Perform(q, q.thread, Edited(notes[q.thread], q))

Edit(t, text) ==
    /\ t \in DOMAIN notes
    /\ notes' = With(notes, t, Append(notes[t], text))
    /\ UNCHANGED receipts

\* Another program replaces the file.
Replace(t, note) ==
    /\ t \in DOMAIN notes
    /\ notes' = With(notes, t, note)
    /\ UNCHANGED receipts

Init == DOMAIN notes \subseteq Thread /\ receipts = <<>>

Next ==
    \/ \E q \in Request : SetNote(q) \/ \E t \in Thread : Create(q, t)
    \/ \E t \in Thread, x \in Text : Edit(t, x)
    \/ \E t \in Thread, note \in Notes : Replace(t, note)

Spec == Init /\ [][Next]_lvars
==============================================================================
