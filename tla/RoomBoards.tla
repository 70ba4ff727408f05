------------------------------ MODULE RoomBoards ------------------------------
(* Desks exchange the entries of a room in one shared thread, and what became of *)
(* the thread (services/room_sync.py sync, export_bundle and apply_bundle,       *)
(* whiteboard_merge.py, trash_sync.py, trash_conflicts.py).  The hub paired all  *)
(* the others; a bundle is applied later than it was exported, while the desk's  *)
(* own user goes on writing.                                                     *)
EXTENDS Integers, Sequences, FiniteSets

CONSTANTS Desk, Hub, Reader,       \* desks; the one that paired the others; desks that only read
          Wording, Name,           \* bodies of entries and what external keys are made of
          MaxEntries,              \* bound on entries ever written
          MaxPosts,                \* bound on those that users write
          MaxLifeChanges,          \* bound on edits, removals, restores and reviews
          MaxMishaps,              \* bound on lost bundles and on crashes
          MaxMail                  \* bound on bundles under way at a time

ASSUME HubAssumption == Hub \in Desk /\ Reader \subseteq Desk \ {Hub}

VARIABLES board,      \* desk |-> the room's entries in its copy of the thread
          present,    \* desks that have the thread
          private,    \* desk |-> how often its user edited the thread itself
          removals,   \* desk |-> states of the thread's deletions, by generation
          mail,       \* bundles under way
          importing,  \* desk |-> entries of a bundle it still has to merge
          reviews,    \* desk |-> lifecycle records that wait for its user, and those done
          boardCount  \* the bounds used up
boardVars == <<board, present, private, removals, mail, importing, reviews, boardCount>>

Count(field) == boardCount' = [boardCount EXCEPT ![field] = @ + 1]

-----------------------------------------------------------------------------
(* Entries and their merge *)

\* A key that was given to an entry, or none; those of markers have two parts.
NoKey == <<>>
Key == {<<name>> : name \in Name}

BodyOf(e) == [key |-> e.key, text |-> e.text]

\* Faulty variant: entries of one external key are taken for the same.
SameKey(x, e) == x.key = e.key
SameBody(x, e) == BodyOf(x) = BodyOf(e)

MarkerKey(kept, e) == <<kept.id, BodyOf(e)>>
IsMarker(e) == Len(e.key) = 2

\* _record_conflict: the incoming version in full, as a new entry beside the kept one.
Marker(kept, e) ==
    [id |-> boardCount.entries + 1, at |-> e.at, key |-> MarkerKey(kept, e), text |-> e]

\* Faulty variant: an entry is recognized by its identifier alone.
RivalsById(d, e) == {x \in board[d] : x.id = e.id}
\* The entry of this identifier, or else the one of this external key.
Rivals(d, e) ==
    LET known == {x \in board[d] : x.id = e.id}
    IN IF known # {} THEN known
       ELSE {x \in board[d] : x.key = e.key /\ e.key # NoKey}

Generations(d) == Len(removals[d])
Last(d) == removals[d][Generations(d)]
InBin(d) == Generations(d) > 0 /\ Last(d) # "restored"
Here(d) == d \in present /\ ~InBin(d)

\* append_whiteboard_entry: the thread is there and not in the trash.
Writable(d) == Here(d)

\* merge_whiteboard takes the entries by their time, each under the append lock.
MergeEntry(d, e) ==
    /\ e \in importing[d] /\ \A x \in importing[d] : e.at <= x.at
    /\ Writable(d) /\ boardCount.entries < MaxEntries
    /\ LET rivals == Rivals(d, e)
           kept == CHOOSE x \in rivals : TRUE
       IN IF rivals = {}
          THEN board' = [board EXCEPT ![d] = @ \cup {e}] /\ UNCHANGED boardCount
          ELSE IF SameBody(kept, e)
                  \/ \E x \in board[d] : x.key = MarkerKey(kept, e)
               THEN UNCHANGED <<board, boardCount>>
               ELSE /\ board' = [board EXCEPT ![d] = @ \cup {Marker(kept, e)}]
                    /\ Count("entries")
    /\ importing' = [importing EXCEPT ![d] = @ \ {e}]
    /\ UNCHANGED <<present, private, removals, mail, reviews>>

\* The thread went away under the merge: the rest of the bundle is dropped.
AbandonMerge(d) ==
    /\ importing[d] # {} /\ ~Here(d)
    /\ importing' = [importing EXCEPT ![d] = {}]
    /\ UNCHANGED <<board, present, private, removals, mail, reviews, boardCount>>

-----------------------------------------------------------------------------
(* What the desk's user does *)

PostEntry(d, key, text) ==
    /\ Here(d) /\ boardCount.posts < MaxPosts /\ boardCount.entries < MaxEntries
    /\ d \notin Reader
    /\ key # NoKey => \A x \in board[d] : x.key # key
    /\ LET n == boardCount.entries + 1
       IN board' = [board EXCEPT ![d] = @ \cup {[id |-> n, at |-> n, key |-> key, text |-> text]}]
    /\ boardCount' = [boardCount EXCEPT !.entries = @ + 1, !.posts = @ + 1]
    /\ UNCHANGED <<present, private, removals, mail, importing, reviews>>

EditThread(d) ==
    /\ Here(d) /\ boardCount.changes < MaxLifeChanges /\ Count("changes")
    /\ private' = [private EXCEPT ![d] = @ + 1]
    /\ UNCHANGED <<board, present, removals, mail, importing, reviews>>

Removed(d) == [removals EXCEPT ![d] = Append(@, "trashed")]
PutBack(d) == [removals EXCEPT ![d][Generations(d)] = "restored"]
Purged(d) == [removals EXCEPT ![d][Generations(d)] = "purged"]

ChangeThread(d) ==
    /\ d \in present /\ boardCount.changes < MaxLifeChanges /\ Count("changes")
    /\ \/ Here(d) /\ removals' = Removed(d) /\ UNCHANGED <<board, present>>
       \/ InBin(d) /\ removals' = PutBack(d) /\ UNCHANGED <<board, present>>
       \/ /\ InBin(d) /\ removals' = Purged(d)
          /\ board' = [board EXCEPT ![d] = {}] /\ present' = present \ {d}
    /\ UNCHANGED <<private, mail, importing, reviews>>

-----------------------------------------------------------------------------
(* Bundles *)

NoRecord == [generation |-> 0]
Digest(d) == <<private[d], board[d]>>

\* export_room_lifecycle: the newest deletion of a thread that is still there.
LifeRecord(d) ==
    IF Generations(d) = 0 \/ d \notin present \/ board[d] = {} THEN NoRecord
    ELSE [generation |-> Generations(d), state |-> Last(d), digest |-> Digest(d)]

Linked(d, e) == d # e /\ Hub \in {d, e}

\* A pull's answer or a push; a desk that only reads exports nothing.
SendBundle(d, e) ==
    /\ Linked(d, e) /\ ~\E m \in mail : m.from = d /\ m.to = e
    /\ Cardinality(mail) < MaxMail
    /\ d \notin Reader
    /\ mail' = mail \cup {[from |-> d, to |-> e, life |-> LifeRecord(d),
                           rows |-> IF Here(d) THEN board[d] ELSE {}]}
    /\ UNCHANGED <<board, present, private, removals, importing, reviews, boardCount>>

LoseBundle(m) ==
    /\ boardCount.mishaps < MaxMishaps /\ Count("mishaps")
    /\ mail' = mail \ {m}
    /\ UNCHANGED <<board, present, private, removals, importing, reviews>>

Missing(d) == d \notin present /\ removals[d] = <<>>
Owned(d) == d \in present /\ board[d] # {}

\* validate_room_scope: a thread the desk has, or had, without entries of the room
\* is none of the room's business; the whole bundle is refused.
OutOfScope(m) ==
    \/ m.rows # {} /\ m.to \in present /\ ~Owned(m.to)
    \/ m.life # NoRecord /\ ~Owned(m.to) /\ ~Missing(m.to)

AlreadyDone(m) == Generations(m.to) = m.life.generation /\ Last(m.to) = m.life.state

\* Faulty variant: the sender's content is not compared.
AgreedBlindly(m) ==
    /\ m.life.state = "trashed" => m.life.generation = Generations(m.to) + 1 /\ Here(m.to)
    /\ m.life.state = "restored" => m.life.generation = Generations(m.to) /\ InBin(m.to)
\* apply_room_lifecycle: the next generation, on the content the sender had.
Agreed(m) ==
    /\ Digest(m.to) = m.life.digest
    /\ m.life.state = "trashed" => m.life.generation = Generations(m.to) + 1 /\ Here(m.to)
    /\ m.life.state = "restored" => m.life.generation = Generations(m.to) /\ InBin(m.to)

Followed(m) == IF m.life.state = "trashed" THEN Removed(m.to) ELSE PutBack(m.to)
AddReview(m) == [reviews EXCEPT ![m.to] = @ \cup {[life |-> m.life, done |-> FALSE]}]
Raised(m) == IF \E r \in reviews[m.to] : r.life = m.life THEN reviews ELSE AddReview(m)

ReceiveLife(m) ==
    IF m.life = NoRecord \/ Missing(m.to) \/ AlreadyDone(m) THEN UNCHANGED <<removals, reviews>>
    ELSE IF Agreed(m) THEN removals' = Followed(m) /\ UNCHANGED reviews
    ELSE reviews' = Raised(m) /\ UNCHANGED removals

\* Entries are taken if the thread was never removed here, or was restored here and
\* there in the same generation; a late bundle stays outside.
Accepted(m) ==
    \/ removals'[m.to] = <<>>
    \/ /\ removals'[m.to][Len(removals'[m.to])] = "restored"
       /\ m.life # NoRecord /\ m.life.state = "restored"
       /\ m.life.generation = Len(removals'[m.to])

\* apply_bundle: scope, lifecycle, then a shell for an unknown thread; the entries
\* follow one by one.
Receive(m) ==
    /\ m \in mail /\ importing[m.to] = {}
    /\ mail' = mail \ {m}
    /\ ~(m.life # NoRecord /\ Missing(m.to))
    /\ \/ OutOfScope(m) /\ UNCHANGED <<present, removals, reviews, importing>>
       \/ /\ ~OutOfScope(m) /\ ReceiveLife(m)
          /\ IF m.rows # {} /\ Accepted(m)
             THEN /\ present' = present \cup {m.to}
                  /\ importing' = [importing EXCEPT ![m.to] = m.rows]
             ELSE UNCHANGED <<present, importing>>
    /\ UNCHANGED <<board, private, boardCount>>

\* A thread that is new here comes with a history: the first restore is taken over
\* with the content it belongs to, in one transaction; nothing else is.
ReceiveFirst(m) ==
    /\ m \in mail /\ importing[m.to] = {}
    /\ m.life # NoRecord /\ Missing(m.to)
    /\ mail' = mail \ {m}
    /\ IF m.life.state = "restored" /\ m.life.generation = 1
          /\ m.rows # {} /\ m.life.digest = <<0, m.rows>>
       THEN /\ present' = present \cup {m.to}
            /\ board' = [board EXCEPT ![m.to] = m.rows]
            /\ removals' = [removals EXCEPT ![m.to] = <<"restored">>]
            /\ UNCHANGED reviews
       ELSE /\ reviews' = IF m.life.state = "restored" /\ (m.life.generation > 1 \/ m.rows # {})
                          THEN Raised(m) ELSE reviews
            /\ UNCHANGED <<present, board, removals>>
    /\ UNCHANGED <<private, importing, boardCount>>

\* The user settles a review (trash_conflicts.py resolve): the local state stays, or
\* the sender's generation is taken over if it is the next one.
Resolve(d, r) ==
    /\ ~r.done /\ boardCount.changes < MaxLifeChanges /\ Count("changes")
    /\ reviews' = [reviews EXCEPT ![d] = (@ \ {r}) \cup {[r EXCEPT !.done = TRUE]}]
    /\ \/ UNCHANGED removals
       \/ /\ r.life.state = "trashed" /\ Here(d) /\ r.life.generation = Generations(d) + 1
          /\ removals' = Removed(d)
       \/ /\ r.life.state = "restored" /\ Here(d) /\ r.life.generation = Generations(d) + 1
          /\ removals' = [removals EXCEPT ![d] = Append(@, "restored")]
       \/ /\ r.life.state = "restored" /\ d \in present /\ InBin(d)
          /\ r.life.generation = Generations(d) /\ removals' = PutBack(d)
    /\ UNCHANGED <<board, present, private, mail, importing>>

\* The desk's process dies while it applies a bundle.
DieMerging(d) ==
    /\ importing[d] # {} /\ boardCount.mishaps < MaxMishaps /\ Count("mishaps")
    /\ importing' = [importing EXCEPT ![d] = {}]
    /\ UNCHANGED <<board, present, private, removals, mail, reviews>>

-----------------------------------------------------------------------------
BoardInit ==
    /\ board = [d \in Desk |-> {}]
    /\ present = {Hub}
    /\ private = [d \in Desk |-> 0]
    /\ removals = [d \in Desk |-> <<>>]
    /\ mail = {}
    /\ importing = [d \in Desk |-> {}]
    /\ reviews = [d \in Desk |-> {}]
    /\ boardCount = [entries |-> 0, posts |-> 0, changes |-> 0, mishaps |-> 0]

Deliver(d, e) == \E m \in mail : m.from = d /\ m.to = e /\ (Receive(m) \/ ReceiveFirst(m))
MergeRows(d) == AbandonMerge(d) \/ \E e \in importing[d] : MergeEntry(d, e)

BoardNext ==
    \/ \E d \in Desk :
          \/ \E key \in Key \cup {NoKey}, text \in Wording : PostEntry(d, key, text)
          \/ EditThread(d) \/ ChangeThread(d) \/ DieMerging(d)
          \/ \E r \in reviews[d] : Resolve(d, r)
          \/ MergeRows(d)
          \/ \E e \in Desk : SendBundle(d, e) \/ Deliver(d, e)
    \/ \E m \in mail : LoseBundle(m)

BoardSpec == BoardInit /\ [][BoardNext]_boardVars

-----------------------------------------------------------------------------
(* Properties *)

BoardTypeOK ==
    \A d \in Desk :
       /\ board[d] # {} => d \in present
       /\ \A e \in board[d] : e.id \in 1 .. boardCount.entries /\ e.at <= e.id
       /\ \A g \in DOMAIN removals[d] : g < Generations(d) => removals[d][g] = "restored"
       /\ d \in present \/ Missing(d) \/ Last(d) = "purged"

\* Every version a desk was sent and merged is on its board, itself or in a marker
\* (merge_whiteboard: "Both versions stay"), as long as the desk has the thread.
Shown(d) == {BodyOf(e) : e \in board[d]} \cup {BodyOf(e.text) : e \in {x \in board[d] : IsMarker(x)}}
BothVersionsStay ==
    [][\A d \in present : d \in present' =>
          /\ Shown(d) \subseteq Shown(d)'
          /\ \A e \in importing[d] :
                importing'[d] = importing[d] \ {e} /\ Here(d) /\ boardCount'.mishaps = boardCount.mishaps
                   => BodyOf(e) \in Shown(d)']_boardVars

\* However often bundles are exchanged, no entry and no marker is there twice
\* (README: a repeated sync makes no further copies).
NoCopies ==
    \A d \in Desk : \A x, y \in board[d] :
       (x.id = y.id \/ (x.key = y.key /\ x.key # NoKey)) => x = y

\* A desk's thread follows another desk into the trash or out of it only with the
\* content that desk saw; a different one waits for the user (apply_room_lifecycle).
LifeIsAgreed ==
    [][\A d \in Desk : removals'[d] # removals[d] /\ boardCount' = boardCount =>
          \E m \in mail \ mail' : m.to = d /\ m.life.digest = <<private[d], board'[d]>>]_boardVars

\* In whatever order bundles of entries, edits and lives arrive: a desk has an entry once
\* and none of a purged thread (merge_whiteboard, _merge_thread).
BoardInv ==
    /\ BoardTypeOK
    /\ NoCopies
===============================================================================
