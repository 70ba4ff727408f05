------------------------------- MODULE RoomBook -------------------------------
(* The owner's side of pairing desks (services/room_sync.py RoomBook): three     *)
(* state files that every handler reads, changes in memory and writes whole.     *)
(* The requests of other desks run one after another on the event loop; those of *)
(* the owner's browser run in a pool of threads at the same time.                *)
EXTENDS Integers, FiniteSets

CONSTANTS Guest, Room,
          Pool,          \* threads that serve the browser
          MaxInvites,    \* bound on invitations; codes are numbered
          MaxPairs,      \* bound on pairing requests; tokens are numbered
          MaxVisits      \* bound on the browser's other requests

VARIABLES members,       \* rooms.json: room |-> guest |-> role
          invites,       \* invites.json
          peers,         \* peers.json: the tokens the owner accepts
          accepting,     \* the pairing request on the event loop
          browsing,      \* pool thread |-> the browser's request in it
          joined,        \* guest |-> room |-> the token it was answered, or 0
          granted,       \* guest |-> room |-> roles of invitations it redeemed
          latest,        \* guest |-> room |-> token of its last redemption
          roomCount      \* the bounds used up
roomVars == <<members, invites, peers, accepting, browsing, joined, granted, latest, roomCount>>

Role == {"member", "read_only"}
Resting == [step |-> "none"]
NobodyIn == [g \in Guest |-> "none"]

-----------------------------------------------------------------------------
(* The browser's requests: a file is read, and written back later *)

\* invite reads the room and the invitations; the room's older code is dropped.
ReadForInvite(t, r, role) ==
    /\ browsing[t] = Resting /\ roomCount.codes < MaxInvites
    /\ roomCount' = [roomCount EXCEPT !.codes = @ + 1]
    /\ browsing' = [browsing EXCEPT ![t] =
          [step |-> "invites", file |-> {i \in invites : i.room # r} \cup
               {[code |-> roomCount.codes + 1, room |-> r, role |-> role]}]]
    /\ UNCHANGED <<members, invites, peers, accepting, joined, granted, latest>>

\* _mark after a synchronization, select_room and create_room rewrite the rooms.
\* _mark computes a digest of all shared entries between reading and writing.
ReadForMark(t) ==
    /\ browsing[t] = Resting /\ roomCount.visits < MaxVisits
    /\ roomCount' = [roomCount EXCEPT !.visits = @ + 1]
    /\ browsing' = [browsing EXCEPT ![t] = [step |-> "rooms", file |-> members]]
    /\ UNCHANGED <<members, invites, peers, accepting, joined, granted, latest>>

WriteBackFile(t) ==
    /\ \/ browsing[t].step = "invites" /\ invites' = browsing[t].file /\ UNCHANGED members
       \/ browsing[t].step = "rooms" /\ members' = browsing[t].file /\ UNCHANGED invites
    /\ browsing' = [browsing EXCEPT ![t] = Resting]
    /\ UNCHANGED <<peers, accepting, joined, granted, latest, roomCount>>

-----------------------------------------------------------------------------
(* accept: a guest redeems a code *)

\* The code is looked up once; nothing happens without it.
FindInvite(g, i) ==
    /\ accepting = Resting /\ roomCount.pairs < MaxPairs /\ i \in invites
    /\ roomCount' = [roomCount EXCEPT !.pairs = @ + 1]
    /\ accepting' = [step |-> "found", guest |-> g, invite |-> i, kept |-> invites \ {i},
                     file |-> members, token |-> roomCount.pairs + 1]
    /\ UNCHANGED <<members, invites, peers, browsing, joined, granted, latest>>

\* Faulty variant: whoever redeems a code becomes a member.
AddAsMember(file, a) == [file EXCEPT ![a.invite.room][a.guest] = "member"]
\* _add_member: a new member, or a new role of one.
AddMember(file, a) == [file EXCEPT ![a.invite.room][a.guest] = a.invite.role]

ReadRooms ==
    /\ accepting.step = "found"
    /\ accepting' = [accepting EXCEPT !.step = "read", !.file = AddMember(members, accepting)]
    /\ UNCHANGED <<members, invites, peers, browsing, joined, granted, latest, roomCount>>

SaveRooms ==
    /\ accepting.step = "read"
    /\ members' = accepting.file
    /\ granted' = [granted EXCEPT ![accepting.guest][accepting.invite.room] = @ \cup {accepting.invite.role}]
    /\ accepting' = [accepting EXCEPT !.step = "member"]
    /\ UNCHANGED <<invites, peers, browsing, joined, latest, roomCount>>

SaveInvites ==
    /\ accepting.step = "member"
    /\ invites' = accepting.kept
    /\ accepting' = [accepting EXCEPT !.step = "spent"]
    /\ UNCHANGED <<members, peers, browsing, joined, granted, latest, roomCount>>

\* _remember_peer: the guest's token for this room, in place of an older one.
RememberPeer(a) ==
    {p \in peers : ~(p.guest = a.guest /\ p.room = a.invite.room)} \cup
        {[guest |-> a.guest, room |-> a.invite.room, token |-> a.token]}

\* The answer carries the token; the guest's join remembers it, if it arrives
\* within two seconds.
AnswerGuest ==
    /\ accepting.step = "spent"
    /\ peers' = RememberPeer(accepting)
    /\ latest' = [latest EXCEPT ![accepting.guest][accepting.invite.room] = accepting.token]
    /\ \E arrives \in BOOLEAN :
          joined' = IF arrives
                    THEN [joined EXCEPT ![accepting.guest][accepting.invite.room] = accepting.token]
                    ELSE joined
    /\ accepting' = Resting
    /\ UNCHANGED <<members, invites, browsing, granted, roomCount>>

\* The process dies: what was saved stays, handlers are gone.
DeskDies ==
    /\ roomCount.deaths = 0 /\ roomCount' = [roomCount EXCEPT !.deaths = 1]
    /\ accepting' = Resting
    /\ browsing' = [t \in Pool |-> Resting]
    /\ UNCHANGED <<members, invites, peers, joined, granted, latest>>

\* _trusted and serve_push: who may pull, and who may publish, in a room.
Trusted(g, r) ==
    /\ members[r][g] \in Role
    /\ [guest |-> g, room |-> r, token |-> joined[g][r]] \in peers
MayPublish(g, r) == Trusted(g, r) /\ members[r][g] = "member"

-----------------------------------------------------------------------------
RoomInit ==
    /\ members = [r \in Room |-> NobodyIn]
    /\ invites = {} /\ peers = {}
    /\ accepting = Resting
    /\ browsing = [t \in Pool |-> Resting]
    /\ joined = [g \in Guest |-> [r \in Room |-> 0]]
    /\ granted = [g \in Guest |-> [r \in Room |-> {}]]
    /\ latest = [g \in Guest |-> [r \in Room |-> 0]]
    /\ roomCount = [codes |-> 0, pairs |-> 0, visits |-> 0, deaths |-> 0]

Accept ==
    \/ \E g \in Guest, i \in invites : FindInvite(g, i)
    \/ ReadRooms \/ SaveRooms \/ SaveInvites \/ AnswerGuest

RoomNext ==
    \/ \E t \in Pool :
          \/ \E r \in Room, role \in Role : ReadForInvite(t, r, role)
          \/ ReadForMark(t) \/ WriteBackFile(t)
    \/ Accept
    \/ DeskDies

RoomSpec == RoomInit /\ [][RoomNext]_roomVars

-----------------------------------------------------------------------------
(* Properties *)

RoomTypeOK ==
    /\ \A r \in Room, g \in Guest : members[r][g] \in Role \cup {"none"}
    /\ \A i \in invites : i.room \in Room /\ i.role \in Role /\ i.code \in 1 .. roomCount.codes
    /\ \A p, q \in peers : p.guest = q.guest /\ p.room = q.room => p = q

\* Whatever handlers overwrite, a guest publishes in a room only with a member's
\* invitation it redeemed for that room itself (accept, _trusted, serve_push).
PublishersWereInvited ==
    \A g \in Guest, r \in Room : MayPublish(g, r) => "member" \in granted[g][r]

\* Only the token of the last redemption opens a room: with every new pairing the
\* older token of the guest is void, even if the answer was lost (_remember_peer).
OldTokensAreVoid ==
    \A p \in peers : p.token = latest[p.guest][p.room]

\* However invitations are made, redeemed and withdrawn while files are rewritten: who
\* publishes was invited, and with the last token only (accept, exchange).
RoomInv ==
    /\ RoomTypeOK
    /\ PublishersWereInvited
    /\ OldTokensAreVoid
===============================================================================
