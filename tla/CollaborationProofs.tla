-------------------------- MODULE CollaborationProofs --------------------------
(***************************************************************************)
(* Theorems about the components that exchange entries, results, files and   *)
(* whole workspaces with other people and programs: RoomBook, GraphViews,    *)
(* Handoffs, Migration, Backups and RoomBoards, for any number of rooms,     *)
(* desks, handlers, tabs, returns, pages, exporters, edits and failures.     *)
(***************************************************************************)
EXTENDS RoomBook, GraphViews, Handoffs, Migration, Backups, RoomBoards,
        SequenceTheorems, TLAPS

(***************************************************************************)
(* RoomBook: the inductive invariant                                        *)
(***************************************************************************)

RoomFile == [Room -> [Guest -> Role \cup {"none"}]]
Invite == [code : Nat, room : Room, role : Role]
Peer == [guest : Guest, room : Room, token : Nat]
Redemption ==
    [step : {"found", "read", "member", "spent"}, guest : Guest, invite : Invite,
     kept : SUBSET Invite, file : RoomFile, token : Nat]

RoomShapes ==
    /\ members \in RoomFile /\ invites \subseteq Invite /\ peers \subseteq Peer
    /\ accepting \in {Resting} \cup Redemption
    /\ browsing \in [Pool -> {Resting} \cup [step : {"invites"}, file : SUBSET Invite]
                             \cup [step : {"rooms"}, file : RoomFile]]
    /\ joined \in [Guest -> [Room -> Nat]] /\ latest \in [Guest -> [Room -> Nat]]
    /\ granted \in [Guest -> [Room -> SUBSET Role]]
    /\ roomCount \in [codes : Nat, pairs : Nat, visits : Nat, deaths : Nat]

\* A list of invitations holds issued codes only.
Issued(list) == \A i \in list : i.code \in 1 .. roomCount.codes

\* A list of members names as members only guests that redeemed such an invitation.
Earned(file) == \A r \in Room, g \in Guest : file[r][g] = "member" => "member" \in granted[g][r]

\* Lists that a handler has in hand are as true as those in the files; the one of
\* a redemption waits for its own grant.
HandsTrue ==
    /\ \A t \in Pool : /\ browsing[t].step = "invites" => Issued(browsing[t].file)
                       /\ browsing[t].step = "rooms" => Earned(browsing[t].file)
    /\ accepting # Resting => Issued(accepting.kept) /\ accepting.invite.code \in 1 .. roomCount.codes
    /\ accepting.step = "read" =>
          \A r \in Room, g \in Guest : accepting.file[r][g] = "member" =>
              \/ "member" \in granted[g][r]
              \/ g = accepting.guest /\ r = accepting.invite.room /\ accepting.invite.role = "member"

OnePeerEach == \A p, q \in peers : p.guest = q.guest /\ p.room = q.room => p = q

RoomIInv ==
    /\ RoomShapes /\ Issued(invites) /\ Earned(members) /\ HandsTrue /\ OnePeerEach /\ OldTokensAreVoid

(***************************************************************************)
(* RoomBook: proofs                                                         *)
(***************************************************************************)

LEMMA RoomStarts == RoomInit => RoomIInv
BY DEF RoomInit, RoomIInv, RoomShapes, RoomFile, Issued, Earned, HandsTrue, OnePeerEach, OldTokensAreVoid,
       NobodyIn, Resting, Role

LEMMA RoomSteps ==
    ASSUME RoomIInv, [RoomNext]_roomVars
    PROVE  RoomIInv'
<1> USE DEF RoomIInv
<1>1. CASE UNCHANGED roomVars
  BY <1>1 DEF roomVars, RoomShapes, Issued, Earned, HandsTrue, OnePeerEach, OldTokensAreVoid
<1>2. ASSUME NEW t \in Pool, NEW r \in Room, NEW role \in Role, ReadForInvite(t, r, role)
      PROVE  RoomIInv'
  <2> DEFINE list == {i \in invites : i.room # r} \cup {[code |-> roomCount.codes + 1, room |-> r, role |-> role]}
             new == [step |-> "invites", file |-> list]
  <2>1. /\ browsing' = [browsing EXCEPT ![t] = new]
        /\ roomCount' = [roomCount EXCEPT !.codes = @ + 1]
        /\ UNCHANGED <<members, invites, peers, accepting, joined, granted, latest>>
    BY <1>2 DEF ReadForInvite
  <2>2. roomCount' \in [codes : Nat, pairs : Nat, visits : Nat, deaths : Nat] /\ roomCount'.codes = roomCount.codes + 1
    BY <2>1 DEF RoomShapes
  <2>3. /\ list \subseteq Invite
        /\ \A i \in list : i.code \in 1 .. roomCount'.codes
    BY <2>2 DEF RoomShapes, Invite, Issued
  <2>4. new \in [step : {"invites"}, file : SUBSET Invite] /\ new.step = "invites" /\ new.file = list
    BY <2>3
  <2> HIDE DEF list, new
  <2>5. RoomShapes'
    BY <2>1, <2>2, <2>4 DEF RoomShapes
  <2>6. \A x : Issued(x) => Issued(x)'
    BY <2>1, <2>2 DEF Issued, RoomShapes
  <2>7. HandsTrue'
    <3>1. \A u \in Pool : browsing'[u] = IF u = t THEN new ELSE browsing[u]
      BY <2>1 DEF RoomShapes
    <3>2. \A i \in browsing'[t].file : i.code \in 1 .. roomCount'.codes
      BY <2>3, <2>4, <3>1
    <3>3. accepting # Resting => accepting.invite.code \in 1 .. roomCount'.codes
      BY <2>2 DEF HandsTrue, RoomShapes
    <3> QED
      BY <2>1, <2>4, <2>6, <3>1, <3>2, <3>3 DEF HandsTrue, Earned, Issued
  <2> QED
    BY <2>1, <2>5, <2>6, <2>7 DEF Earned, OnePeerEach, OldTokensAreVoid, Issued
<1>3. ASSUME NEW t \in Pool, ReadForMark(t) PROVE RoomIInv'
  <2> DEFINE new == [step |-> "rooms", file |-> members]
  <2>1. /\ browsing' = [browsing EXCEPT ![t] = new]
        /\ roomCount' = [roomCount EXCEPT !.visits = @ + 1]
        /\ UNCHANGED <<members, invites, peers, accepting, joined, granted, latest>>
    BY <1>3 DEF ReadForMark
  <2>2. roomCount' \in [codes : Nat, pairs : Nat, visits : Nat, deaths : Nat] /\ roomCount'.codes = roomCount.codes
    BY <2>1 DEF RoomShapes
  <2>3. new \in [step : {"rooms"}, file : RoomFile] /\ new.step = "rooms" /\ new.file = members
    BY DEF RoomShapes
  <2> HIDE DEF new
  <2>4. RoomShapes'
    BY <2>1, <2>2, <2>3 DEF RoomShapes
  <2>5. HandsTrue'
    <3>1. \A u \in Pool : browsing'[u] = IF u = t THEN new ELSE browsing[u]
      BY <2>1 DEF RoomShapes
    <3> QED
      BY <2>1, <2>2, <2>3, <3>1 DEF HandsTrue, Earned, Issued
  <2> QED
    BY <2>1, <2>2, <2>4, <2>5 DEF Earned, OnePeerEach, OldTokensAreVoid, Issued
<1>4. ASSUME NEW t \in Pool, WriteBackFile(t) PROVE RoomIInv'
  <2>1. /\ browsing' = [browsing EXCEPT ![t] = Resting]
        /\ UNCHANGED <<peers, accepting, joined, granted, latest, roomCount>>
        /\ \/ browsing[t].step = "invites" /\ invites' = browsing[t].file /\ UNCHANGED members
           \/ browsing[t].step = "rooms" /\ members' = browsing[t].file /\ UNCHANGED invites
    BY <1>4 DEF WriteBackFile
  <2>2. invites' \subseteq Invite /\ members' \in RoomFile /\ Issued(invites)' /\ Earned(members)'
    BY <2>1 DEF RoomShapes, HandsTrue, Resting, Issued, Earned
  <2>3. RoomShapes'
    BY <2>1, <2>2 DEF RoomShapes
  <2>4. HandsTrue'
    <3>1. \A u \in Pool : browsing'[u] = IF u = t THEN Resting ELSE browsing[u]
      BY <2>1 DEF RoomShapes
    <3> QED
      BY <2>1, <3>1 DEF HandsTrue, Earned, Issued, Resting
  <2> QED
    BY <2>1, <2>2, <2>3, <2>4 DEF OnePeerEach, OldTokensAreVoid
<1>5. ASSUME NEW g \in Guest, NEW i \in invites, FindInvite(g, i) PROVE RoomIInv'
  <2> DEFINE new == [step |-> "found", guest |-> g, invite |-> i, kept |-> invites \ {i},
                     file |-> members, token |-> roomCount.pairs + 1]
  <2>1. /\ accepting' = new /\ roomCount' = [roomCount EXCEPT !.pairs = @ + 1]
        /\ UNCHANGED <<members, invites, peers, browsing, joined, granted, latest>>
    BY <1>5 DEF FindInvite
  <2>2. roomCount' \in [codes : Nat, pairs : Nat, visits : Nat, deaths : Nat] /\ roomCount'.codes = roomCount.codes
    BY <2>1 DEF RoomShapes
  <2>3. /\ new \in Redemption /\ new.step = "found" /\ new.invite = i /\ new.kept = invites \ {i}
    BY DEF RoomShapes, Redemption
  <2> HIDE DEF new
  <2>4. RoomShapes'
    BY <2>1, <2>2, <2>3 DEF RoomShapes
  <2>5. HandsTrue'
    BY <2>1, <2>2, <2>3 DEF HandsTrue, Earned, Issued
  <2> QED
    BY <2>1, <2>2, <2>4, <2>5 DEF Earned, OnePeerEach, OldTokensAreVoid, Issued
<1>6. CASE ReadRooms
  <2> DEFINE r0 == accepting.invite.room  g0 == accepting.guest  file == AddMember(members, accepting)
             new == [accepting EXCEPT !.step = "read", !.file = file]
  <2>1. /\ accepting.step = "found" /\ accepting' = new
        /\ UNCHANGED <<members, invites, peers, browsing, joined, granted, latest, roomCount>>
    BY <1>6 DEF ReadRooms
  <2>2. accepting \in Redemption /\ r0 \in Room /\ g0 \in Guest /\ accepting.invite.role \in Role
    BY <2>1 DEF RoomShapes, Resting, Redemption, Invite
  <2>3. /\ file \in RoomFile
        /\ \A r \in Room, g \in Guest :
              file[r][g] = IF r = r0 /\ g = g0 THEN accepting.invite.role ELSE members[r][g]
    BY <2>2 DEF RoomShapes, RoomFile, AddMember
  <2> HIDE DEF file
  <2>4. /\ new \in Redemption /\ new.step = "read" /\ new.invite = accepting.invite /\ new.guest = accepting.guest
        /\ new.kept = accepting.kept /\ new.file = file
    BY <2>2, <2>3 DEF Redemption
  <2> HIDE DEF new
  <2>5. RoomShapes'
    BY <2>1, <2>4 DEF RoomShapes
  <2>6. accepting # Resting
    BY <2>1 DEF Resting
  <2>7. HandsTrue'
    BY <2>1, <2>3, <2>4, <2>6 DEF HandsTrue, Earned, Issued
  <2> QED
    BY <2>1, <2>5, <2>7 DEF Earned, OnePeerEach, OldTokensAreVoid, Issued
<1>7. CASE SaveRooms
  <2> DEFINE r0 == accepting.invite.room  g0 == accepting.guest
             new == [accepting EXCEPT !.step = "member"]
  <2>1. /\ accepting.step = "read" /\ accepting' = new /\ members' = accepting.file
        /\ granted' = [granted EXCEPT ![g0][r0] = @ \cup {accepting.invite.role}]
        /\ UNCHANGED <<invites, peers, browsing, joined, latest, roomCount>>
    BY <1>7 DEF SaveRooms
  <2>2. accepting \in Redemption /\ r0 \in Room /\ g0 \in Guest /\ accepting.invite.role \in Role
    BY <2>1 DEF RoomShapes, Resting, Redemption, Invite
  <2>3. /\ new \in Redemption /\ new.step = "member" /\ new.invite = accepting.invite /\ new.kept = accepting.kept
    BY <2>2 DEF Redemption
  <2>4. /\ granted' \in [Guest -> [Room -> SUBSET Role]]
        /\ \A g \in Guest, r \in Room :
              granted'[g][r] = IF g = g0 /\ r = r0 THEN granted[g][r] \cup {accepting.invite.role} ELSE granted[g][r]
    BY <2>1, <2>2 DEF RoomShapes
  <2> HIDE DEF new
  <2>5. RoomShapes'
    BY <2>1, <2>2, <2>3, <2>4 DEF RoomShapes, Redemption
  <2>6. \A file : Earned(file) => Earned(file)'
    BY <2>4 DEF Earned
  <2>7. Earned(members)'
    BY <2>1, <2>4 DEF Earned, HandsTrue
  <2>8. accepting # Resting
    BY <2>1 DEF Resting
  <2>9. HandsTrue'
    BY <2>1, <2>3, <2>6, <2>8 DEF HandsTrue, Issued
  <2> QED
    BY <2>1, <2>5, <2>7, <2>9 DEF OnePeerEach, OldTokensAreVoid, Issued
<1>8. CASE SaveInvites
  <2> DEFINE new == [accepting EXCEPT !.step = "spent"]
  <2>1. /\ accepting.step = "member" /\ accepting' = new /\ invites' = accepting.kept
        /\ UNCHANGED <<members, peers, browsing, joined, granted, latest, roomCount>>
    BY <1>8 DEF SaveInvites
  <2>2. accepting \in Redemption /\ accepting # Resting
    BY <2>1 DEF RoomShapes, Resting
  <2>3. /\ new \in Redemption /\ new.step = "spent" /\ new.invite = accepting.invite /\ new.kept = accepting.kept
    BY <2>2 DEF Redemption
  <2> HIDE DEF new
  <2>4. RoomShapes'
    BY <2>1, <2>2, <2>3 DEF RoomShapes, Redemption
  <2>5. HandsTrue' /\ Issued(invites)'
    BY <2>1, <2>2, <2>3 DEF HandsTrue, Issued, Earned
  <2> QED
    BY <2>1, <2>4, <2>5 DEF Earned, OnePeerEach, OldTokensAreVoid
<1>9. CASE AnswerGuest
  <2> DEFINE r0 == accepting.invite.room  g0 == accepting.guest
             row == [guest |-> g0, room |-> r0, token |-> accepting.token]
  <2>1. /\ accepting.step = "spent" /\ accepting' = Resting
        /\ peers' = {p \in peers : ~(p.guest = g0 /\ p.room = r0)} \cup {row}
        /\ latest' = [latest EXCEPT ![g0][r0] = accepting.token]
        /\ \/ joined' = [joined EXCEPT ![g0][r0] = accepting.token]
           \/ joined' = joined
        /\ UNCHANGED <<members, invites, browsing, granted, roomCount>>
    BY <1>9 DEF AnswerGuest, RememberPeer
  <2>2. accepting \in Redemption /\ r0 \in Room /\ g0 \in Guest /\ accepting.token \in Nat
    BY <2>1 DEF RoomShapes, Resting, Redemption, Invite
  <2>3. row \in Peer /\ row.guest = g0 /\ row.room = r0 /\ row.token = accepting.token
    BY <2>2 DEF Peer
  <2>4. /\ latest' \in [Guest -> [Room -> Nat]] /\ joined' \in [Guest -> [Room -> Nat]]
        /\ \A g \in Guest, r \in Room :
              latest'[g][r] = IF g = g0 /\ r = r0 THEN accepting.token ELSE latest[g][r]
    <3> DEFINE token == accepting.token
    <3>1. r0 \in Room /\ g0 \in Guest /\ token \in Nat
      BY <2>2
    <3>2. latest' = [latest EXCEPT ![g0][r0] = token] /\ (joined' = [joined EXCEPT ![g0][r0] = token] \/ joined' = joined)
      BY <2>1
    <3> HIDE DEF token, r0, g0
    <3>3. /\ latest' \in [Guest -> [Room -> Nat]]
          /\ \A g \in Guest, r \in Room : latest'[g][r] = IF g = g0 /\ r = r0 THEN token ELSE latest[g][r]
      BY <3>1, <3>2 DEF RoomShapes
    <3>4. joined' \in [Guest -> [Room -> Nat]]
      <4>1. joined \in [Guest -> [Room -> Nat]]
        BY DEF RoomShapes
      <4>2. CASE joined' = [joined EXCEPT ![g0][r0] = token]
        BY <3>1, <4>1, <4>2
      <4> QED
        BY <3>2, <4>1, <4>2
    <3> QED
      BY <3>3, <3>4 DEF token
  <2> HIDE DEF row
  <2>5. RoomShapes'
    BY <2>1, <2>3, <2>4 DEF RoomShapes
  <2>6. HandsTrue'
    BY <2>1 DEF HandsTrue, Resting, Earned, Issued
  <2>7. OnePeerEach'
    BY <2>1, <2>3 DEF OnePeerEach
  <2>8. OldTokensAreVoid'
    <3> SUFFICES ASSUME NEW p \in peers' PROVE p.token = latest'[p.guest][p.room]
      BY DEF OldTokensAreVoid
    <3>1. CASE p = row
      BY <2>2, <2>3, <2>4, <3>1
    <3>2. CASE p \in peers /\ ~(p.guest = g0 /\ p.room = r0)
      <4>1. p.guest \in Guest /\ p.room \in Room
        BY <3>2 DEF RoomShapes, Peer
      <4> QED
        BY <2>4, <3>2, <4>1 DEF OldTokensAreVoid
    <3> QED
      BY <2>1, <3>1, <3>2
  <2> QED
    BY <2>1, <2>5, <2>6, <2>7, <2>8 DEF Earned, Issued
<1>10. CASE DeskDies
  <2>1. /\ roomCount' = [roomCount EXCEPT !.deaths = 1] /\ accepting' = Resting
        /\ browsing' = [t \in Pool |-> Resting]
        /\ UNCHANGED <<members, invites, peers, joined, granted, latest>>
    BY <1>10 DEF DeskDies
  <2>2. roomCount' \in [codes : Nat, pairs : Nat, visits : Nat, deaths : Nat] /\ roomCount'.codes = roomCount.codes
    BY <2>1 DEF RoomShapes
  <2>3. RoomShapes'
    BY <2>1, <2>2 DEF RoomShapes
  <2>4. HandsTrue'
    BY <2>1 DEF HandsTrue, Resting
  <2> QED
    BY <2>1, <2>2, <2>3, <2>4 DEF Earned, OnePeerEach, OldTokensAreVoid, Issued
<1> QED
  BY <1>1, <1>2, <1>3, <1>4, <1>5, <1>6, <1>7, <1>8, <1>9, <1>10 DEF RoomNext, Accept

LEMMA RoomHolds == RoomSpec => []RoomIInv
BY RoomStarts, RoomSteps, PTL DEF RoomSpec

\* Whatever handlers overwrite and whoever redeems: who publishes in a room was invited
\* to it as a member, and comes with the token of its last redemption (accept, _trusted).
THEOREM PublishersAreInvited == RoomSpec => []RoomInv
<1>1. RoomIInv => RoomInv
  BY DEF RoomIInv, RoomInv, RoomTypeOK, RoomShapes, RoomFile, Invite, Issued, OnePeerEach,
         PublishersWereInvited, MayPublish, Trusted, Earned
<1> QED
  BY <1>1, RoomHolds, PTL

(***************************************************************************)
(* GraphViews: the inductive invariant                                      *)
(***************************************************************************)

Observation == [status : {"applied", "failed"}, seen : ViewState \cup {NoView}]
Answer == [status : {"none", "cancelled", "applied", "failed"}, seen : ViewState \cup {NoView}]
Showing == [client : Nat, run : Nat]
SomeSeen == UNION {[S -> Observation] : S \in SUBSET Nat}
Intent ==
    [revision : Nat, state : ViewState, run : Nat, client : Nat, answer : Answer, old : BOOLEAN,
     shown : Seq(Showing)]
TabState ==
    [client : Nat, run : Nat, step : {"idle", "claim", "show", "look", "confirm"}, intent : Nat,
     seen : SomeSeen]

GraphShapes ==
    /\ view \in [revision : Nat, state : ViewState \cup {NoView}] /\ view.revision = viewCount.views
    /\ viewCount \in [views : 0 .. MaxViews, intents : Nat, clients : 0 .. MaxClients, losses : Nat, runs : Nat]
    /\ intents \in Seq(Intent) /\ clients \subseteq 1 .. viewCount.clients
    /\ tab \in [Tab -> TabState] /\ camera \in [Tab -> ViewState \cup {NoView}]

\* No two tabs are the same client.
OwnClients == \A t, u \in Tab : tab[t].client = tab[u].client /\ tab[t].client # NoClient => t = u

\* An intent is of a revision the view had, waits only while its run lasts, is shown by
\* its client only, once, and was applied only when it was shown.
IntentFits(r) ==
    /\ r.client <= viewCount.clients /\ r.revision <= view.revision
    /\ r.revision = view.revision => r.state = view.state
    /\ r.answer = NoAnswer => r.run = viewCount.runs
    /\ Len(r.shown) <= 1
    /\ Len(r.shown) = 1 => r.client # NoClient /\ r.shown[1] = [client |-> r.client, run |-> r.run]
    /\ r.answer.status = "applied" => r.answer.seen = r.state /\ Len(r.shown) = 1

\* What a client has shown is answered, too old, or still to be confirmed by its tab.
Remembered(s, i) ==
    \/ intents[i].answer # NoAnswer \/ intents[i].old
    \/ i \in DOMAIN s.seen
    \/ s.step = "look" /\ s.intent = i

\* What a tab is at is still possible; a tab that claims or shows an intent has not
\* shown it, one that looks or has observed "applied" has.
TabFits(s) ==
    /\ s.client <= viewCount.clients
    /\ s.client = NoClient => s.step = "idle" /\ DOMAIN s.seen = {}
    /\ s.client \in clients => s.run = viewCount.runs
    /\ s.step # "idle" => s.intent \in DOMAIN intents
    /\ s.step \in {"claim", "show"} => intents[s.intent].run = s.run
    /\ s.step = "claim" /\ intents[s.intent].client = s.client => Len(intents[s.intent].shown) = 0
    /\ s.step = "show" => intents[s.intent].client = s.client /\ Len(intents[s.intent].shown) = 0
    /\ s.step = "look" => intents[s.intent].client = s.client /\ Len(intents[s.intent].shown) = 1
    /\ s.step = "confirm" => s.intent \in DOMAIN s.seen
    /\ \A i \in DOMAIN s.seen :
          /\ i \in DOMAIN intents /\ intents[i].client = s.client
          /\ s.seen[i].status = "applied" => Len(intents[i].shown) = 1
    /\ \A i \in DOMAIN intents :
          intents[i].client = s.client /\ Len(intents[i].shown) = 1 => Remembered(s, i)

GraphIInv ==
    /\ GraphShapes /\ OwnClients
    /\ \A i \in DOMAIN intents : IntentFits(intents[i])
    /\ \A t \in Tab : TabFits(tab[t])

Counts == [views : 0 .. MaxViews, intents : Nat, clients : 0 .. MaxClients, losses : Nat, runs : Nat]

LEMMA SpendIs ==
    ASSUME GraphShapes
    PROVE  /\ Spend("views", MaxViews) => viewCount' \in Counts /\ viewCount' = [viewCount EXCEPT !.views = @ + 1]
           /\ Spend("intents", MaxIntents) => viewCount' \in Counts /\ viewCount' = [viewCount EXCEPT !.intents = @ + 1]
           /\ Spend("losses", MaxLosses) => viewCount' \in Counts /\ viewCount' = [viewCount EXCEPT !.losses = @ + 1]
           /\ Spend("clients", MaxClients) => viewCount' \in Counts /\ viewCount' = [viewCount EXCEPT !.clients = @ + 1]
<1>1. viewCount \in Counts
  BY DEF GraphShapes, Counts
<1>2. ASSUME Spend("views", MaxViews)
      PROVE  viewCount' \in Counts /\ viewCount' = [viewCount EXCEPT !.views = @ + 1]
  <2>1. viewCount' = [viewCount EXCEPT !.views = @ + 1] /\ viewCount.views < MaxViews
    BY <1>2 DEF Spend
  <2> QED
    BY <1>1, <2>1, GraphAssumption DEF Counts
<1>3. ASSUME Spend("intents", MaxIntents)
      PROVE  viewCount' \in Counts /\ viewCount' = [viewCount EXCEPT !.intents = @ + 1]
  <2>1. viewCount' = [viewCount EXCEPT !.intents = @ + 1]
    BY <1>3 DEF Spend
  <2> QED
    BY <1>1, <2>1 DEF Counts
<1>4. ASSUME Spend("losses", MaxLosses)
      PROVE  viewCount' \in Counts /\ viewCount' = [viewCount EXCEPT !.losses = @ + 1]
  <2>1. viewCount' = [viewCount EXCEPT !.losses = @ + 1]
    BY <1>4 DEF Spend
  <2> QED
    BY <1>1, <2>1 DEF Counts
<1>5. ASSUME Spend("clients", MaxClients)
      PROVE  viewCount' \in Counts /\ viewCount' = [viewCount EXCEPT !.clients = @ + 1]
  <2>1. viewCount' = [viewCount EXCEPT !.clients = @ + 1] /\ viewCount.clients < MaxClients
    BY <1>5 DEF Spend
  <2> QED
    BY <1>1, <2>1, GraphAssumption DEF Counts
<1> QED
  BY <1>2, <1>3, <1>4, <1>5

LEMMA NothingSeen == <<>> \in SomeSeen /\ DOMAIN <<>> = {}
<1>1. <<>> \in [{} -> Observation]
  OBVIOUS
<1> QED
  BY <1>1 DEF SomeSeen

LEMMA NotedIs ==
    ASSUME NEW f \in SomeSeen, NEW i \in Nat, NEW v \in Observation
    PROVE  /\ Noted(f, i, v) \in SomeSeen /\ DOMAIN Noted(f, i, v) = DOMAIN f \cup {i}
           /\ Noted(f, i, v)[i] = v /\ \A j \in DOMAIN f : j # i => Noted(f, i, v)[j] = f[j]
<1>1. f \in [DOMAIN f -> Observation] /\ DOMAIN f \subseteq Nat
  BY DEF SomeSeen
<1>2. Noted(f, i, v) \in [DOMAIN f \cup {i} -> Observation] /\ DOMAIN f \cup {i} \in SUBSET Nat
  BY <1>1 DEF Noted
<1> QED
  BY <1>2 DEF Noted, SomeSeen

LEMMA DroppedIs ==
    ASSUME NEW f \in SomeSeen, NEW i \in Nat
    PROVE  /\ Dropped(f, i) \in SomeSeen /\ DOMAIN Dropped(f, i) = DOMAIN f \ {i}
           /\ \A j \in DOMAIN f \ {i} : Dropped(f, i)[j] = f[j]
<1>1. f \in [DOMAIN f -> Observation] /\ DOMAIN f \subseteq Nat
  BY DEF SomeSeen
<1>2. Dropped(f, i) \in [DOMAIN f \ {i} -> Observation] /\ DOMAIN f \ {i} \in SUBSET Nat
  BY <1>1 DEF Dropped
<1> QED
  BY <1>2 DEF Dropped, SomeSeen

\* For client c, the intents are what they were: its own are neither more nor fewer, show
\* what they showed, and what was answered or too old still is.
IntentsKeep(c) ==
    /\ \A i \in DOMAIN intents :
          /\ i \in DOMAIN intents' /\ intents'[i].run = intents[i].run
          /\ intents[i].answer # NoAnswer => intents'[i].answer # NoAnswer
          /\ intents[i].old => intents'[i].old
          /\ intents'[i].client = c <=> intents[i].client = c
          /\ intents[i].client = c => intents'[i].shown = intents[i].shown
    /\ \A i \in DOMAIN intents' \ DOMAIN intents : Len(intents'[i].shown) = 0

LEMMA TabStill ==
    ASSUME GraphShapes, GraphShapes', NEW s \in TabState, TabFits(s), NEW t \in Tab, tab'[t] = s,
           \A i \in DOMAIN intents' : IntentFits(intents[i])',
           viewCount.clients <= viewCount'.clients,
           s.client \in clients' => s.client \in clients /\ viewCount'.runs = viewCount.runs,
           s.client # NoClient => IntentsKeep(s.client)
    PROVE  TabFits(tab[t])'
<1>1. s.client <= viewCount'.clients
  BY DEF TabFits, GraphShapes, TabState
<1>2. s.client \in clients' => s.run = viewCount'.runs
  BY DEF TabFits
<1>3. CASE s.client = NoClient
  BY <1>1, <1>2, <1>3 DEF TabFits, IntentFits
<1>4. CASE s.client # NoClient
  <2>1. IntentsKeep(s.client)
    BY <1>4
  <2>2. /\ s.step # "idle" => s.intent \in DOMAIN intents'
        /\ s.step \in {"claim", "show"} => intents'[s.intent].run = s.run
        /\ s.step = "claim" /\ intents'[s.intent].client = s.client => Len(intents'[s.intent].shown) = 0
        /\ s.step = "show" => intents'[s.intent].client = s.client /\ Len(intents'[s.intent].shown) = 0
        /\ s.step = "look" => intents'[s.intent].client = s.client /\ Len(intents'[s.intent].shown) = 1
        /\ s.step = "confirm" => s.intent \in DOMAIN s.seen
    BY <1>4, <2>1 DEF TabFits, IntentsKeep
  <2>3. \A i \in DOMAIN s.seen :
          /\ i \in DOMAIN intents' /\ intents'[i].client = s.client
          /\ s.seen[i].status = "applied" => Len(intents'[i].shown) = 1
    BY <2>1 DEF TabFits, IntentsKeep
  <2>4. ASSUME NEW i \in DOMAIN intents', intents'[i].client = s.client, Len(intents'[i].shown) = 1
        PROVE  \/ intents'[i].answer # NoAnswer \/ intents'[i].old
               \/ i \in DOMAIN s.seen
               \/ s.step = "look" /\ s.intent = i
    BY <2>1, <2>4 DEF TabFits, IntentsKeep, Remembered
  <2> QED
    BY <1>1, <1>2, <1>4, <2>2, <2>3, <2>4 DEF TabFits, Remembered
<1> QED
  BY <1>3, <1>4

\* A tab that is as before, in surroundings that are as before for it.
LEMMA StillFits ==
    ASSUME NEW s, TabFits(s), NEW t, tab'[t] = s, intents' = intents,
           clients' = clients, viewCount'.clients = viewCount.clients, viewCount'.runs = viewCount.runs
    PROVE  TabFits(tab[t])'
BY DEF TabFits, Remembered

LEMMA SameIntents ==
    ASSUME GraphIInv, intents' = intents, view' = view,
           viewCount'.clients = viewCount.clients, viewCount'.runs = viewCount.runs
    PROVE  \A i \in DOMAIN intents' : IntentFits(intents[i])'
BY DEF GraphIInv, IntentFits

\* One tab moves; what it knows fits to intents and clients as they are.
LEMMA OneTab ==
    ASSUME GraphIInv, NEW t \in Tab, NEW new \in TabState, TabFits(new), tab' = [tab EXCEPT ![t] = new],
           UNCHANGED <<view, intents, clients, camera>>, viewCount' \in Counts,
           viewCount'.views = viewCount.views, viewCount'.clients = viewCount.clients,
           viewCount'.runs = viewCount.runs, new.client \in {NoClient, tab[t].client}
    PROVE  GraphIInv'
<1>1. GraphShapes /\ tab' \in [Tab -> TabState] /\ \A u \in Tab : tab'[u] = IF u = t THEN new ELSE tab[u]
  BY DEF GraphIInv, GraphShapes
<1>2. GraphShapes'
  BY <1>1 DEF GraphShapes, Counts
<1>3. OwnClients'
  BY <1>1 DEF GraphIInv, OwnClients
<1>4. \A i \in DOMAIN intents' : IntentFits(intents[i])'
  BY SameIntents
<1>5. ASSUME NEW u \in Tab PROVE TabFits(tab[u])'
  <2>1. PICK s : s = tab'[u] /\ TabFits(s)
    BY <1>1 DEF GraphIInv
  <2> QED
    BY <2>1, StillFits
<1> QED
  BY <1>2, <1>3, <1>4, <1>5 DEF GraphIInv

\* One tab moves, and the intents, the clients or the cameras with it.
LEMMA TabMoves ==
    ASSUME GraphIInv, GraphShapes', NEW t \in Tab, NEW new \in TabState, tab' = [tab EXCEPT ![t] = new],
           \A i \in DOMAIN intents' : IntentFits(intents[i])', TabFits(tab[t])',
           new.client \in {NoClient, tab[t].client} \/ new.client > viewCount.clients,
           viewCount.clients <= viewCount'.clients, viewCount'.runs = viewCount.runs,
           \A u \in Tab : u # t /\ tab[u].client \in clients' => tab[u].client \in clients,
           \A c \in Nat : c # NoClient /\ c # tab[t].client => IntentsKeep(c)
    PROVE  GraphIInv'
<1>1. GraphShapes /\ \A u \in Tab : tab'[u] = IF u = t THEN new ELSE tab[u]
  BY DEF GraphIInv, GraphShapes
<1>2. OwnClients'
  <2>1. \A u \in Tab : tab[u].client \in Nat /\ tab[u].client <= viewCount.clients
    BY <1>1 DEF GraphIInv, TabFits, GraphShapes, TabState
  <2>2. viewCount.clients \in Nat /\ new.client \in Nat
    BY <1>1 DEF GraphShapes, TabState
  <2> QED
    BY <1>1, <2>1, <2>2 DEF GraphIInv, OwnClients
<1>3. ASSUME NEW u \in Tab, u # t PROVE TabFits(tab[u])'
  <2>1. PICK s \in TabState : s = tab[u] /\ tab'[u] = s /\ TabFits(s)
    BY <1>1, <1>3 DEF GraphIInv, GraphShapes
  <2>2. s.client # NoClient => IntentsKeep(s.client)
    BY <1>1, <1>3, <2>1 DEF GraphIInv, OwnClients, TabState
  <2> QED
    BY <1>1, <1>3, <2>1, <2>2, TabStill
<1> QED
  BY <1>2, <1>3 DEF GraphIInv

\* The tabs rest.
LEMMA TabsRest ==
    ASSUME GraphIInv, GraphShapes', tab' = tab,
           \A i \in DOMAIN intents' : IntentFits(intents[i])',
           viewCount.clients <= viewCount'.clients,
           \A u \in Tab : tab[u].client \in clients' => tab[u].client \in clients /\ viewCount'.runs = viewCount.runs,
           \A c \in Nat : c # NoClient => IntentsKeep(c)
    PROVE  GraphIInv'
<1>1. GraphShapes
  BY DEF GraphIInv
<1>2. ASSUME NEW u \in Tab PROVE TabFits(tab[u])'
  <2>1. PICK s \in TabState : s = tab[u] /\ tab'[u] = s /\ TabFits(s)
    BY <1>1 DEF GraphIInv, GraphShapes
  <2>2. s.client # NoClient => IntentsKeep(s.client)
    BY DEF TabState
  <2> QED
    BY <1>1, <2>1, <2>2, TabStill
<1> QED
  BY <1>2 DEF GraphIInv, OwnClients

LEMMA KeptIntents == intents' = intents => \A c : IntentsKeep(c)
BY DEF IntentsKeep

\* A tab without a client knows nothing.
LEMMA NewTabIs ==
    ASSUME GraphIInv
    PROVE  NewTab(NoClient) \in TabState /\ NewTab(NoClient).client = NoClient /\ TabFits(NewTab(NoClient))
<1> DEFINE new == NewTab(NoClient)
<1>1. /\ new \in TabState /\ new.client = NoClient /\ new.step = "idle" /\ DOMAIN new.seen = {}
      /\ new.run = viewCount.runs
  BY NothingSeen DEF NewTab, TabState, NoClient, GraphIInv, GraphShapes
<1> HIDE DEF new
<1>2. \A i \in DOMAIN intents : ~(intents[i].client = NoClient /\ Len(intents[i].shown) = 1)
  BY DEF GraphIInv, IntentFits
<1>3. TabFits(new)
  BY <1>1, <1>2 DEF TabFits, GraphIInv, GraphShapes, NoClient
<1> QED
  BY <1>1, <1>3 DEF new

LEMMA IntentAt ==
    ASSUME GraphShapes, NEW i \in DOMAIN intents
    PROVE  intents[i] \in Intent
BY DEF GraphShapes

LEMMA LeaveStep ==
    ASSUME GraphIInv, NEW t \in Tab, Disconnect(t), UNCHANGED <<view, intents, clients, camera>>,
           viewCount' \in Counts, viewCount'.views = viewCount.views, viewCount'.clients = viewCount.clients,
           viewCount'.runs = viewCount.runs
    PROVE  GraphIInv'
BY NewTabIs, OneTab DEF Disconnect

\* A step back to rest, with the observations a tab has.
LEMMA IdleStep ==
    ASSUME GraphIInv, NEW t \in Tab, GoTo(t, "idle"), tab[t].step # "look",
           UNCHANGED <<view, intents, clients, camera>>,
           viewCount' \in Counts, viewCount'.views = viewCount.views, viewCount'.clients = viewCount.clients,
           viewCount'.runs = viewCount.runs
    PROVE  GraphIInv'
<1>0. PICK old \in TabState : old = tab[t] /\ TabFits(old)
  BY DEF GraphIInv, GraphShapes
<1> DEFINE new == [old EXCEPT !.step = "idle"]
<1>1. tab' = [tab EXCEPT ![t] = new]
  BY <1>0 DEF GoTo, GraphIInv, GraphShapes
<1>2. /\ new \in TabState /\ new.client = old.client /\ new.run = old.run /\ new.step = "idle"
      /\ new.intent = old.intent /\ new.seen = old.seen
  BY DEF TabState
<1> HIDE DEF new
<1>3. TabFits(new)
  BY <1>0, <1>2 DEF TabFits, Remembered
<1> QED
  BY <1>0, <1>1, <1>2, <1>3, OneTab

LEMMA OwnerSteps ==
    ASSUME GraphIInv,
           \/ \E s \in ViewState : SaveView(s)
           \/ DeleteView
           \/ \E c \in clients \cup {NoClient} : ApplyView(c)
    PROVE  GraphIInv'
<1>0. GraphShapes
  BY DEF GraphIInv
<1>1. ASSUME NEW s \in ViewState \cup {NoView}, view' = [revision |-> view.revision + 1, state |-> s],
             Spend("views", MaxViews), UNCHANGED <<intents, clients, tab, camera>>
      PROVE  GraphIInv'
  <2>1. /\ viewCount' \in Counts /\ viewCount'.views = viewCount.views + 1
        /\ viewCount'.clients = viewCount.clients /\ viewCount'.runs = viewCount.runs
    BY <1>0, <1>1, SpendIs DEF GraphShapes
  <2>2. GraphShapes'
    BY <1>0, <1>1, <2>1 DEF GraphShapes, Counts
  <2>3. \A i \in DOMAIN intents' : IntentFits(intents[i])'
    <3> SUFFICES ASSUME NEW i \in DOMAIN intents PROVE IntentFits(intents[i])'
      BY <1>1
    <3>1. IntentFits(intents[i]) /\ intents[i].revision \in Nat /\ view.revision \in Nat
      BY <1>0, IntentAt DEF GraphIInv, GraphShapes, Intent
    <3>2. view'.revision = view.revision + 1
      BY <1>1
    <3>3. intents[i].revision <= view'.revision /\ intents[i].revision # view'.revision
      BY <3>1, <3>2 DEF IntentFits
    <3> QED
      BY <1>1, <2>1, <3>1, <3>3 DEF IntentFits
  <2>4. \A c \in Nat : c # NoClient => IntentsKeep(c)
    BY <1>1, KeptIntents
  <2>5. viewCount.clients <= viewCount'.clients
    BY <1>0, <2>1 DEF GraphShapes
  <2> QED
    BY <1>1, <2>1, <2>2, <2>3, <2>4, <2>5, TabsRest
<1>2. ASSUME NEW c \in clients \cup {NoClient}, ApplyView(c)
      PROVE  GraphIInv'
  <2> DEFINE new == [revision |-> view.revision, state |-> view.state, run |-> viewCount.runs, client |-> c,
                     answer |-> NoAnswer, old |-> FALSE, shown |-> <<>>]
  <2>1. /\ view.state # NoView /\ intents' = Append(intents, new)
        /\ Spend("intents", MaxIntents) /\ UNCHANGED <<view, clients, tab, camera>>
    BY <1>2 DEF ApplyView
  <2>2. /\ viewCount' \in Counts /\ viewCount'.views = viewCount.views
        /\ viewCount'.clients = viewCount.clients /\ viewCount'.runs = viewCount.runs
    BY <1>0, <2>1, SpendIs DEF GraphShapes
  <2>3. c \in 0 .. viewCount.clients /\ viewCount.clients \in Nat /\ c \in Nat
    BY <1>0, <1>2 DEF GraphShapes, NoClient
  <2>4. NoAnswer \in Answer /\ NoAnswer.status = "none"
    BY DEF NoAnswer, Answer
  <2>5. /\ new \in Intent /\ Len(new.shown) = 0 /\ new.client = c /\ new.answer = NoAnswer
        /\ new.revision = view.revision /\ new.state = view.state /\ new.run = viewCount.runs
    BY <1>0, <2>1, <2>3, <2>4 DEF GraphShapes, Intent
  <2> HIDE DEF new
  <2>6. GraphShapes'
    BY <1>0, <2>1, <2>2, <2>5 DEF GraphShapes, Counts
  <2>7. /\ DOMAIN intents' = DOMAIN intents \cup {Len(intents) + 1} /\ Len(intents) + 1 \notin DOMAIN intents
        /\ intents'[Len(intents) + 1] = new /\ \A i \in DOMAIN intents : intents'[i] = intents[i]
    BY <1>0, <2>1, <2>5 DEF GraphShapes
  <2>8. \A i \in DOMAIN intents' : IntentFits(intents[i])'
    <3>1. ASSUME NEW i \in DOMAIN intents PROVE IntentFits(intents[i])'
      BY <2>1, <2>2, <2>7 DEF GraphIInv, IntentFits
    <3>2. ASSUME NEW i, i = Len(intents) + 1 PROVE IntentFits(intents[i])'
      <4>1. view.revision \in Nat
        BY <1>0 DEF GraphShapes
      <4> QED
        BY <2>1, <2>2, <2>3, <2>4, <2>5, <2>7, <3>2, <4>1 DEF IntentFits
    <3> QED
      BY <2>7, <3>1, <3>2
  <2>9. \A d \in Nat : IntentsKeep(d)
    BY <2>5, <2>7 DEF IntentsKeep
  <2> QED
    BY <2>1, <2>2, <2>3, <2>6, <2>8, <2>9, TabsRest
<1>3. view.revision \in Nat
  BY <1>0 DEF GraphShapes
<1> QED
  BY <1>1, <1>2 DEF SaveView, DeleteView

LEMMA ConnectStep ==
    ASSUME GraphIInv, NEW t \in Tab, NEW silent \in SUBSET clients, ConnectTab(t, silent)
    PROVE  GraphIInv'
<1>0. GraphShapes
  BY DEF GraphIInv
<1> DEFINE c == viewCount.clients + 1
           new == NewTab(c)
<1>1. /\ viewCount' \in Counts /\ viewCount' = [viewCount EXCEPT !.clients = @ + 1]
  BY <1>0, SpendIs DEF ConnectTab
<1>2. /\ viewCount'.views = viewCount.views /\ viewCount'.clients = c /\ viewCount'.runs = viewCount.runs
      /\ c \in Nat /\ c > 0 /\ viewCount.clients < c /\ viewCount.clients \in Nat
  BY <1>0, <1>1 DEF GraphShapes
<1>3. /\ clients' = (clients \ silent) \cup {c} /\ tab' = [tab EXCEPT ![t] = new]
      /\ tab[t].client = NoClient /\ UNCHANGED <<view, intents, camera>>
  BY <1>2 DEF ConnectTab
<1>4. new \in TabState /\ new.client = c /\ new.step = "idle" /\ DOMAIN new.seen = {} /\ new.run = viewCount.runs
  BY <1>0, <1>2, NothingSeen DEF NewTab, TabState, GraphShapes
<1> HIDE DEF new, c
<1>5. /\ tab' \in [Tab -> TabState] /\ tab'[t] = new
  BY <1>0, <1>3, <1>4 DEF GraphShapes
<1>6. clients' \subseteq 1 .. viewCount'.clients
  BY <1>0, <1>2, <1>3 DEF GraphShapes
<1>7. GraphShapes'
  BY <1>0, <1>1, <1>2, <1>3, <1>5, <1>6 DEF GraphShapes, Counts
<1>8. \A i \in DOMAIN intents : intents[i].client # c
  <2> SUFFICES ASSUME NEW i \in DOMAIN intents PROVE intents[i].client # c
    OBVIOUS
  <2>1. intents[i].client \in Nat /\ intents[i].client <= viewCount.clients
    BY <1>0, IntentAt DEF GraphIInv, IntentFits, Intent
  <2> QED
    BY <1>2, <2>1
<1>9. TabFits(tab[t])'
  BY <1>2, <1>3, <1>4, <1>5, <1>8 DEF TabFits, NoClient
<1>10. \A i \in DOMAIN intents' : IntentFits(intents[i])'
  <2> SUFFICES ASSUME NEW i \in DOMAIN intents PROVE IntentFits(intents[i])'
    BY <1>3
  <2>1. intents[i].client \in Nat /\ intents[i].client <= viewCount.clients
    BY <1>0, IntentAt DEF GraphIInv, IntentFits, Intent
  <2>2. intents[i].client <= viewCount'.clients
    BY <1>2, <2>1
  <2> QED
    BY <1>2, <1>3, <2>2 DEF GraphIInv, IntentFits
<1>11. \A u \in Tab : u # t /\ tab[u].client \in clients' => tab[u].client \in clients
  <2> SUFFICES ASSUME NEW u \in Tab PROVE tab[u].client # c
    BY <1>3
  <2>1. tab[u].client \in Nat /\ tab[u].client <= viewCount.clients
    BY <1>0 DEF GraphIInv, TabFits, GraphShapes, TabState
  <2> QED
    BY <1>2, <2>1
<1>12. \A d \in Nat : d # NoClient /\ d # tab[t].client => IntentsKeep(d)
  BY <1>3, KeptIntents
<1>13. new.client > viewCount.clients /\ viewCount.clients <= viewCount'.clients
  BY <1>2, <1>4
<1> QED
  BY <1>2, <1>3, <1>4, <1>7, <1>9, <1>10, <1>11, <1>12, <1>13, TabMoves

LEMMA PollStep ==
    ASSUME GraphIInv, NEW t \in Tab, PollIntents(t)
    PROVE  GraphIInv'
<1>0. PICK old \in TabState : old = tab[t] /\ TabFits(old)
  BY DEF GraphIInv, GraphShapes
<1>1. /\ GraphShapes /\ old.step = "idle" /\ old.client # NoClient
      /\ UNCHANGED <<view, intents, clients, camera, viewCount>>
      /\ viewCount' \in Counts
  BY <1>0 DEF PollIntents, GraphIInv, GraphShapes, Counts
<1>2. CASE Disconnect(t)
  BY <1>1, <1>2, LeaveStep
<1>3. ASSUME ~Denied(t), NEW i \in WaitingFor(old.client), tab' = [tab EXCEPT ![t].step = Continued(t, i), ![t].intent = i]
      PROVE  GraphIInv'
  <2> DEFINE new == [old EXCEPT !.step = Continued(t, i), !.intent = i]
  <2>1. /\ i \in DOMAIN intents /\ intents[i].client \in {old.client, NoClient}
        /\ intents[i].answer = NoAnswer /\ ~intents[i].old
    BY <1>3 DEF WaitingFor, Answered
  <2>2. tab' = [tab EXCEPT ![t] = new]
    BY <1>0, <1>1, <1>3 DEF GraphShapes
  <2>3. i \in Nat /\ Continued(t, i) \in {"confirm", "claim"} /\ (Continued(t, i) = "confirm" <=> i \in DOMAIN old.seen)
    BY <1>0, <1>1, <2>1 DEF Continued, GraphShapes
  <2>4. /\ new \in TabState /\ new.client = old.client /\ new.run = old.run /\ new.seen = old.seen
        /\ new.intent = i /\ new.step = Continued(t, i)
    BY <2>3 DEF TabState
  <2> HIDE DEF new
  <2>5. intents[i].run = old.run
    BY <1>0, <1>3, <2>1 DEF Denied, TabFits, GraphIInv, IntentFits
  <2>6. i \notin DOMAIN old.seen /\ intents[i].client = old.client => Len(intents[i].shown) = 0
    <3>1. Len(intents[i].shown) \in Nat
      BY <1>1, <2>1, IntentAt DEF Intent
    <3>2. Len(intents[i].shown) <= 1
      BY <2>1 DEF GraphIInv, IntentFits
    <3>3. ASSUME intents[i].client = old.client, Len(intents[i].shown) = 1 PROVE Remembered(old, i)
      BY <1>0, <2>1, <3>3 DEF TabFits
    <3>4. ~Remembered(old, i) \/ i \in DOMAIN old.seen
      BY <1>1, <2>1 DEF Remembered
    <3>5. Len(intents[i].shown) # 1 => Len(intents[i].shown) = 0
      <4>1. PICK n \in Nat : n = Len(intents[i].shown)
        BY <3>1
      <4>2. n <= 1
        BY <3>2, <4>1
      <4>3. n = 0 \/ n = 1
        BY <4>2
      <4> QED
        BY <4>1, <4>3
    <3>6. i \notin DOMAIN old.seen /\ intents[i].client = old.client => Len(intents[i].shown) # 1
      BY <3>3, <3>4
    <3> QED
      BY <3>5, <3>6
  <2>7. TabFits(new)
    BY <1>0, <1>1, <2>1, <2>3, <2>4, <2>5, <2>6 DEF TabFits, Remembered
  <2> QED
    BY <1>0, <1>1, <2>2, <2>4, <2>7, OneTab
<1>4. ASSUME NEW i \in DOMAIN old.seen, tab' = [tab EXCEPT ![t].step = "confirm", ![t].intent = i]
      PROVE  GraphIInv'
  <2> DEFINE new == [old EXCEPT !.step = "confirm", !.intent = i]
  <2>1. tab' = [tab EXCEPT ![t] = new]
    BY <1>0, <1>1, <1>4 DEF GraphShapes
  <2>2. i \in DOMAIN intents /\ i \in Nat
    BY <1>0, <1>1 DEF TabFits, GraphShapes
  <2>3. /\ new \in TabState /\ new.client = old.client /\ new.run = old.run /\ new.seen = old.seen
        /\ new.intent = i /\ new.step = "confirm"
    BY <2>2 DEF TabState
  <2> HIDE DEF new
  <2>4. TabFits(new)
    BY <1>0, <1>1, <2>2, <2>3 DEF TabFits, Remembered
  <2> QED
    BY <1>0, <1>1, <2>1, <2>3, <2>4, OneTab
<1> QED
  BY <1>0, <1>2, <1>3, <1>4 DEF PollIntents

\* One intent becomes another, with the same request.
Follows(r, s) ==
    /\ s.revision = r.revision /\ s.state = r.state /\ s.run = r.run
    /\ r.answer # NoAnswer => s.answer # NoAnswer
    /\ r.old => s.old

LEMMA OneIntent ==
    ASSUME GraphIInv, NEW i \in DOMAIN intents, NEW new \in Intent, intents' = [intents EXCEPT ![i] = new],
           Follows(intents[i], new)
    PROVE  /\ intents' \in Seq(Intent) /\ DOMAIN intents' = DOMAIN intents /\ intents'[i] = new
           /\ \A j \in DOMAIN intents : j # i => intents'[j] = intents[j]
           /\ \A c : (new.client = c <=> intents[i].client = c) /\ (intents[i].client = c => new.shown = intents[i].shown)
                        => IntentsKeep(c)
<1>1. intents \in Seq(Intent)
  BY DEF GraphIInv, GraphShapes
<1>2. /\ intents' \in Seq(Intent) /\ DOMAIN intents' = DOMAIN intents /\ intents'[i] = new
      /\ \A j \in DOMAIN intents : j # i => intents'[j] = intents[j]
  BY <1>1
<1>3. ASSUME NEW c, new.client = c <=> intents[i].client = c, intents[i].client = c => new.shown = intents[i].shown
      PROVE  IntentsKeep(c)
  <2>1. ASSUME NEW j \in DOMAIN intents
        PROVE  /\ j \in DOMAIN intents' /\ intents'[j].run = intents[j].run
               /\ intents[j].answer # NoAnswer => intents'[j].answer # NoAnswer
               /\ intents[j].old => intents'[j].old
               /\ intents'[j].client = c <=> intents[j].client = c
               /\ intents[j].client = c => intents'[j].shown = intents[j].shown
    <3>1. CASE j = i
      BY <1>2, <1>3, <3>1 DEF Follows
    <3>2. CASE j # i
      BY <1>2, <3>2
    <3> QED
      BY <3>1, <3>2
  <2> QED
    BY <1>2, <2>1 DEF IntentsKeep
<1> QED
  BY <1>2, <1>3

\* ... and its tab another.
LEMMA TabWithIntent ==
    ASSUME GraphIInv, NEW t \in Tab, NEW i \in DOMAIN intents,
           NEW new \in Intent, intents' = [intents EXCEPT ![i] = new], Follows(intents[i], new),
           NEW at \in TabState, tab' = [tab EXCEPT ![t] = at], at.client = tab[t].client,
           new.client = intents[i].client \/ (intents[i].client = NoClient /\ new.client = at.client),
           new.client # at.client => new.shown = intents[i].shown,
           IntentFits(new), TabFits(at)',
           UNCHANGED <<view, clients>>, camera' \in [Tab -> ViewState \cup {NoView}],
           viewCount' \in Counts, viewCount'.views = viewCount.views,
           viewCount'.clients = viewCount.clients, viewCount'.runs = viewCount.runs
    PROVE  GraphIInv'
<1>1. /\ GraphShapes /\ viewCount.clients \in Nat /\ tab' \in [Tab -> TabState] /\ tab'[t] = at
  BY DEF GraphIInv, GraphShapes
<1>2. /\ intents' \in Seq(Intent) /\ DOMAIN intents' = DOMAIN intents /\ intents'[i] = new
      /\ \A j \in DOMAIN intents : j # i => intents'[j] = intents[j]
  BY OneIntent
<1>3. GraphShapes'
  BY <1>1, <1>2 DEF GraphShapes, Counts
<1>4. \A j \in DOMAIN intents' : IntentFits(intents[j])'
  <2> SUFFICES ASSUME NEW j \in DOMAIN intents PROVE IntentFits(intents[j])'
    BY <1>2
  <2>1. PICK r : r = intents'[j] /\ IntentFits(r)
    BY <1>2 DEF GraphIInv
  <2> QED
    BY <2>1 DEF IntentFits
<1>5. TabFits(tab[t])'
  BY <1>1
<1>6. \A c \in Nat : c # NoClient /\ c # tab[t].client => IntentsKeep(c)
  BY OneIntent
<1>7. viewCount.clients <= viewCount'.clients
  BY <1>1
<1> QED
  BY <1>3, <1>4, <1>5, <1>6, <1>7, TabMoves

\* The claim of an intent that may be had.
LEMMA ClaimedStep ==
    ASSUME GraphIInv, NEW t \in Tab, tab[t].step = "claim", NEW i, i = tab[t].intent, ~Denied(t), Claimable(t, i),
           intents' = [intents EXCEPT ![i].client = tab[t].client],
           NEW step \in {"show", "idle"}, GoTo(t, step), UNCHANGED <<view, clients, camera>>,
           viewCount' \in Counts, viewCount'.views = viewCount.views,
           viewCount'.clients = viewCount.clients, viewCount'.runs = viewCount.runs
    PROVE  GraphIInv'
<1>0. PICK old \in TabState : old = tab[t] /\ TabFits(old)
  BY DEF GraphIInv, GraphShapes
<1>1. /\ GraphShapes /\ i \in DOMAIN intents /\ old.client \in clients /\ old.client # NoClient
      /\ old.client \in Nat
  BY <1>0 DEF TabFits, GraphIInv, GraphShapes, Denied, TabState
<1>2. PICK r \in Intent : r = intents[i] /\ IntentFits(r)
  BY <1>1, IntentAt DEF GraphIInv
<1> DEFINE new == [r EXCEPT !.client = old.client]
           at == [old EXCEPT !.step = step]
<1>3. intents' = [intents EXCEPT ![i] = new] /\ tab' = [tab EXCEPT ![t] = at]
  BY <1>0, <1>1, <1>2 DEF GoTo, GraphShapes
<1>4. /\ new \in Intent /\ new.client = old.client /\ new.shown = r.shown /\ Follows(r, new)
      /\ new.run = r.run /\ new.answer = r.answer /\ new.revision = r.revision /\ new.state = r.state /\ new.old = r.old
  BY <1>1 DEF Intent, Follows
<1>5. /\ at \in TabState /\ at.client = old.client /\ at.step = step /\ at.intent = i /\ at.seen = old.seen
      /\ at.run = old.run
  BY <1>0 DEF TabState
<1> HIDE DEF new, at
<1>6. Len(r.shown) = 0
  <2>1. CASE r.client = old.client
    BY <1>0, <1>2, <2>1 DEF TabFits
  <2>2. CASE r.client = NoClient
    <3>1. PICK n \in Nat : n = Len(r.shown)
      BY DEF Intent
    <3>2. n <= 1 /\ n # 1
      BY <1>2, <2>2, <3>1 DEF IntentFits
    <3>3. n = 0
      BY <3>2
    <3> QED
      BY <3>1, <3>3
  <2> QED
    BY <1>0, <1>2, <2>1, <2>2 DEF Claimable
<1>7. IntentFits(new)
  BY <1>0, <1>2, <1>4, <1>6 DEF IntentFits, TabFits
<1>8. /\ DOMAIN intents' = DOMAIN intents /\ intents'[i] = new
      /\ \A j \in DOMAIN intents : j # i => intents'[j] = intents[j]
  BY <1>1, <1>2, <1>3, <1>4, OneIntent
<1>9. TabFits(at)'
  <2>1. ASSUME NEW j \in DOMAIN old.seen
        PROVE  /\ j \in DOMAIN intents' /\ intents'[j].client = at.client
               /\ old.seen[j].status = "applied" => Len(intents'[j].shown) = 1
    <3>1. CASE j = i
      BY <1>0, <1>2, <1>4, <1>5, <1>6, <1>8, <3>1 DEF TabFits
    <3>2. CASE j # i
      BY <1>0, <1>5, <1>8, <3>2 DEF TabFits
    <3> QED
      BY <3>1, <3>2
  <2>2. ASSUME NEW j \in DOMAIN intents', intents'[j].client = at.client, Len(intents'[j].shown) = 1
        PROVE  intents'[j].answer # NoAnswer \/ intents'[j].old \/ j \in DOMAIN at.seen
    <3>1. j # i
      <4> SUFFICES ASSUME j = i PROVE FALSE
        OBVIOUS
      <4>1. intents'[j].shown = r.shown
        BY <1>4, <1>8
      <4>2. Len(r.shown) = 1
        BY <2>2, <4>1
      <4>3. 0 = 1
        BY <1>6, <4>2, Zenon
      <4> QED
        BY <4>3
    <3>2. Remembered(old, j)
      BY <1>0, <1>5, <1>8, <2>2, <3>1 DEF TabFits
    <3> QED
      BY <1>0, <1>5, <1>8, <2>2, <3>1, <3>2 DEF Remembered
  <2>3. intents'[i].run = old.run
    BY <1>0, <1>2, <1>4, <1>8 DEF TabFits
  <2>4. at.client <= viewCount'.clients /\ (at.client \in clients' => at.run = viewCount'.runs)
    BY <1>0, <1>5 DEF TabFits
  <2> QED
    BY <1>0, <1>1, <1>2, <1>4, <1>5, <1>6, <1>8, <2>1, <2>2, <2>3, <2>4 DEF TabFits, Remembered
<1> QED
  BY <1>0, <1>1, <1>2, <1>3, <1>4, <1>5, <1>7, <1>9, TabWithIntent DEF Claimable, GraphIInv, GraphShapes

LEMMA ClaimStep ==
    ASSUME GraphIInv, NEW t \in Tab, ClaimIntent(t)
    PROVE  GraphIInv'
<1>1. GraphShapes /\ viewCount \in Counts
  BY DEF GraphIInv, GraphShapes, Counts
<1>2. tab[t].step = "claim" /\ UNCHANGED <<view, clients, camera>>
  BY DEF ClaimIntent
<1>3. CASE Denied(t)
  BY <1>1, <1>2, <1>3, LeaveStep DEF ClaimIntent
<1>4. CASE ~Denied(t) /\ (~Claimable(t, tab[t].intent) \/ intents[tab[t].intent].old)
  BY <1>1, <1>2, <1>4, IdleStep DEF ClaimIntent
<1>5. CASE ~Denied(t) /\ Claimable(t, tab[t].intent) /\ ~intents[tab[t].intent].old
  <2>1. PICK i : i = tab[t].intent
    OBVIOUS
  <2>2. /\ Claimable(t, i) /\ intents' = [intents EXCEPT ![i].client = tab[t].client]
        /\ \/ GoTo(t, "show") /\ UNCHANGED viewCount
           \/ GoTo(t, "idle") /\ Spend("losses", MaxLosses)
    BY <1>5, <2>1 DEF ClaimIntent
  <2>3. /\ viewCount' \in Counts /\ viewCount'.views = viewCount.views
        /\ viewCount'.clients = viewCount.clients /\ viewCount'.runs = viewCount.runs
    <3>1. CASE UNCHANGED viewCount
      BY <1>1, <3>1
    <3>2. CASE Spend("losses", MaxLosses)
      BY <1>1, <3>2, SpendIs DEF Counts
    <3> QED
      BY <2>2, <3>1, <3>2
  <2>4. CASE GoTo(t, "show")
    BY <1>2, <1>5, <2>1, <2>2, <2>3, <2>4, ClaimedStep
  <2>5. CASE GoTo(t, "idle")
    BY <1>2, <1>5, <2>1, <2>2, <2>3, <2>5, ClaimedStep
  <2> QED
    BY <2>2, <2>4, <2>5
<1> QED
  BY <1>3, <1>4, <1>5

LEMMA ShowStep ==
    ASSUME GraphIInv, NEW t \in Tab, ShowView(t)
    PROVE  GraphIInv'
<1>0. PICK old \in TabState : old = tab[t] /\ TabFits(old)
  BY DEF GraphIInv, GraphShapes
<1>1. PICK i : i = old.intent
  OBVIOUS
<1>2. /\ GraphShapes /\ old.step = "show" /\ i \in DOMAIN intents /\ old.client # NoClient /\ i \in Nat
      /\ UNCHANGED <<view, clients, viewCount>> /\ viewCount' \in Counts
  BY <1>0, <1>1 DEF ShowView, GraphIInv, GraphShapes, Counts, TabFits, TabState
<1>3. PICK r \in Intent : r = intents[i] /\ IntentFits(r)
  BY <1>2, IntentAt DEF GraphIInv
<1>4. Len(r.shown) = 0 /\ r.client = old.client /\ r.run = old.run
  BY <1>0, <1>1, <1>2, <1>3 DEF TabFits
<1>5. CASE view.state # NoView /\ view.revision = r.revision
  <2> DEFINE new == [r EXCEPT !.shown = Append(@, [client |-> old.client, run |-> old.run])]
             at == [old EXCEPT !.step = "look"]
  <2>1. /\ intents' = [intents EXCEPT ![i] = new] /\ tab' = [tab EXCEPT ![t] = at]
        /\ camera' = [camera EXCEPT ![t] = view.state]
    BY <1>0, <1>1, <1>2, <1>3, <1>5 DEF ShowView, GoTo, GraphShapes
  <2>2. r.shown \in Seq(Showing) /\ [client |-> old.client, run |-> old.run] \in Showing
    BY DEF Intent, TabState, Showing
  <2>3. PICK x, y : x = r.shown /\ y = Append(x, [client |-> old.client, run |-> old.run])
    OBVIOUS
  <2>4. y \in Seq(Showing) /\ Len(y) = 1 /\ y[1] = [client |-> old.client, run |-> old.run]
    BY <1>4, <2>2, <2>3
  <2>5. /\ new \in Intent /\ new.client = old.client /\ new.shown = y /\ Follows(r, new)
        /\ new.run = r.run /\ new.answer = r.answer /\ new.revision = r.revision /\ new.state = r.state
    BY <1>4, <2>3, <2>4 DEF Intent, Follows
  <2>6. /\ at \in TabState /\ at.client = old.client /\ at.step = "look" /\ at.intent = i /\ at.seen = old.seen
        /\ at.run = old.run
    BY <1>1 DEF TabState
  <2> HIDE DEF new, at
  <2>7. camera' \in [Tab -> ViewState \cup {NoView}]
    BY <1>2, <2>1 DEF GraphShapes
  <2>8. r.answer.status # "applied"
    <3> SUFFICES ASSUME r.answer.status = "applied" PROVE FALSE
      OBVIOUS
    <3>1. Len(r.shown) = 1
      BY <1>3 DEF IntentFits
    <3>2. 0 = 1
      BY <1>4, <3>1, Zenon
    <3> QED
      BY <3>2
  <2>9. IntentFits(new)
    <3>0. PICK n : n = Len(y) /\ n = 1 /\ n <= 1
      BY <2>4
    <3>1. Len(new.shown) <= 1 /\ Len(new.shown) = 1 /\ new.shown[1] = [client |-> new.client, run |-> new.run]
      BY <1>4, <2>4, <2>5, <3>0, Zenon
    <3> QED
      BY <1>2, <1>3, <1>4, <2>5, <2>8, <3>1 DEF IntentFits
  <2>10. /\ DOMAIN intents' = DOMAIN intents /\ intents'[i] = new
         /\ \A j \in DOMAIN intents : j # i => intents'[j] = intents[j]
    BY <1>2, <1>3, <2>1, <2>5, OneIntent
  <2>11. TabFits(at)'
    <3>1. ASSUME NEW j \in DOMAIN old.seen
          PROVE  /\ j \in DOMAIN intents' /\ intents'[j].client = at.client
                 /\ old.seen[j].status = "applied" => Len(intents'[j].shown) = 1
      <4>1. CASE j = i
        BY <2>4, <2>5, <2>6, <2>10, <4>1, <1>2
      <4>2. CASE j # i
        BY <1>0, <2>6, <2>10, <4>2 DEF TabFits
      <4> QED
        BY <4>1, <4>2
    <3>2. ASSUME NEW j \in DOMAIN intents', intents'[j].client = at.client, Len(intents'[j].shown) = 1, j # i
          PROVE  intents'[j].answer # NoAnswer \/ intents'[j].old \/ j \in DOMAIN at.seen
      <4>1. Remembered(old, j)
        BY <1>0, <2>6, <2>10, <3>2 DEF TabFits
      <4> QED
        BY <1>2, <2>6, <2>10, <3>2, <4>1 DEF Remembered
    <3>3. at.client <= viewCount'.clients /\ (at.client \in clients' => at.run = viewCount'.runs)
      BY <1>0, <1>2, <2>6 DEF TabFits
    <3>4. i \in DOMAIN intents' /\ intents'[i].client = at.client /\ Len(intents'[i].shown) = 1
      BY <1>2, <2>4, <2>5, <2>6, <2>10
    <3> QED
      BY <1>2, <2>6, <3>1, <3>2, <3>3, <3>4 DEF TabFits, Remembered
  <2> QED
    BY <1>0, <1>2, <1>3, <1>4, <2>1, <2>5, <2>6, <2>7, <2>9, <2>11, TabWithIntent
<1>6. CASE ~(view.state # NoView /\ view.revision = r.revision)
  <2>0. PICK f \in SomeSeen : f = old.seen
    BY DEF TabState
  <2> DEFINE v == [status |-> "failed", seen |-> NoView]
             s == Noted(f, i, v)
             at == [old EXCEPT !.step = "confirm", !.seen = s]
  <2>1. tab' = [tab EXCEPT ![t] = at] /\ UNCHANGED <<intents, camera>>
    BY <1>0, <1>1, <1>2, <1>3, <1>6, <2>0 DEF ShowView, GraphShapes
  <2>2. v \in Observation /\ v.status = "failed"
    BY DEF Observation
  <2> HIDE DEF v
  <2>3. /\ s \in SomeSeen /\ DOMAIN s = DOMAIN old.seen \cup {i} /\ s[i] = v
        /\ \A j \in DOMAIN old.seen : j # i => s[j] = old.seen[j]
    <3>1. i \in Nat
      BY <1>2
    <3>2. /\ s \in SomeSeen /\ DOMAIN s = DOMAIN f \cup {i} /\ s[i] = v
          /\ \A j \in DOMAIN f : j # i => s[j] = f[j]
      BY <2>2, <3>1, NotedIs
    <3> QED
      BY <2>0, <3>2
  <2> HIDE DEF s
  <2>4. /\ at \in TabState /\ at.client = old.client /\ at.step = "confirm" /\ at.intent = i /\ at.seen = s
        /\ at.run = old.run
    BY <1>1, <2>3 DEF TabState
  <2> HIDE DEF at
  <2>5. ASSUME NEW j \in DOMAIN s
        PROVE  j \in DOMAIN intents /\ intents[j].client = at.client /\ (s[j].status = "applied" => Len(intents[j].shown) = 1)
    <3>1. CASE j = i
      BY <1>2, <1>3, <1>4, <2>2, <2>3, <2>4, <3>1
    <3>2. CASE j # i
      BY <1>0, <2>3, <2>4, <3>2 DEF TabFits
    <3> QED
      BY <3>1, <3>2
  <2>6. TabFits(at)
    BY <1>0, <1>2, <2>3, <2>4, <2>5 DEF TabFits, Remembered
  <2> QED
    BY <1>0, <1>2, <2>1, <2>4, <2>6, OneTab
<1> QED
  BY <1>5, <1>6

LEMMA ObserveStep ==
    ASSUME GraphIInv, NEW t \in Tab, ObserveView(t)
    PROVE  GraphIInv'
<1>0. PICK old \in TabState : old = tab[t] /\ TabFits(old)
  BY DEF GraphIInv, GraphShapes
<1>1. PICK i : i = old.intent
  OBVIOUS
<1>2. /\ GraphShapes /\ old.step = "look" /\ i \in DOMAIN intents /\ old.client # NoClient /\ i \in Nat
      /\ UNCHANGED <<view, intents, clients, camera, viewCount>> /\ viewCount' \in Counts
  BY <1>0, <1>1 DEF ObserveView, GraphIInv, GraphShapes, Counts, TabFits, TabState
<1>9. PICK f \in SomeSeen : f = old.seen
  BY DEF TabState
<1> DEFINE v == [status |-> "applied", seen |-> camera[t]]
           s == Noted(f, i, v)
           at == [old EXCEPT !.step = "confirm", !.seen = s]
<1>3. tab' = [tab EXCEPT ![t] = at]
  BY <1>0, <1>1, <1>2, <1>9 DEF ObserveView, GraphShapes
<1>4. v \in Observation
  BY <1>2 DEF Observation, GraphShapes
<1> HIDE DEF v
<1>5. /\ s \in SomeSeen /\ DOMAIN s = DOMAIN old.seen \cup {i}
      /\ \A j \in DOMAIN old.seen : j # i => s[j] = old.seen[j]
  <2>1. i \in Nat
    BY <1>2
  <2>2. /\ s \in SomeSeen /\ DOMAIN s = DOMAIN f \cup {i}
        /\ \A j \in DOMAIN f : j # i => s[j] = f[j]
    BY <1>4, <2>1, NotedIs
  <2> QED
    BY <1>9, <2>2
<1> HIDE DEF s
<1>6. /\ at \in TabState /\ at.client = old.client /\ at.step = "confirm" /\ at.intent = i /\ at.seen = s
      /\ at.run = old.run
  BY <1>1, <1>5 DEF TabState
<1> HIDE DEF at
<1>7. ASSUME NEW j \in DOMAIN s
      PROVE  j \in DOMAIN intents /\ intents[j].client = at.client /\ (s[j].status = "applied" => Len(intents[j].shown) = 1)
  <2>1. CASE j = i
    BY <1>0, <1>1, <1>2, <1>6, <2>1 DEF TabFits
  <2>2. CASE j # i
    BY <1>0, <1>5, <1>6, <2>2 DEF TabFits
  <2> QED
    BY <2>1, <2>2
<1>8. TabFits(at)
  BY <1>0, <1>1, <1>2, <1>5, <1>6, <1>7 DEF TabFits, Remembered
<1> QED
  BY <1>0, <1>2, <1>3, <1>6, <1>8, OneTab

\* What is answered follows, and is "applied" only of what was shown and is the view.
LEMMA VerdictHolds ==
    ASSUME GraphIInv, NEW i \in DOMAIN intents, NEW r \in Intent, r = intents[i], NEW v \in Observation,
           v.status = "applied" => Len(r.shown) = 1, Pending(i),
           NEW w, w = Verdict(i, v)
    PROVE  \E new \in Intent :
              /\ new = [r EXCEPT !.answer = w]
              /\ Follows(r, new) /\ new.client = r.client /\ new.shown = r.shown
              /\ new.answer # NoAnswer /\ IntentFits(new)
<1>1. GraphShapes /\ IntentFits(r)
  BY DEF GraphIInv
<1>2. PICK new : new = [r EXCEPT !.answer = w]
  OBVIOUS
<1>3. /\ w \in Answer /\ w.status \in {"applied", "failed"}
      /\ w.status = "applied" => w = v /\ view.revision = r.revision /\ view.state = v.seen
  BY DEF Verdict, Observation, Answer
<1>4. /\ new \in Intent /\ new.client = r.client /\ new.shown = r.shown /\ new.answer = w
      /\ new.run = r.run /\ new.revision = r.revision /\ new.state = r.state /\ new.old = r.old
  BY <1>2, <1>3 DEF Intent
<1>5. w # NoAnswer /\ r.answer = NoAnswer
  BY <1>3 DEF NoAnswer, Pending, Answered
<1>6. w.status = "applied" => w.seen = r.state /\ Len(r.shown) = 1
  BY <1>1, <1>3 DEF IntentFits
<1>7. IntentFits(new) /\ Follows(r, new) /\ new.answer # NoAnswer
  BY <1>1, <1>4, <1>5, <1>6 DEF IntentFits, Follows
<1> QED
  BY <1>2, <1>4, <1>7

\* The answer is written or not, and the observation kept or, once it is, dropped.
ConfirmsAs(t, i, old, r, new, s, at) ==
    /\ old \in TabState /\ old = tab[t] /\ old.step = "confirm" /\ i = old.intent
    /\ r \in Intent /\ r = intents[i] /\ r.client = old.client
    /\ new \in Intent /\ intents' = [intents EXCEPT ![i] = new] /\ Follows(r, new)
    /\ new.client = r.client /\ new.shown = r.shown /\ IntentFits(new)
    /\ s \in SomeSeen
    /\ s = old.seen \/ (s = Dropped(old.seen, i) /\ new.answer # NoAnswer)
    /\ at \in TabState /\ tab' = [tab EXCEPT ![t] = at] /\ at.client = old.client /\ at.step = "idle"
    /\ at.intent = i /\ at.seen = s /\ at.run = old.run /\ UNCHANGED <<view, clients, camera>>
    /\ viewCount' \in Counts /\ viewCount'.views = viewCount.views
    /\ viewCount'.clients = viewCount.clients /\ viewCount'.runs = viewCount.runs

LEMMA ConfirmedStep ==
    ASSUME GraphIInv, NEW t \in Tab, NEW i, NEW old, NEW r, NEW new, NEW s, NEW at,
           ConfirmsAs(t, i, old, r, new, s, at)
    PROVE  GraphIInv'
<1> USE DEF ConfirmsAs
<1>1. /\ GraphShapes /\ TabFits(old) /\ i \in DOMAIN intents /\ i \in Nat
  <2>1. GraphShapes /\ TabFits(old)
    BY DEF GraphIInv
  <2>2. i \in DOMAIN intents
    BY <2>1 DEF TabFits
  <2> QED
    BY <2>1, <2>2 DEF GraphShapes
<1>2. /\ at.client = old.client /\ at.step = "idle" /\ at.intent = i /\ at.seen = s
      /\ at.run = old.run /\ tab' = [tab EXCEPT ![t] = at]
  OBVIOUS
<1>3. /\ DOMAIN intents' = DOMAIN intents /\ intents'[i] = new
      /\ \A j \in DOMAIN intents : j # i => intents'[j] = intents[j]
  BY <1>1, OneIntent
<1>4. PICK f \in SomeSeen : f = old.seen
  BY DEF TabState
<1>5. /\ DOMAIN s \subseteq DOMAIN f /\ \A j \in DOMAIN s : s[j] = f[j]
      /\ new.answer # NoAnswer \/ DOMAIN s = DOMAIN f
      /\ \A j \in DOMAIN f : j # i => j \in DOMAIN s
  <2>1. CASE s = f
    BY <2>1
  <2>2. CASE s = Dropped(f, i) /\ new.answer # NoAnswer
    <3>1. i \in Nat
      BY <1>1
    <3>2. PICK d : d = Dropped(f, i)
      OBVIOUS
    <3>3. DOMAIN d = DOMAIN f \ {i} /\ \A j \in DOMAIN f \ {i} : d[j] = f[j]
      BY <3>1, <3>2, DroppedIs
    <3>4. s = d /\ new.answer # NoAnswer
      BY <2>2, <3>2
    <3> QED
      BY <3>3, <3>4
  <2> QED
    BY <1>4, <2>1, <2>2
<1>6. TabFits(at)'
  <2>1. ASSUME NEW j \in DOMAIN s
        PROVE  /\ j \in DOMAIN intents' /\ intents'[j].client = at.client
               /\ s[j].status = "applied" => Len(intents'[j].shown) = 1
    <3>1. /\ j \in DOMAIN f /\ s[j] = f[j] /\ j \in DOMAIN intents /\ intents[j].client = old.client
          /\ f[j].status = "applied" => Len(intents[j].shown) = 1
      BY <1>1, <1>4, <1>5 DEF TabFits
    <3>2. intents'[j].client = intents[j].client /\ intents'[j].shown = intents[j].shown
      BY <1>1, <1>3, <3>1
    <3> QED
      BY <1>2, <1>3, <3>1, <3>2
  <2>2. ASSUME NEW j \in DOMAIN intents', intents'[j].client = at.client, Len(intents'[j].shown) = 1
        PROVE  intents'[j].answer # NoAnswer \/ intents'[j].old \/ j \in DOMAIN s
    <3>1. intents'[j].client = intents[j].client /\ intents'[j].shown = intents[j].shown /\ j \in DOMAIN intents
      BY <1>1, <1>3
    <3>2. Remembered(old, j)
      BY <1>1, <1>2, <2>2, <3>1 DEF TabFits
    <3>3. intents[j].answer # NoAnswer \/ intents[j].old \/ j \in DOMAIN f
      BY <1>4, <3>2 DEF Remembered
    <3>4. (intents[j].answer # NoAnswer => intents'[j].answer # NoAnswer) /\ (intents[j].old => intents'[j].old)
      BY <1>1, <1>3, <3>1 DEF Follows
    <3>5. j \in DOMAIN f /\ j \notin DOMAIN s => intents'[j].answer # NoAnswer
      BY <1>3, <1>5
    <3> QED
      BY <3>3, <3>4, <3>5
  <2>3. at.client <= viewCount'.clients /\ (at.client \in clients' => at.run = viewCount'.runs)
    BY <1>1, <1>2 DEF TabFits
  <2>4. at.client # NoClient
    BY <1>1, <1>2 DEF TabFits
  <2> QED
    BY <1>2, <2>1, <2>2, <2>3, <2>4 DEF TabFits, Remembered
<1>7. camera' \in [Tab -> ViewState \cup {NoView}]
  BY <1>1 DEF GraphShapes
<1> QED
  BY <1>1, <1>2, <1>6, <1>7, TabWithIntent

LEMMA ConfirmStep ==
    ASSUME GraphIInv, NEW t \in Tab, ConfirmIntent(t)
    PROVE  GraphIInv'
<1>0. PICK old \in TabState : old = tab[t] /\ TabFits(old)
  BY DEF GraphIInv, GraphShapes
<1>1. PICK i : i = old.intent
  OBVIOUS
<1>2. /\ GraphShapes /\ old.step = "confirm" /\ i \in DOMAIN intents /\ i \in Nat
      /\ UNCHANGED <<view, clients, camera>> /\ viewCount \in Counts
  BY <1>0, <1>1 DEF ConfirmIntent, GraphIInv, GraphShapes, Counts, TabFits, TabState
<1>3. PICK r \in Intent : r = intents[i] /\ IntentFits(r)
  BY <1>2, IntentAt DEF GraphIInv
<1>4. CASE Denied(t)
  BY <1>0, <1>2, <1>4, LeaveStep DEF ConfirmIntent
<1>5. CASE ~Denied(t) /\ (r.client # old.client \/ (r.old /\ Pending(i)))
  BY <1>0, <1>1, <1>2, <1>3, <1>5, IdleStep DEF ConfirmIntent
<1>6. CASE ~Denied(t) /\ ~(r.client # old.client \/ (r.old /\ Pending(i)))
  <2>0. PICK f \in SomeSeen : f = old.seen
    BY DEF TabState
  <2>1. i \in DOMAIN f /\ (f[i].status = "applied" => Len(r.shown) = 1)
    BY <1>0, <1>1, <1>2, <1>3, <2>0 DEF TabFits
  <2>2. PICK v \in Observation : v = f[i]
    BY <2>1 DEF SomeSeen
  <2>3. \/ /\ SettleIntent(i, v)
           /\ tab' = [tab EXCEPT ![t].step = "idle", ![t].seen = Dropped(@, i)]
           /\ UNCHANGED viewCount
        \/ /\ SettleIntent(i, v) \/ UNCHANGED intents
           /\ GoTo(t, "idle") /\ Spend("losses", MaxLosses)
    BY <1>0, <1>1, <1>3, <1>6, <2>0, <2>2 DEF ConfirmIntent
  <2>4. intents = [intents EXCEPT ![i] = r]
    BY <1>2, <1>3 DEF GraphShapes
  <2>5. Follows(r, r)
    BY DEF Follows
  <2>6. ASSUME SettleIntent(i, v)
        PROVE  \E new \in Intent : /\ intents' = [intents EXCEPT ![i] = new] /\ Follows(r, new)
                                   /\ new.client = r.client /\ new.shown = r.shown /\ IntentFits(new)
                                   /\ new.answer # NoAnswer
    <3>1. CASE Pending(i)
      <4>1. PICK w : w = Verdict(i, v)
        OBVIOUS
      <4>3. v.status = "applied" => Len(r.shown) = 1
        BY <2>1, <2>2
      <4>4. i \in DOMAIN intents
        BY <1>2
      <4>5. PICK new \in Intent :
              /\ new = [r EXCEPT !.answer = w]
              /\ Follows(r, new) /\ new.client = r.client /\ new.shown = r.shown
              /\ new.answer # NoAnswer /\ IntentFits(new)
        BY <1>3, <2>2, <3>1, <4>1, <4>3, <4>4, VerdictHolds
      <4>6. intents' = [intents EXCEPT ![i] = new]
        BY <1>2, <1>3, <2>6, <3>1, <4>1, <4>5 DEF SettleIntent, GraphShapes
      <4> QED
        BY <4>5, <4>6
    <3>2. CASE ~Pending(i)
      BY <1>3, <2>4, <2>5, <2>6, <3>2 DEF SettleIntent, Pending, Answered
    <3> QED
      BY <3>1, <3>2
  <2>10. r.client = old.client
    BY <1>6
  <2>7. ASSUME NEW s \in SomeSeen, s = f \/ s = Dropped(f, i),
               tab' = [tab EXCEPT ![t] = [old EXCEPT !.step = "idle", !.seen = s]],
               SettleIntent(i, v) \/ (UNCHANGED intents /\ s = f),
               UNCHANGED viewCount \/ Spend("losses", MaxLosses)
        PROVE  GraphIInv'
    <3>0. PICK at \in TabState :
            /\ tab' = [tab EXCEPT ![t] = at] /\ at.client = old.client /\ at.step = "idle"
            /\ at.intent = i /\ at.seen = s /\ at.run = old.run
      <4>1. PICK at : at = [old EXCEPT !.step = "idle", !.seen = s]
        OBVIOUS
      <4>2. /\ at \in TabState /\ at.client = old.client /\ at.step = "idle"
            /\ at.intent = i /\ at.seen = s /\ at.run = old.run
        BY <1>1, <4>1 DEF TabState
      <4> QED
        BY <2>7, <4>1, <4>2
    <3>1. /\ viewCount' \in Counts /\ viewCount'.views = viewCount.views
          /\ viewCount'.clients = viewCount.clients /\ viewCount'.runs = viewCount.runs
      <4>1. CASE UNCHANGED viewCount
        BY <1>2, <4>1
      <4>2. CASE Spend("losses", MaxLosses)
        BY <1>2, <4>2, SpendIs DEF Counts
      <4> QED
        BY <2>7, <4>1, <4>2
    <3>2. CASE SettleIntent(i, v)
      <4>1. PICK new \in Intent : /\ intents' = [intents EXCEPT ![i] = new] /\ Follows(r, new)
                                  /\ new.client = r.client /\ new.shown = r.shown /\ IntentFits(new)
                                  /\ new.answer # NoAnswer
        BY <2>6, <3>2
      <4>2. s = old.seen \/ (s = Dropped(old.seen, i) /\ new.answer # NoAnswer)
        BY <2>0, <2>7, <4>1
      <4>3. /\ old = tab[t] /\ old.step = "confirm" /\ i = old.intent /\ r = intents[i] /\ r.client = old.client
            /\ old \in TabState /\ r \in Intent /\ UNCHANGED <<view, clients, camera>>
        BY <1>0, <1>1, <1>2, <1>3, <2>10
      <4> QED
        <5>1. ConfirmsAs(t, i, old, r, new, s, at)
          BY <2>7, <3>0, <3>1, <4>1, <4>2, <4>3 DEF ConfirmsAs
        <5> QED
          BY <5>1, ConfirmedStep
    <3>3. CASE UNCHANGED intents /\ s = f
      <4>1. intents' = [intents EXCEPT ![i] = r]
        BY <2>4, <3>3
      <4>2. s = old.seen \/ (s = Dropped(old.seen, i) /\ r.answer # NoAnswer)
        BY <2>0, <3>3
      <4>3. /\ old = tab[t] /\ old.step = "confirm" /\ i = old.intent /\ r = intents[i] /\ r.client = old.client
            /\ old \in TabState /\ r \in Intent /\ UNCHANGED <<view, clients, camera>> /\ IntentFits(r)
        BY <1>0, <1>1, <1>2, <1>3, <2>10
      <4> QED
        <5>1. ConfirmsAs(t, i, old, r, r, s, at)
          BY <2>5, <2>7, <3>0, <3>1, <4>1, <4>2, <4>3 DEF ConfirmsAs
        <5> QED
          BY <5>1, ConfirmedStep
    <3> QED
      BY <2>7, <3>2, <3>3
  <2>8. CASE /\ SettleIntent(i, v)
             /\ tab' = [tab EXCEPT ![t].step = "idle", ![t].seen = Dropped(@, i)]
             /\ UNCHANGED viewCount
    <3>1. tab' = [tab EXCEPT ![t] = [old EXCEPT !.step = "idle", !.seen = Dropped(f, i)]]
      BY <1>0, <1>2, <2>0, <2>8 DEF GraphShapes
    <3>2. Dropped(f, i) \in SomeSeen
      BY <1>2, DroppedIs
    <3> QED
      BY <2>7, <2>8, <3>1, <3>2
  <2>9. CASE /\ SettleIntent(i, v) \/ UNCHANGED intents
             /\ GoTo(t, "idle") /\ Spend("losses", MaxLosses)
    <3>1. tab' = [tab EXCEPT ![t] = [old EXCEPT !.step = "idle", !.seen = f]]
      BY <1>0, <1>2, <2>0, <2>9 DEF GraphShapes, GoTo, TabState
    <3> QED
      BY <2>7, <2>9, <3>1
  <2> QED
    BY <2>3, <2>8, <2>9
<1> QED
  BY <1>4, <1>5, <1>6

\* What happens around the tabs.
LEMMA DropStep ==
    ASSUME GraphIInv, NEW t \in Tab, NEW i \in DOMAIN tab[t].seen, DropObservation(t, i)
    PROVE  GraphIInv'
<1>0. PICK old \in TabState : old = tab[t] /\ TabFits(old)
  BY DEF GraphIInv, GraphShapes
<1>1. PICK f \in SomeSeen : f = old.seen
  BY DEF TabState
<1>2. /\ GraphShapes /\ old.step = "idle" /\ i \in DOMAIN intents /\ intents[i].old
      /\ UNCHANGED <<view, intents, clients, camera, viewCount>> /\ viewCount' \in Counts
  BY <1>0 DEF DropObservation, GraphIInv, GraphShapes, Counts, TabFits
<1>3. i \in Nat
  BY <1>2 DEF GraphShapes
<1>4. PICK s : s = Dropped(f, i)
  OBVIOUS
<1>5. s \in SomeSeen /\ DOMAIN s = DOMAIN f \ {i} /\ \A j \in DOMAIN f \ {i} : s[j] = f[j]
  BY <1>3, <1>4, DroppedIs
<1> DEFINE at == [old EXCEPT !.seen = s]
<1>6. tab' = [tab EXCEPT ![t] = at]
  BY <1>0, <1>1, <1>2, <1>4 DEF DropObservation, GraphShapes
<1>7. /\ at \in TabState /\ at.client = old.client /\ at.step = "idle" /\ at.intent = old.intent /\ at.seen = s
      /\ at.run = old.run
  BY <1>2, <1>5 DEF TabState
<1> HIDE DEF at
<1>8. \A j \in DOMAIN intents : Remembered(old, j) => Remembered(at, j)
  BY <1>1, <1>2, <1>5, <1>7 DEF Remembered
<1>9. \A j \in DOMAIN s : j \in DOMAIN old.seen /\ s[j] = old.seen[j]
  BY <1>1, <1>5
<1>10. TabFits(at)
  <2>1. old.client = NoClient => DOMAIN s = {}
    BY <1>0, <1>9 DEF TabFits
  <2>2. \A j \in DOMAIN s :
          /\ j \in DOMAIN intents /\ intents[j].client = at.client
          /\ s[j].status = "applied" => Len(intents[j].shown) = 1
    BY <1>0, <1>7, <1>9 DEF TabFits
  <2>3. \A j \in DOMAIN intents : intents[j].client = at.client /\ Len(intents[j].shown) = 1 => Remembered(at, j)
    BY <1>0, <1>7, <1>8 DEF TabFits
  <2> QED
    BY <1>0, <1>7, <2>1, <2>2, <2>3 DEF TabFits
<1> QED
  BY <1>0, <1>2, <1>6, <1>7, <1>10, OneTab

LEMMA CameraStep ==
    ASSUME GraphIInv, NEW t \in Tab, NEW s \in ViewState, MoveCamera(t, s)
    PROVE  GraphIInv'
<1>1. /\ GraphShapes /\ UNCHANGED <<view, intents, clients, tab>> /\ camera' = [camera EXCEPT ![t] = s]
      /\ Spend("losses", MaxLosses)
  BY DEF MoveCamera, GraphIInv
<1>2. /\ viewCount' \in Counts /\ viewCount'.views = viewCount.views
      /\ viewCount'.clients = viewCount.clients /\ viewCount'.runs = viewCount.runs
  BY <1>1, SpendIs DEF GraphShapes
<1>3. GraphShapes' /\ viewCount.clients <= viewCount'.clients
  BY <1>1, <1>2 DEF GraphShapes, Counts
<1>4. \A i \in DOMAIN intents' : IntentFits(intents[i])'
  BY <1>1, <1>2, SameIntents
<1>5. \A c : IntentsKeep(c)
  BY <1>1, KeptIntents
<1> QED
  BY <1>1, <1>2, <1>3, <1>4, <1>5, TabsRest

LEMMA ReloadStep ==
    ASSUME GraphIInv, NEW t \in Tab, Reload(t)
    PROVE  GraphIInv'
<1>1. /\ GraphShapes /\ UNCHANGED <<view, intents, clients, camera>> /\ Spend("losses", MaxLosses) /\ Disconnect(t)
  BY DEF Reload, GraphIInv
<1>2. /\ viewCount' \in Counts /\ viewCount'.views = viewCount.views
      /\ viewCount'.clients = viewCount.clients /\ viewCount'.runs = viewCount.runs
  BY <1>1, SpendIs DEF GraphShapes
<1> QED
  BY <1>1, <1>2, LeaveStep

LEMMA OldStep ==
    ASSUME GraphIInv, NEW i \in DOMAIN intents, GrowOld(i)
    PROVE  GraphIInv'
<1>1. /\ GraphShapes /\ UNCHANGED <<view, clients, tab, camera, viewCount>>
  BY DEF GrowOld, GraphIInv
<1>2. PICK r \in Intent : r = intents[i] /\ IntentFits(r)
  BY <1>1, IntentAt DEF GraphIInv
<1>3. PICK new : new = [r EXCEPT !.old = TRUE]
  OBVIOUS
<1>4. intents' = [intents EXCEPT ![i] = new]
  BY <1>1, <1>2, <1>3 DEF GrowOld, GraphShapes
<1>5. /\ new \in Intent /\ new.client = r.client /\ new.shown = r.shown /\ Follows(r, new)
      /\ new.answer = r.answer /\ new.revision = r.revision /\ new.state = r.state /\ new.run = r.run
  BY <1>3 DEF Intent, Follows
<1>6. IntentFits(new)
  BY <1>2, <1>5 DEF IntentFits
<1>7. /\ intents' \in Seq(Intent) /\ DOMAIN intents' = DOMAIN intents /\ intents'[i] = new
      /\ \A j \in DOMAIN intents : j # i => intents'[j] = intents[j]
      /\ \A c : IntentsKeep(c)
  BY <1>2, <1>4, <1>5, OneIntent
<1>8. GraphShapes' /\ viewCount.clients <= viewCount'.clients
  BY <1>1, <1>7 DEF GraphShapes
<1>9. \A j \in DOMAIN intents' : IntentFits(intents[j])'
  <2> SUFFICES ASSUME NEW j \in DOMAIN intents PROVE IntentFits(intents[j])'
    BY <1>7
  <2>1. PICK q : q = intents'[j] /\ IntentFits(q)
    BY <1>6, <1>7 DEF GraphIInv
  <2> QED
    BY <1>1, <2>1 DEF IntentFits
<1> QED
  BY <1>1, <1>7, <1>8, <1>9, TabsRest

LEMMA RestartStep ==
    ASSUME GraphIInv, Restart
    PROVE  GraphIInv'
<1>1. /\ GraphShapes /\ UNCHANGED <<view, tab, camera>> /\ clients' = {} /\ intents' = Cancelled
      /\ viewCount' = [viewCount EXCEPT !.losses = @ + 1, !.runs = @ + 1]
  BY DEF Restart, GraphIInv
<1>2. /\ viewCount' \in Counts /\ viewCount'.views = viewCount.views
      /\ viewCount'.clients = viewCount.clients /\ viewCount.clients \in Nat
  <2>1. PICK n \in Counts : n = viewCount
    BY <1>1 DEF GraphShapes, Counts
  <2>2. PICK m : m = [n EXCEPT !.losses = @ + 1, !.runs = @ + 1]
    OBVIOUS
  <2>3. m \in Counts /\ m.views = n.views /\ m.clients = n.clients /\ n.clients \in Nat
    <3>1. n.losses + 1 \in Nat /\ n.runs + 1 \in Nat /\ n.clients \in Nat
      BY <2>1 DEF Counts
    <3>2. PICK a, b : a = n.losses + 1 /\ b = n.runs + 1
      OBVIOUS
    <3>3. m = [n EXCEPT !.losses = a, !.runs = b]
      BY <2>2, <3>2
    <3>4. m \in Counts
      BY <2>1, <3>1, <3>2, <3>3 DEF Counts
    <3>5. m.views = n.views /\ m.clients = n.clients
      BY <2>1, <3>3 DEF Counts
    <3> QED
      BY <3>1, <3>4, <3>5
  <2> QED
    BY <1>1, <2>1, <2>2, <2>3
<1> DEFINE gone == [status |-> "cancelled", seen |-> NoView]
<1>3. gone \in Answer /\ gone # NoAnswer /\ gone.status = "cancelled"
  BY DEF Answer, NoAnswer
<1> HIDE DEF gone
<1>4. ASSUME NEW i \in DOMAIN intents
      PROVE  /\ Cancelled[i] \in Intent /\ Cancelled[i].answer # NoAnswer /\ Follows(intents[i], Cancelled[i])
             /\ Cancelled[i].client = intents[i].client /\ Cancelled[i].shown = intents[i].shown
             /\ Cancelled[i].answer \in {intents[i].answer, gone}
  <2>1. PICK r \in Intent : r = intents[i]
    BY <1>1, IntentAt
  <2>2. PICK new : new = [r EXCEPT !.answer = gone]
    OBVIOUS
  <2>3. Cancelled[i] = IF r.answer # NoAnswer THEN r ELSE new
    BY <2>1, <2>2 DEF Cancelled, Answered, gone
  <2>4. /\ new \in Intent /\ Follows(r, new) /\ new.client = r.client /\ new.shown = r.shown /\ new.answer = gone
    BY <1>3, <2>2 DEF Intent, Follows
  <2>5. Follows(r, r)
    BY DEF Follows
  <2>6. CASE r.answer # NoAnswer
    BY <2>1, <2>3, <2>5, <2>6
  <2>7. CASE r.answer = NoAnswer
    BY <1>3, <2>1, <2>3, <2>4, <2>7
  <2> QED
    BY <2>6, <2>7
<1>5. DOMAIN intents' = DOMAIN intents /\ intents' \in Seq(Intent)
  <2>1. PICK n \in Nat : DOMAIN intents = 1 .. n
    BY <1>1 DEF GraphShapes
  <2>2. intents' \in [1 .. n -> Intent]
    BY <1>1, <1>4, <2>1 DEF Cancelled
  <2> QED
    BY <2>1, <2>2
<1>6. GraphShapes'
  BY <1>1, <1>2, <1>5 DEF GraphShapes, Counts
<1>7. \A c : IntentsKeep(c)
  BY <1>1, <1>4, <1>5 DEF IntentsKeep, Follows
<1>8. \A i \in DOMAIN intents' : IntentFits(intents[i])'
  <2> SUFFICES ASSUME NEW i \in DOMAIN intents PROVE IntentFits(intents[i])'
    BY <1>5
  <2>1. PICK r, s : r = intents[i] /\ IntentFits(r) /\ s = intents'[i]
    BY DEF GraphIInv
  <2>2. /\ s.answer # NoAnswer /\ Follows(r, s) /\ s.client = r.client /\ s.shown = r.shown
        /\ s.answer \in {r.answer, gone}
    BY <1>1, <1>4, <2>1
  <2>3. s.answer.status = "applied" => s.answer = r.answer
    BY <1>3, <2>2
  <2> QED
    BY <1>1, <1>2, <2>1, <2>2, <2>3 DEF IntentFits, Follows
<1>9. viewCount.clients <= viewCount'.clients
  BY <1>2
<1> QED
  BY <1>1, <1>6, <1>7, <1>8, <1>9, TabsRest

LEMMA GraphStarts == GraphInit => GraphIInv
<1> SUFFICES ASSUME GraphInit PROVE GraphIInv
  OBVIOUS
<1>1. GraphShapes
  <2>1. NewTab(NoClient) \in TabState
    BY NothingSeen DEF NewTab, TabState, NoClient, GraphInit
  <2> QED
    BY <2>1, GraphAssumption DEF GraphInit, GraphShapes
<1>2. \A t \in Tab : tab[t].client = NoClient /\ tab[t].step = "idle" /\ DOMAIN tab[t].seen = {}
  BY NothingSeen DEF GraphInit, NewTab
<1>3. DOMAIN intents = {} /\ clients = {} /\ viewCount.clients = 0
  BY DEF GraphInit
<1> QED
  BY <1>1, <1>2, <1>3 DEF GraphIInv, OwnClients, TabFits, NoClient

LEMMA GraphSteps == GraphIInv /\ [GraphNext]_graphVars => GraphIInv'
<1> SUFFICES ASSUME GraphIInv, [GraphNext]_graphVars PROVE GraphIInv'
  OBVIOUS
<1>1. CASE UNCHANGED graphVars
  BY <1>1 DEF graphVars, GraphIInv, GraphShapes, OwnClients, IntentFits, TabFits, Remembered
<1>2. CASE Restart
  BY <1>2, RestartStep
<1>3. CASE \/ \E s \in ViewState : SaveView(s)
           \/ DeleteView
           \/ \E c \in clients \cup {NoClient} : ApplyView(c)
  BY <1>3, OwnerSteps
<1>4. ASSUME NEW t \in Tab,
             \/ \E silent \in SUBSET clients : ConnectTab(t, silent)
             \/ PollIntents(t) \/ ClaimIntent(t) \/ ShowView(t) \/ ObserveView(t) \/ ConfirmIntent(t) \/ Reload(t)
             \/ \E s \in ViewState : MoveCamera(t, s)
             \/ \E i \in DOMAIN tab[t].seen : DropObservation(t, i)
      PROVE  GraphIInv'
  BY <1>4, ConnectStep, PollStep, ClaimStep, ShowStep, ObserveStep, ConfirmStep, ReloadStep, CameraStep, DropStep
<1>5. CASE \E i \in DOMAIN intents : GrowOld(i)
  BY <1>5, OldStep
<1> QED
  BY <1>1, <1>2, <1>3, <1>4, <1>5 DEF GraphNext

LEMMA GraphHolds == GraphIInv => GraphInv
<1> SUFFICES ASSUME GraphIInv PROVE GraphInv
  OBVIOUS
<1>1. GraphShapes
  BY DEF GraphIInv
<1>2. GraphTypeOK
  <2>1. view.revision \in 0 .. MaxViews /\ view.state \in ViewState \cup {NoView}
    BY <1>1 DEF GraphShapes
  <2>2. clients \subseteq 1 .. MaxClients
    BY <1>1, GraphAssumption DEF GraphShapes
  <2>3. \A t \in Tab :
         /\ DOMAIN tab[t].seen \subseteq DOMAIN intents
         /\ tab[t].step # "idle" => tab[t].intent \in DOMAIN intents /\ tab[t].client # NoClient
         /\ tab[t].step = "confirm" => tab[t].intent \in DOMAIN tab[t].seen
         /\ \A i \in DOMAIN tab[t].seen : intents[i].client = tab[t].client
    BY DEF GraphIInv, TabFits
  <2> QED
    BY <1>1, <2>1, <2>2, <2>3 DEF GraphTypeOK, GraphShapes
<1>3. ASSUME NEW i \in DOMAIN intents
      PROVE  /\ intents[i].answer.status = "applied" =>
                  /\ intents[i].answer.seen = intents[i].state
                  /\ Len(intents[i].shown) = 1 /\ intents[i].shown[1].client = intents[i].client
             /\ Len(intents[i].shown) <= 1
             /\ \A k \in DOMAIN intents[i].shown : intents[i].shown[k].run = intents[i].run
  <2>1. PICK r \in Intent : r = intents[i] /\ IntentFits(r)
    BY <1>1, IntentAt DEF GraphIInv
  <2>2. PICK q \in Seq(Showing) : q = r.shown
    BY DEF Intent
  <2>3. PICK n \in Nat : n = Len(q) /\ DOMAIN q = 1 .. n
    BY <2>2
  <2>4. n <= 1
    BY <2>1, <2>2, <2>3 DEF IntentFits
  <2>5. n = 1 => q[1] = [client |-> r.client, run |-> r.run]
    BY <2>1, <2>2, <2>3 DEF IntentFits
  <2>6. \A k \in DOMAIN q : k = 1 /\ n = 1
    BY <2>3, <2>4
  <2>7. r.answer.status = "applied" => r.answer.seen = r.state /\ n = 1
    BY <2>1, <2>2, <2>3 DEF IntentFits
  <2>8. \A k \in DOMAIN q : q[k].run = r.run
    BY <2>5, <2>6
  <2>9. n = 1 => q[1].client = r.client
    BY <2>5
  <2> QED
    BY <2>1, <2>2, <2>3, <2>4, <2>7, <2>8, <2>9
<1> QED
  BY <1>2, <1>3 DEF GraphInv, AppliedMeansSeen, ShownOnce, NothingIsInherited

\* However answers are lost, tabs reloaded, cameras moved and servers restarted: an
\* intent is shown once at most, by the client that claimed it in the run it was asked
\* in, and counts as applied only by what was seen of the very state it asked for
\* (claim, acknowledge, reset_runtime, graph-view-control.js).
THEOREM ViewsAreShownOnce == GraphSpec => []GraphInv
<1>1. GraphInit => GraphIInv
  BY GraphStarts
<1>2. GraphIInv /\ [GraphNext]_graphVars => GraphIInv'
  BY GraphSteps
<1>3. GraphIInv => GraphInv
  BY GraphHolds
<1> QED
  BY <1>1, <1>2, <1>3, PTL DEF GraphSpec

(***************************************************************************)
(* Handoffs: the inductive invariant                                        *)
(***************************************************************************)

Ground == [revision : Nat, knowledge : Nat]
Item == [handoff : Handoff, run : Run \cup {Nobody}, bound : BOOLEAN, decision : {"none", "accepted", "rejected"}]
Asking == UNION {RequestsAbout(id) : id \in ReturnId}
Events == {e \in Seq(ReturnId) : Len(e) <= 1}
Work == [step : {"job", "file", "board"}, request : Asking, file : [Handoff -> Events], again : BOOLEAN]
PostKey ==
    {<<"result", id>> : id \in ReturnId}
    \cup {<<"decision", id, choice>> : id \in ReturnId, choice \in {"accepted", "rejected"}}

HandoffShapes ==
    /\ ground \in Ground /\ ground.revision > 0
    /\ source \in [Handoff -> Ground] /\ binding \in [Handoff -> Run \cup {Nobody}]
    /\ delivery \in [Handoff -> Run \cup {Nobody}] /\ questions \in [Handoff -> {"none", "asked", "answered"}]
    /\ inbox \in [ReturnId -> {Nothing} \cup Item] /\ jobs \in [Handoff -> Events]
    /\ handling \in [Handler -> {Free} \cup Work] /\ answered \subseteq Asking /\ posted \subseteq PostKey

\* What a request is about is in the inbox, and a decision is the one it asks for.
Filed(q) == inbox[q.id] # Nothing /\ (q.kind = "decide" => inbox[q.id].decision = q.choice)

\* A run works on a handoff it was delivered to, and on what was issued.
BindingFits(h) ==
    /\ binding[h] # Nobody => delivery[h] \in {Nobody, binding[h]} /\ source[h] # NotIssued
    /\ questions[h] # "none" => binding[h] # Nobody

ItemFits(item) ==
    item # Nothing /\ item.bound => item.run # Nobody /\ binding[item.handoff] = item.run

\* What is about to be posted is filed, what was answered is posted.
HandoffIInv ==
    /\ HandoffShapes
    /\ \A h \in Handoff : BindingFits(h)
    /\ \A id \in ReturnId : ItemFits(inbox[id])
    /\ \A p \in Handler : handling[p].step = "board" => Filed(handling[p].request)
    /\ \A q \in answered : Filed(q) /\ KeyOf(q) \in posted
    /\ \A id \in ReturnId, choice \in {"accepted", "rejected"} :
          <<"decision", id, choice>> \in posted => inbox[id] # Nothing /\ inbox[id].decision = choice

LEMMA AskingIs ==
    ASSUME NEW q \in Asking
    PROVE  /\ q.id \in ReturnId /\ q.kind \in {"strict", "loose", "gnom", "decide"}
           /\ q.kind = "decide" => q.choice \in {"accepted", "rejected"}
           /\ q.kind # "decide" => q.handoff \in Handoff /\ q.run \in Run \cup {Nobody}
BY DEF Asking, RequestsAbout

LEMMA NothingIsNoItem == Nothing \notin Item
<1> SUFFICES ASSUME Nothing \in Item PROVE FALSE
  OBVIOUS
<1>1. DOMAIN Nothing = {"handoff", "run", "bound", "decision"}
  BY DEF Item
<1>2. DOMAIN Nothing = {"handoff"}
  BY DEF Nothing
<1> QED
  BY <1>1, <1>2

LEMMA WorkIs ==
    ASSUME HandoffShapes, NEW p \in Handler, handling[p].step \in {"job", "file", "board"}
    PROVE  handling[p] \in Work
BY DEF HandoffShapes, Free

\* A handler goes on to another step of its request.
LEMMA AdvanceIs ==
    ASSUME HandoffShapes, NEW p \in Handler, handling[p].step \in {"job", "file", "board"},
           NEW step \in {"job", "file", "board"}, Advance(p, step)
    PROVE  /\ handling' \in [Handler -> {Free} \cup Work]
           /\ handling'[p].step = step /\ handling'[p].request = handling[p].request
           /\ \A o \in Handler : o # p => handling'[o] = handling[o]
<1>1. PICK w \in Work : w = handling[p]
  BY WorkIs
<1>2. PICK new : new = [w EXCEPT !.step = step]
  OBVIOUS
<1>3. new \in Work /\ new.step = step /\ new.request = w.request
  BY <1>2 DEF Work
<1>4. handling' = [handling EXCEPT ![p] = new]
  BY <1>1, <1>2 DEF Advance, HandoffShapes
<1> QED
  BY <1>1, <1>3, <1>4 DEF HandoffShapes

LEMMA RefuseIs ==
    ASSUME HandoffShapes, NEW p \in Handler, RefuseHandling(p)
    PROVE  /\ handling' \in [Handler -> {Free} \cup Work] /\ handling'[p].step = "free"
           /\ \A o \in Handler : o # p => handling'[o] = handling[o]
BY DEF RefuseHandling, HandoffShapes, Free

\* What is in the inbox stays there, with its decision.
InboxKeeps ==
    \A id \in ReturnId : inbox[id] # Nothing =>
        /\ inbox'[id] # Nothing
        /\ inbox[id].decision # "none" => inbox'[id].decision = inbox[id].decision

LEMMA FiledStays ==
    ASSUME InboxKeeps, NEW q \in Asking, Filed(q) PROVE Filed(q)'
BY AskingIs DEF InboxKeeps, Filed

\* What was posted and answered stays true of the inbox.
LEMMA InboxMoves ==
    ASSUME HandoffIInv, InboxKeeps, HandoffShapes', \A h \in Handoff : BindingFits(h)',
           \A id \in ReturnId : ItemFits(inbox[id])', UNCHANGED <<posted, answered>>,
           \A p \in Handler : handling'[p].step = "board" =>
               handling'[p] = handling[p] \/ Filed(handling[p].request)'
    PROVE  HandoffIInv'
<1>1. HandoffShapes /\ posted \subseteq PostKey /\ answered \subseteq Asking
  BY DEF HandoffIInv, HandoffShapes
<1>2. ASSUME NEW p \in Handler, handling'[p].step = "board" PROVE Filed(handling[p].request)'
  <2>1. CASE handling'[p] = handling[p]
    <3>1. handling[p] \in Work /\ Filed(handling[p].request)
      BY <1>1, <1>2, <2>1, WorkIs DEF HandoffIInv
    <3>2. PICK q \in Asking : q = handling[p].request /\ q = handling'[p].request
      BY <2>1, <3>1 DEF Work
    <3>3. Filed(q)'
      BY <3>1, <3>2, FiledStays
    <3> QED
      BY <3>2, <3>3 DEF Filed
  <2>2. CASE Filed(handling[p].request)'
    BY <2>2 DEF Filed
  <2> QED
    BY <1>2, <2>1, <2>2
<1>3. \A q \in answered' : Filed(q)' /\ KeyOf(q) \in posted'
  BY <1>1, FiledStays DEF HandoffIInv
<1>4. \A id \in ReturnId, choice \in {"accepted", "rejected"} :
          <<"decision", id, choice>> \in posted' => inbox'[id] # Nothing /\ inbox'[id].decision = choice
  BY DEF HandoffIInv, InboxKeeps
<1> QED
  BY <1>2, <1>3, <1>4 DEF HandoffIInv

LEMMA SameInbox == inbox' = inbox => InboxKeeps
BY DEF InboxKeeps

\* The papers change, the inbox and what is said of it do not.
LEMMA PapersMove ==
    ASSUME HandoffIInv, HandoffShapes', UNCHANGED <<inbox, posted, answered, handling>>,
           \A h \in Handoff : BindingFits(h)',
           \A h \in Handoff : binding[h] # Nobody => binding'[h] = binding[h]
    PROVE  HandoffIInv'
<1>1. \A id \in ReturnId : ItemFits(inbox[id])'
  <2> SUFFICES ASSUME NEW id \in ReturnId PROVE ItemFits(inbox[id])'
    OBVIOUS
  <2>1. inbox[id] = Nothing \/ inbox[id] \in Item
    BY DEF HandoffIInv, HandoffShapes
  <2>2. inbox'[id] = inbox[id] /\ ItemFits(inbox[id])
    BY DEF HandoffIInv
  <2>3. CASE inbox[id] = Nothing
    BY <2>2, <2>3 DEF ItemFits
  <2>4. CASE inbox[id] \in Item
    <3>1. inbox[id].handoff \in Handoff
      BY <2>4 DEF Item
    <3> QED
      BY <2>2, <3>1 DEF ItemFits
  <2> QED
    BY <2>1, <2>3, <2>4
<1> QED
  BY <1>1, SameInbox, InboxMoves

LEMMA PaperSteps ==
    ASSUME HandoffIInv, NEW h \in Handoff, NEW run \in Run,
           IssueHandoff(h) \/ ReserveDelivery(h, run) \/ BindRun(h, run) \/ Question(h, run)
    PROVE  HandoffIInv'
<1>0. HandoffShapes /\ UNCHANGED <<ground, inbox, posted, jobs, handling, answered>>
  BY DEF HandoffIInv, IssueHandoff, ReserveDelivery, BindRun, Question
<1>1. CASE IssueHandoff(h)
  <2>1. /\ source[h] = NotIssued /\ source' = [source EXCEPT ![h] = ground]
        /\ UNCHANGED <<binding, delivery, questions>>
    BY <1>1 DEF IssueHandoff
  <2>2. HandoffShapes'
    BY <1>0, <2>1 DEF HandoffShapes
  <2>3. ground # NotIssued
    BY <1>0 DEF HandoffShapes, NotIssued
  <2>4. \A g \in Handoff : BindingFits(g)'
    BY <1>0, <2>1, <2>3 DEF HandoffIInv, BindingFits, HandoffShapes
  <2> QED
    BY <1>0, <2>1, <2>2, <2>4, PapersMove
<1>2. CASE ReserveDelivery(h, run)
  <2>1. /\ binding[h] = Nobody /\ delivery' = [delivery EXCEPT ![h] = run]
        /\ UNCHANGED <<source, binding, questions>>
    BY <1>2 DEF ReserveDelivery, Reservable
  <2>2. HandoffShapes'
    BY <1>0, <2>1 DEF HandoffShapes
  <2>3. \A g \in Handoff : BindingFits(g)'
    BY <1>0, <2>1 DEF HandoffIInv, BindingFits, HandoffShapes
  <2> QED
    BY <1>0, <2>1, <2>2, <2>3, PapersMove
<1>3. CASE BindRun(h, run)
  <2>1. /\ source[h] # NotIssued /\ binding[h] = Nobody /\ delivery[h] \in {Nobody, run}
        /\ binding' = [binding EXCEPT ![h] = run] /\ UNCHANGED <<source, delivery, questions>>
    BY <1>3 DEF BindRun, Bindable
  <2>2. HandoffShapes'
    BY <1>0, <2>1 DEF HandoffShapes
  <2>3. \A g \in Handoff : BindingFits(g)'
    BY <1>0, <2>1, HandoffAssumption DEF HandoffIInv, BindingFits, HandoffShapes
  <2>4. \A g \in Handoff : binding[g] # Nobody => binding'[g] = binding[g]
    BY <1>0, <2>1 DEF HandoffShapes
  <2> QED
    BY <1>0, <2>1, <2>2, <2>3, <2>4, PapersMove
<1>4. CASE Question(h, run)
  <2>1. /\ binding[h] = run /\ UNCHANGED <<source, binding, delivery>>
        /\ \/ questions' = [questions EXCEPT ![h] = "asked"]
           \/ questions' = [questions EXCEPT ![h] = "answered"]
    BY <1>4 DEF Question
  <2>2. /\ questions' \in [Handoff -> {"none", "asked", "answered"}]
        /\ \A g \in Handoff : g # h => questions'[g] = questions[g]
    BY <1>0, <2>1 DEF HandoffShapes
  <2>3. HandoffShapes'
    BY <1>0, <2>1, <2>2 DEF HandoffShapes
  <2>4. \A g \in Handoff : BindingFits(g)'
    BY <2>1, <2>2, HandoffAssumption DEF HandoffIInv, BindingFits
  <2> QED
    BY <1>0, <2>1, <2>3, <2>4, PapersMove
<1> QED
  BY <1>1, <1>2, <1>3, <1>4

LEMMA ChangeStep == ASSUME HandoffIInv, Change PROVE HandoffIInv'
<1>1. HandoffShapes /\ UNCHANGED <<source, binding, delivery, questions, inbox, posted, jobs, handling, answered>>
  BY DEF HandoffIInv, Change
<1>2. ground' \in Ground /\ ground'.revision > 0
  <2>1. PICK g \in Ground : g = ground /\ g.revision > 0
    BY <1>1 DEF HandoffShapes
  <2>2. CASE ground' = [g EXCEPT !.revision = @ + 1]
    BY <2>1, <2>2 DEF Ground
  <2>3. CASE ground' = [g EXCEPT !.knowledge = @ + 1]
    BY <2>1, <2>3 DEF Ground
  <2> QED
    BY <2>1, <2>2, <2>3 DEF Change
<1>3. HandoffShapes'
  BY <1>1, <1>2 DEF HandoffShapes
<1>4. \A h \in Handoff : BindingFits(h)'
  BY <1>1 DEF HandoffIInv, BindingFits
<1> QED
  BY <1>1, <1>3, <1>4, PapersMove

\* Only handlers and what they write change.
LEMMA PapersRest ==
    ASSUME HandoffIInv, UNCHANGED papers
    PROVE  /\ \A h \in Handoff : BindingFits(h)'
           /\ \A id \in ReturnId : inbox'[id] = inbox[id] => ItemFits(inbox[id])'
BY DEF HandoffIInv, BindingFits, ItemFits, papers

LEMMA AcceptStep ==
    ASSUME HandoffIInv, NEW p \in Handler, NEW q \in Asking, AcceptRequest(p, q)
    PROVE  HandoffIInv'
<1>1. /\ HandoffShapes /\ UNCHANGED <<ground, inbox, posted, jobs, answered>> /\ UNCHANGED papers
  BY DEF HandoffIInv, AcceptRequest
<1>2. PICK step, new :
         /\ step \in {"job", "file"} /\ new = [step |-> step, request |-> q, file |-> jobs, again |-> FALSE]
         /\ handling' = [handling EXCEPT ![p] = new]
  BY DEF AcceptRequest
<1>3. new \in Work /\ new.step # "board"
  BY <1>1, <1>2 DEF Work, HandoffShapes
<1>4. /\ handling' \in [Handler -> {Free} \cup Work] /\ handling'[p] = new
      /\ \A o \in Handler : o # p => handling'[o] = handling[o]
  BY <1>1, <1>2, <1>3 DEF HandoffShapes
<1>5. HandoffShapes'
  BY <1>1, <1>4 DEF HandoffShapes, papers
<1>6. \A o \in Handler : handling'[o].step = "board" => handling'[o] = handling[o]
  BY <1>3, <1>4
<1> QED
  BY <1>1, <1>5, <1>6, PapersRest, SameInbox, InboxMoves

LEMMA RecordStep == ASSUME HandoffIInv, NEW p \in Handler, RecordEvent(p) PROVE HandoffIInv'
<1>1. /\ HandoffShapes /\ UNCHANGED <<ground, inbox, posted, answered>> /\ UNCHANGED papers
      /\ handling[p].step = "job"
  BY DEF HandoffIInv, RecordEvent
<1>2. PICK w \in Work : w = handling[p]
  BY <1>1, WorkIs
<1>3. PICK q \in Asking : q = w.request
  BY DEF Work
<1>4. PICK file \in [Handoff -> Events] : file = w.file
  BY DEF Work
<1>5. \/ (Advance(p, "file") \/ RefuseHandling(p)) /\ UNCHANGED jobs
      \/ /\ Advance(p, "file") /\ file[q.handoff] = <<>>
         /\ jobs' = [file EXCEPT ![q.handoff] = Append(@, q.id)]
  BY <1>2, <1>3, <1>4 DEF RecordEvent
<1>6. jobs' \in [Handoff -> Events]
  <2>1. CASE UNCHANGED jobs
    BY <1>1, <2>1 DEF HandoffShapes
  <2>2. CASE jobs' = [file EXCEPT ![q.handoff] = Append(@, q.id)] /\ file[q.handoff] = <<>>
    <3>1. PICK e : e = Append(<<>>, q.id)
      OBVIOUS
    <3>2. e \in Events
      <4>1. q.id \in ReturnId
        BY AskingIs
      <4> QED
        BY <3>1, <4>1 DEF Events
    <3>3. jobs' = [file EXCEPT ![q.handoff] = e]
      BY <2>2, <3>1
    <3> QED
      BY <3>2, <3>3
  <2> QED
    BY <1>5, <2>1, <2>2
<1>7. /\ handling' \in [Handler -> {Free} \cup Work] /\ handling'[p].step # "board"
      /\ \A o \in Handler : o # p => handling'[o] = handling[o]
  <2>1. CASE Advance(p, "file")
    BY <1>1, <2>1, AdvanceIs
  <2>2. CASE RefuseHandling(p)
    BY <1>1, <2>2, RefuseIs
  <2> QED
    BY <1>5, <2>1, <2>2
<1>8. HandoffShapes'
  BY <1>1, <1>6, <1>7 DEF HandoffShapes, papers
<1>9. \A o \in Handler : handling'[o].step = "board" => handling'[o] = handling[o]
  BY <1>7
<1> QED
  BY <1>1, <1>8, <1>9, PapersRest, SameInbox, InboxMoves

\* An item is filed, the handler goes on to the board with it.
LEMMA FilingMoves ==
    ASSUME HandoffIInv, NEW p \in Handler, NEW w \in Work, w = handling[p], w.step = "file",
           NEW id \in ReturnId, NEW item \in Item, inbox' = [inbox EXCEPT ![id] = item],
           Advance(p, "board"), UNCHANGED <<ground, posted, jobs, answered>>, UNCHANGED papers,
           ItemFits(item)', w.request.id = id,
           w.request.kind = "decide" => item.decision = w.request.choice,
           inbox[id] # Nothing /\ inbox[id].decision # "none" => item.decision = inbox[id].decision
    PROVE  HandoffIInv'
<1>1. HandoffShapes
  BY DEF HandoffIInv
<1>2. /\ handling' \in [Handler -> {Free} \cup Work] /\ handling'[p].request = w.request
      /\ \A o \in Handler : o # p => handling'[o] = handling[o]
  BY <1>1, AdvanceIs
<1>3. /\ inbox' \in [ReturnId -> {Nothing} \cup Item] /\ inbox'[id] = item /\ item # Nothing
      /\ \A other \in ReturnId : other # id => inbox'[other] = inbox[other]
  BY <1>1, NothingIsNoItem DEF HandoffShapes
<1>4. HandoffShapes'
  BY <1>1, <1>2, <1>3 DEF HandoffShapes, papers
<1>5. InboxKeeps
  BY <1>3 DEF InboxKeeps
<1>6. \A other \in ReturnId : ItemFits(inbox[other])'
  BY <1>3, PapersRest
<1>7. Filed(handling[p].request)'
  <2>1. PICK q \in Asking : q = w.request
    BY DEF Work
  <2>2. Filed(q)'
    BY <1>3, <2>1 DEF Filed
  <2> QED
    BY <1>2, <2>1, <2>2 DEF Filed
<1>8. \A o \in Handler : handling'[o].step = "board" =>
          handling'[o] = handling[o] \/ Filed(handling[o].request)'
  BY <1>2, <1>7
<1> QED
  BY <1>4, <1>5, <1>6, <1>8, PapersRest, InboxMoves

\* What a handler of a request may meet in the inbox when nothing is written.
LEMMA RefusalMoves ==
    ASSUME HandoffIInv, NEW p \in Handler, RefuseHandling(p),
           UNCHANGED <<ground, inbox, posted, jobs, answered>>, UNCHANGED papers
    PROVE  HandoffIInv'
<1>1. HandoffShapes
  BY DEF HandoffIInv
<1>2. /\ handling' \in [Handler -> {Free} \cup Work]
      /\ \A o \in Handler : handling'[o].step = "board" => handling'[o] = handling[o]
  BY <1>1, RefuseIs
<1>3. HandoffShapes'
  BY <1>1, <1>2 DEF HandoffShapes, papers
<1> QED
  BY <1>2, <1>3, PapersRest, SameInbox, InboxMoves

LEMMA ReturnStep == ASSUME HandoffIInv, NEW p \in Handler, FileReturn(p) PROVE HandoffIInv'
<1>1. /\ HandoffShapes /\ UNCHANGED <<ground, posted, jobs, answered>> /\ UNCHANGED papers
      /\ handling[p].step = "file"
  BY DEF HandoffIInv, FileReturn
<1>2. PICK w \in Work : w = handling[p]
  BY <1>1, WorkIs
<1>3. PICK q \in Asking : q = w.request
  BY DEF Work
<1>4. /\ q.kind # "decide" /\ q.id \in ReturnId /\ q.handoff \in Handoff /\ q.run \in Run \cup {Nobody}
      /\ q.kind # "gnom" => q.run # Nobody
  <2>1. q.kind # "decide"
    BY <1>2, <1>3 DEF FileReturn
  <2>2. q.kind # "gnom" => q.run \in Run
    BY <2>1 DEF Asking, RequestsAbout
  <2> QED
    BY <2>1, <2>2, AskingIs, HandoffAssumption
<1>5. \/ /\ inbox[q.id] # Nothing /\ UNCHANGED inbox
         /\ handling' = [handling EXCEPT ![p].step = "board", ![p].again = TRUE]
      \/ /\ inbox[q.id] = Nothing /\ Advance(p, "board")
         /\ inbox' = [inbox EXCEPT ![q.id] =
               [handoff |-> q.handoff, run |-> q.run, bound |-> Bound(q), decision |-> "none"]]
      \/ RefuseHandling(p) /\ UNCHANGED inbox
  BY <1>2, <1>3 DEF FileReturn
<1>6. CASE /\ inbox[q.id] # Nothing /\ UNCHANGED inbox
           /\ handling' = [handling EXCEPT ![p].step = "board", ![p].again = TRUE]
  <2>1. PICK new : new = [w EXCEPT !.step = "board", !.again = TRUE]
    OBVIOUS
  <2>2. new \in Work /\ new.request = w.request
    BY <2>1 DEF Work
  <2>3. handling' = [handling EXCEPT ![p] = new]
    BY <1>1, <1>2, <1>6, <2>1 DEF HandoffShapes
  <2>4. /\ handling' \in [Handler -> {Free} \cup Work] /\ handling'[p].request = w.request
        /\ \A o \in Handler : o # p => handling'[o] = handling[o]
    BY <1>1, <2>2, <2>3 DEF HandoffShapes
  <2>5. HandoffShapes'
    BY <1>1, <1>6, <2>4 DEF HandoffShapes, papers
  <2>6. Filed(q)'
    BY <1>4, <1>6 DEF Filed
  <2>7. Filed(handling[p].request)'
    BY <1>3, <2>4, <2>6 DEF Filed
  <2>8. \A o \in Handler : handling'[o].step = "board" =>
            handling'[o] = handling[o] \/ Filed(handling[o].request)'
    BY <2>4, <2>7
  <2> QED
    BY <1>1, <1>6, <2>5, <2>8, PapersRest, SameInbox, InboxMoves
<1>7. CASE /\ inbox[q.id] = Nothing /\ Advance(p, "board")
           /\ inbox' = [inbox EXCEPT ![q.id] =
                 [handoff |-> q.handoff, run |-> q.run, bound |-> Bound(q), decision |-> "none"]]
  <2>1. PICK bound \in BOOLEAN : bound = Bound(q)
    BY DEF Bound
  <2>2. PICK item : item = [handoff |-> q.handoff, run |-> q.run, bound |-> bound, decision |-> "none"]
    OBVIOUS
  <2>3. item \in Item
    BY <1>4, <2>2 DEF Item
  <2>4. inbox' = [inbox EXCEPT ![q.id] = item]
    BY <1>7, <2>1, <2>2
  <2>5. bound => q.run # Nobody /\ binding'[q.handoff] = q.run
    BY <1>1, <1>4, <2>1 DEF Bound, papers
  <2>6. ItemFits(item)'
    BY <2>2, <2>5 DEF ItemFits
  <2>7. /\ w.request.id = q.id /\ (w.request.kind = "decide" => item.decision = w.request.choice)
        /\ (inbox[q.id] # Nothing /\ inbox[q.id].decision # "none" => item.decision = inbox[q.id].decision)
        /\ w.step = "file" /\ q.id \in ReturnId
    BY <1>1, <1>2, <1>3, <1>4, <1>7
  <2> QED
    BY <1>1, <1>2, <1>7, <2>3, <2>4, <2>6, <2>7, FilingMoves
<1>8. CASE RefuseHandling(p) /\ UNCHANGED inbox
  BY <1>1, <1>8, RefusalMoves
<1> QED
  BY <1>5, <1>6, <1>7, <1>8

LEMMA DecisionStep == ASSUME HandoffIInv, NEW p \in Handler, FileDecision(p) PROVE HandoffIInv'
<1>1. /\ HandoffShapes /\ UNCHANGED <<ground, posted, jobs, answered>> /\ UNCHANGED papers
      /\ handling[p].step = "file"
  BY DEF HandoffIInv, FileDecision
<1>2. PICK w \in Work : w = handling[p]
  BY <1>1, WorkIs
<1>3. PICK q \in Asking : q = w.request
  BY DEF Work
<1>4. /\ q.kind = "decide" /\ q.id \in ReturnId /\ q.choice \in {"accepted", "rejected"}
      /\ \/ /\ inbox[q.id] # Nothing /\ OpenTo(inbox[q.id], q.choice) /\ Advance(p, "board")
            /\ inbox' = [inbox EXCEPT ![q.id].decision = q.choice]
         \/ RefuseHandling(p) /\ UNCHANGED inbox
  <2>1. q.kind = "decide"
    BY <1>2, <1>3 DEF FileDecision
  <2> QED
    BY <1>2, <1>3, <2>1, AskingIs DEF FileDecision
<1>5. CASE /\ inbox[q.id] # Nothing /\ OpenTo(inbox[q.id], q.choice) /\ Advance(p, "board")
           /\ inbox' = [inbox EXCEPT ![q.id].decision = q.choice]
  <2>1. PICK old \in Item : old = inbox[q.id]
    BY <1>1, <1>4, <1>5 DEF HandoffShapes
  <2>2. PICK item : item = [old EXCEPT !.decision = q.choice]
    OBVIOUS
  <2>3. /\ item \in Item /\ item.decision = q.choice /\ item.run = old.run
        /\ item.bound = old.bound /\ item.handoff = old.handoff
    BY <1>4, <2>2 DEF Item
  <2>4. inbox' = [inbox EXCEPT ![q.id] = item]
    BY <1>1, <1>4, <1>5, <2>1, <2>2 DEF HandoffShapes
  <2>5. old # Nothing
    BY <2>1, NothingIsNoItem
  <2>6. ItemFits(old)
    BY <1>4, <2>1 DEF HandoffIInv
  <2>7. ItemFits(item)'
    BY <1>1, <2>3, <2>5, <2>6 DEF ItemFits, papers
  <2>8. /\ w.request.id = q.id /\ (w.request.kind = "decide" => item.decision = w.request.choice)
        /\ (inbox[q.id] # Nothing /\ inbox[q.id].decision # "none" => item.decision = inbox[q.id].decision)
        /\ w.step = "file" /\ q.id \in ReturnId
    BY <1>1, <1>2, <1>3, <1>4, <1>5, <2>3 DEF OpenTo
  <2> QED
    BY <1>1, <1>2, <1>5, <2>3, <2>4, <2>7, <2>8, FilingMoves
<1>6. CASE RefuseHandling(p) /\ UNCHANGED inbox
  BY <1>1, <1>6, RefusalMoves
<1> QED
  BY <1>4, <1>5, <1>6

LEMMA KeyIs ==
    ASSUME NEW q \in Asking
    PROVE  /\ KeyOf(q) \in PostKey
           /\ \A id \in ReturnId, choice \in {"accepted", "rejected"} :
                KeyOf(q) = <<"decision", id, choice>> => q.kind = "decide" /\ q.id = id /\ q.choice = choice
<1>1. CASE q.kind = "decide"
  BY <1>1, AskingIs DEF KeyOf, PostKey
<1>2. CASE q.kind # "decide"
  BY <1>2, AskingIs DEF KeyOf, PostKey
<1> QED
  BY <1>1, <1>2

LEMMA PostStep == ASSUME HandoffIInv, NEW p \in Handler, PostAndAnswer(p) PROVE HandoffIInv'
<1>1. /\ HandoffShapes /\ UNCHANGED <<inbox, jobs>> /\ UNCHANGED papers
      /\ handling[p].step = "board" /\ RefuseHandling(p)
  BY DEF HandoffIInv, PostAndAnswer
<1>2. PICK w \in Work : w = handling[p]
  BY <1>1, WorkIs
<1>3. PICK q \in Asking : q = w.request
  BY DEF Work
<1>4. /\ posted' = posted \cup {KeyOf(q)} /\ answered' = answered \cup {q}
      /\ ground' = ground \/ ground' = [ground EXCEPT !.revision = @ + 1]
  BY <1>2, <1>3 DEF PostAndAnswer, Posted
<1>5. Filed(q)
  BY <1>1, <1>2, <1>3 DEF HandoffIInv, Filed
<1>6. ground' \in Ground /\ ground'.revision > 0
  <2>1. PICK g \in Ground : g = ground /\ g.revision > 0
    BY <1>1 DEF HandoffShapes
  <2> QED
    BY <1>4, <2>1 DEF Ground
<1>7. /\ handling' \in [Handler -> {Free} \cup Work]
      /\ \A o \in Handler : handling'[o].step = "board" => handling'[o] = handling[o]
  BY <1>1, RefuseIs
<1>8. HandoffShapes'
  BY <1>1, <1>4, <1>6, <1>7, KeyIs DEF HandoffShapes, papers
<1>9. \A o \in Handler : handling'[o].step = "board" => Filed(handling[o].request)'
  BY <1>1, <1>7 DEF HandoffIInv, Filed
<1>10. \A r \in answered' : Filed(r)' /\ KeyOf(r) \in posted'
  BY <1>1, <1>4, <1>5 DEF HandoffIInv, Filed
<1>11. \A id \in ReturnId, choice \in {"accepted", "rejected"} :
          <<"decision", id, choice>> \in posted' => inbox'[id] # Nothing /\ inbox'[id].decision = choice
  BY <1>1, <1>4, <1>5, KeyIs DEF HandoffIInv, Filed
<1>12. (\A h \in Handoff : BindingFits(h)') /\ (\A id \in ReturnId : ItemFits(inbox[id])')
  BY <1>1, PapersRest
<1> QED
  BY <1>8, <1>9, <1>10, <1>11, <1>12 DEF HandoffIInv

LEMMA DeathStep == ASSUME HandoffIInv, HandlersDie PROVE HandoffIInv'
<1>1. /\ HandoffShapes /\ UNCHANGED <<ground, inbox, posted, jobs, answered>> /\ UNCHANGED papers
      /\ handling' = [p \in Handler |-> Free]
  BY DEF HandoffIInv, HandlersDie
<1>2. \A o \in Handler : handling'[o].step # "board"
  BY <1>1 DEF Free
<1>3. HandoffShapes'
  BY <1>1 DEF HandoffShapes, papers
<1> QED
  BY <1>1, <1>2, <1>3, PapersRest, SameInbox, InboxMoves

LEMMA HandoffStart == HandoffInit => HandoffIInv
<1> SUFFICES ASSUME HandoffInit PROVE HandoffIInv
  OBVIOUS
<1>1. PICK none : none = <<>>
  OBVIOUS
<1>2. none \in Events
  BY <1>1 DEF Events
<1>3. HandoffShapes
  BY <1>1, <1>2 DEF HandoffInit, HandoffShapes, NotIssued, Ground
<1>4. \A h \in Handoff : BindingFits(h)
  BY DEF HandoffInit, BindingFits
<1>5. \A id \in ReturnId : ItemFits(inbox[id])
  BY DEF HandoffInit, ItemFits
<1>6. \A p \in Handler : handling[p].step # "board"
  BY DEF HandoffInit, Free
<1> QED
  BY <1>3, <1>4, <1>5, <1>6 DEF HandoffInit, HandoffIInv

LEMMA HandoffStep == HandoffIInv /\ [HandoffNext]_handoffVars => HandoffIInv'
<1> SUFFICES ASSUME HandoffIInv, [HandoffNext]_handoffVars PROVE HandoffIInv'
  OBVIOUS
<1>1. CASE UNCHANGED handoffVars
  <2>1. HandoffShapes /\ UNCHANGED handoffVars
    BY <1>1 DEF HandoffIInv
  <2> QED
    BY <2>1 DEF HandoffIInv, HandoffShapes, BindingFits, ItemFits, Filed, handoffVars
<1>2. CASE \E h \in Handoff, run \in Run :
              IssueHandoff(h) \/ ReserveDelivery(h, run) \/ BindRun(h, run) \/ Question(h, run)
  BY <1>2, PaperSteps
<1>3. ASSUME NEW p \in Handler, NEW id \in ReturnId, NEW q \in RequestsAbout(id), AcceptRequest(p, q)
      PROVE  HandoffIInv'
  <2>1. q \in Asking
    BY DEF Asking
  <2> QED
    BY <1>3, <2>1, AcceptStep
<1>4. CASE \E p \in Handler : RecordEvent(p) \/ FileReturn(p) \/ FileDecision(p) \/ PostAndAnswer(p)
  BY <1>4, RecordStep, ReturnStep, DecisionStep, PostStep
<1> QED
  BY <1>1, <1>2, <1>3, <1>4, ChangeStep, DeathStep DEF HandoffNext

LEMMA HandoffIsSafe == HandoffIInv => HandoffInv
<1> SUFFICES ASSUME HandoffIInv PROVE HandoffInv
  OBVIOUS
<1>1. HandoffShapes
  BY DEF HandoffIInv
<1>2. \A id \in ReturnId : inbox[id] # Nothing =>
          /\ inbox[id] \in Item /\ inbox[id].handoff \in Handoff /\ ItemFits(inbox[id])
          /\ inbox[id].decision \in {"none", "accepted", "rejected"}
  BY <1>1 DEF HandoffShapes, HandoffIInv, Item
<1>3. \A h \in Handoff : BindingFits(h)
  BY DEF HandoffIInv
<1>4. HandoffTypeOK
  <2>1. \A id \in ReturnId : inbox[id] # Nothing /\ inbox[id].bound => source[inbox[id].handoff] # NotIssued
    BY <1>2, <1>3 DEF ItemFits, BindingFits
  <2>2. \A h \in Handoff : Len(jobs[h]) <= 1
    BY <1>1 DEF HandoffShapes, Events
  <2> QED
    BY <1>2, <1>3, <2>1, <2>2 DEF HandoffTypeOK, BindingFits
<1>5. RunsMatch
  BY <1>2, <1>3 DEF RunsMatch, BindingFits, ItemFits
<1>6. AnsweredIsFiled
  BY DEF AnsweredIsFiled, HandoffIInv, Filed
<1>7. OneDecisionShown
  <2> SUFFICES ASSUME NEW k \in posted, k[1] = "decision" PROVE inbox[k[2]].decision = k[3]
    BY DEF OneDecisionShown
  <2>1. k \in PostKey
    BY <1>1 DEF HandoffShapes
  <2>2. PICK id \in ReturnId, choice \in {"accepted", "rejected"} : k = <<"decision", id, choice>>
    BY <2>1 DEF PostKey
  <2> QED
    BY <2>2 DEF HandoffIInv
<1> QED
  BY <1>4, <1>5, <1>6, <1>7 DEF HandoffInv

\* However runs race for a handoff, requests are repeated and handlers die: one run works
\* on it, bound returns are that run's, and what was answered is filed and shown as it was
\* decided (issue, bind_run, receive_return, decide_return).
THEOREM HandoffsAreAnsweredOnce == HandoffSpec => []HandoffInv
<1>1. HandoffSpec => []HandoffIInv
  BY HandoffStart, HandoffStep, PTL DEF HandoffSpec
<1> QED
  BY <1>1, HandoffIsSafe, PTL

(***************************************************************************)
(* Migration: the inductive invariant                                       *)
(***************************************************************************)

MaybeText == Text \cup {Absent}
Stages == {"planned", "received", "staged", "bundled", "reported", "published", "committing"}
Made ==
    {<<"bundle", e>> : e \in Edition} \cup {<<"report", e>> : e \in Edition}
        \cup {<<"artifact", x>> : x \in Text}
Backup ==
    [nodes : [Page -> MaybeText], records : [Page -> Record \cup {Absent}],
     content : [Page -> MaybeText], artifacts : SUBSET Text, kept : SUBSET Edition]
Attempt ==
    [at : Stages, edition : Edition, plan : Plan, from : [Page -> MaybeText],
     made : SUBSET Made, backup : Backup \cup {Absent}]
Entry ==
    [status : {"none", "received", "staged", "committing", "committed", "rolled_back"},
     backup : Backup \cup {Absent}]

MigrationShapes ==
    /\ nodes \in [Page -> MaybeText] /\ content \in [Page -> MaybeText] /\ hidden \subseteq Page
    /\ records \in [Page -> Record \cup {Absent}] /\ entries \in [Edition -> Entry]
    /\ artifacts \subseteq Text /\ kept \subseteq Edition /\ reports \in [Edition -> Plan \cup {Absent}]
    /\ attempt \in {NoAttempt} \cup Attempt
    /\ review # Absent => review.edition \in Edition

\* A page has a node when it has a source record.
PageFits(s) ==
    /\ nodes[s] = Absent <=> records[s] = Absent
    /\ s \in hidden => nodes[s] # Absent
    /\ content[s] # Absent => content[s] \in artifacts

\* A backup that was taken before an edition came.
Precedes(b, e) ==
    \A s \in Page :
        /\ b.records[s] = Absent \/ b.records[s].edition # e
        /\ b.content[s] # Absent => b.content[s] \in b.artifacts

EntryFits(e) ==
    /\ Committed(e) => e \in kept /\ reports[e] # Absent
    /\ ~Committed(e) => \A s \in Page : records[s] = Absent \/ records[s].edition # e
    /\ entries[e].backup # Absent => Precedes(entries[e].backup, e)

\* What a commit planned for a page, against what the page has become since.
PlanFits(a, s) ==
    /\ a.plan[s] = "new" <=> records[s] = Absent
    /\ a.plan[s] = "update" /\ a.from[s] # Absent =>
          a.from[s] \in {records[s].target, review.choices[s].token}

\* What a commit has done so far is there, and what it may remove is its own.
DoneFits(a) ==
    /\ a.at \in {"bundled", "reported", "published", "committing"} => a.edition \in kept
    /\ a.at \in {"reported", "published", "committing"} => reports[a.edition] # Absent
    /\ a.at \in {"published", "committing"} =>
          \A s \in Page : a.plan[s] \in {"new", "update"} => Draft(a.edition, s) \in artifacts
    /\ a.backup # Absent => Precedes(a.backup, a.edition)
    /\ \A e \in Edition : <<"bundle", e>> \in a.made \/ <<"report", e>> \in a.made => e = a.edition
    /\ \A s \in Page : content[s] # Absent => <<"artifact", content[s]>> \notin a.made

AttemptFits(a) == ~Committed(a.edition) /\ (\A s \in Page : PlanFits(a, s)) /\ DoneFits(a)

MigrationIInv ==
    /\ MigrationShapes
    /\ \A s \in Page : PageFits(s)
    /\ \A e \in Edition : EntryFits(e)
    /\ attempt.at # "idle" => AttemptFits(attempt)

LEMMA AttemptIs ==
    ASSUME MigrationShapes, attempt.at # "idle" PROVE attempt \in Attempt
BY DEF MigrationShapes, NoAttempt

LEMMA IdleIs == NoAttempt.at = "idle"
BY DEF NoAttempt

LEMMA DiffIs ==
    ASSUME NEW e, NEW s
    PROVE  /\ Diff(e, s) \in {"new", "missing", "noop", "conflict", "update"}
           /\ Diff(e, s) = "new" <=> records[s] = Absent
           /\ Diff(e, s) = "missing" => ~Listed(s)
           /\ Diff(e, s) = "update" => nodes[s] = records[s].target
<1>1. CASE records[s] = Absent
  BY <1>1 DEF Diff
<1>2. CASE records[s] # Absent /\ ~Listed(s)
  BY <1>2 DEF Diff
<1>3. CASE records[s] # Absent /\ Listed(s)
  BY <1>3 DEF Diff
<1> QED
  BY <1>1, <1>2, <1>3

LEMMA ResolvedIs ==
    ASSUME NEW e, NEW s, NEW choice
    PROVE  /\ Resolved(e, s, choice) \in {"new", "update", "keep", "noop"}
           /\ Resolved(e, s, choice) = "new" <=> records[s] = Absent
           /\ Resolved(e, s, choice) = "update" => Diff(e, s) \in {"conflict", "missing", "update"}
<1>1. PICK diff \in {"new", "missing", "noop", "conflict", "update"} : diff = Diff(e, s)
  BY DiffIs
<1>2. Resolved(e, s, choice) =
        CASE diff = "conflict" /\ choice.action = "keep" -> "keep"
          [] diff \in {"conflict", "missing"} -> "update"
          [] OTHER -> diff
  BY <1>1 DEF Resolved
<1>3. CASE diff \in {"conflict", "missing"}
  BY <1>1, <1>2, <1>3, DiffIs
<1>4. CASE diff \in {"new", "noop", "update"}
  BY <1>1, <1>2, <1>4, DiffIs
<1> QED
  BY <1>1, <1>3, <1>4

\* A decision that still fits, on a page with a text the import would overwrite, was
\* made on this text.
LEMMA DecisionsAreSeen ==
    ASSUME NEW e, NEW s, NEW choice, Fresh(e, s, choice), Resolved(e, s, choice) = "update",
           Token(s) # Absent
    PROVE  Token(s) \in {records[s].target, choice.token}
<1>1. Listed(s) /\ Token(s) = nodes[s]
  BY DEF Token
<1>2. Diff(e, s) \in {"conflict", "update"}
  BY <1>1, DiffIs, ResolvedIs
<1>3. CASE Diff(e, s) = "conflict"
  BY <1>3 DEF Fresh
<1>4. CASE Diff(e, s) = "update"
  BY <1>1, <1>4, DiffIs
<1> QED
  BY <1>2, <1>3, <1>4

LEMMA StatusSet ==
    ASSUME MigrationShapes, NEW e \in Edition, NEW backup \in Backup \cup {Absent},
           NEW status \in {"none", "received", "staged", "committing", "committed", "rolled_back"},
           SetStatus(e, status, backup)
    PROVE  /\ entries' \in [Edition -> Entry]
           /\ entries'[e].status = status /\ entries'[e].backup = backup
           /\ \A o \in Edition : o # e => entries'[o] = entries[o]
<1>1. PICK entry : entry = [status |-> status, backup |-> backup]
  OBVIOUS
<1>2. entry \in Entry /\ entry.status = status /\ entry.backup = backup
  BY <1>1 DEF Entry
<1>3. entries' = [entries EXCEPT ![e] = entry]
  BY <1>1 DEF SetStatus
<1> QED
  BY <1>2, <1>3 DEF MigrationShapes

-----------------------------------------------------------------------------
(* A commit goes on: files and the batch of its edition change, no page does. *)

PagesRest == UNCHANGED <<nodes, hidden, records, content, review>>
FilesGrow ==
    /\ artifacts \subseteq artifacts' /\ kept \subseteq kept'
    /\ \A e \in Edition : reports[e] # Absent => reports'[e] # Absent
FileShapes ==
    /\ entries \in [Edition -> Entry] /\ artifacts \subseteq Text /\ kept \subseteq Edition
    /\ reports \in [Edition -> Plan \cup {Absent}]
EntryMoves(edition) ==
    \A e \in Edition :
        \/ entries'[e] = entries[e]
        \/ /\ e = edition /\ entries'[e].status # "committed"
           /\ entries'[e].backup # Absent => Precedes(entries'[e].backup, e)

LEMMA EntriesHold ==
    ASSUME MigrationIInv, PagesRest, FilesGrow, NEW edition \in Edition, ~Committed(edition),
           EntryMoves(edition), NEW e \in Edition
    PROVE  EntryFits(e)' /\ (e = edition => ~Committed(e)')
<1>1. EntryFits(e) /\ UNCHANGED records
  BY DEF MigrationIInv, PagesRest
<1>2. CASE entries'[e] = entries[e]
  BY <1>1, <1>2 DEF EntryFits, Committed, FilesGrow
<1>3. CASE /\ e = edition /\ entries'[e].status # "committed"
           /\ entries'[e].backup # Absent => Precedes(entries'[e].backup, e)
  BY <1>1, <1>3 DEF EntryFits, Committed, Precedes
<1> QED
  BY <1>2, <1>3 DEF EntryMoves

LEMMA AttemptMoves ==
    ASSUME MigrationIInv, NEW a \in Attempt, a = attempt, NEW new \in Attempt, attempt' = new,
           new.edition = a.edition, new.plan = a.plan, new.from = a.from,
           PagesRest, FilesGrow, FileShapes', EntryMoves(a.edition), DoneFits(new)'
    PROVE  MigrationIInv'
<1>1. a.edition \in Edition /\ a.at # "idle"
  BY DEF Attempt, Stages
<1>2. MigrationShapes /\ AttemptFits(a)
  BY <1>1 DEF MigrationIInv
<1>3. MigrationShapes'
  BY <1>2 DEF MigrationShapes, FileShapes, PagesRest
<1>4. \A e \in Edition : EntryFits(e)'
  BY <1>1, <1>2, EntriesHold DEF AttemptFits
<1>5. \A s \in Page : PageFits(s)'
  BY DEF MigrationIInv, PageFits, PagesRest, FilesGrow
<1>6. ~Committed(new.edition)'
  <2>1. ~Committed(a.edition)'
    BY <1>1, <1>2, EntriesHold DEF AttemptFits
  <2> QED
    BY <2>1 DEF Committed
<1>7. \A s \in Page : PlanFits(new, s)'
  BY <1>2 DEF AttemptFits, PlanFits, PagesRest
<1> QED
  BY <1>3, <1>4, <1>5, <1>6, <1>7 DEF MigrationIInv, AttemptFits

LEMMA Underway ==
    ASSUME MigrationIInv, attempt.at # "idle"
    PROVE  /\ MigrationShapes /\ attempt \in Attempt /\ AttemptFits(attempt) /\ attempt.edition \in Edition
           /\ ~Committed(attempt.edition)
           /\ \A s \in Page : records[s] = Absent \/ records[s].edition # attempt.edition
<1>1. MigrationShapes /\ attempt \in Attempt /\ AttemptFits(attempt)
  BY AttemptIs DEF MigrationIInv
<1>2. attempt.edition \in Edition
  BY <1>1 DEF Attempt
<1> QED
  BY <1>1, <1>2 DEF AttemptFits, MigrationIInv, EntryFits

LEMMA StageReview == ASSUME MigrationIInv, NEW e \in Edition, Stage(e) PROVE MigrationIInv'
<1>1. /\ attempt.at = "idle"
      /\ UNCHANGED <<nodes, hidden, records, content, entries, artifacts, kept, reports, attempt>>
      /\ review'.edition = e
  BY DEF Stage
<1>2. MigrationShapes'
  BY <1>1 DEF MigrationIInv, MigrationShapes
<1> QED
  BY <1>1, <1>2 DEF MigrationIInv, PageFits, EntryFits, Committed

LEMMA ConfirmReview == ASSUME MigrationIInv, Confirm PROVE MigrationIInv'
<1>1. MigrationShapes /\ review # Absent
  BY DEF MigrationIInv, Confirm
<1>2. PICK e \in Edition : e = review.edition
  BY <1>1 DEF MigrationShapes
<1>3. PICK choices : choices = review.choices
  OBVIOUS
<1>4. PICK plan : plan = [s \in Page |-> Resolved(e, s, choices[s])]
  OBVIOUS
<1>5. PICK from : from = [s \in Page |-> Token(s)]
  OBVIOUS
<1>6. /\ ~Committed(e) /\ \A s \in Page : Fresh(e, s, choices[s])
      /\ attempt' = [NoAttempt EXCEPT !.at = "planned", !.edition = e, !.plan = plan, !.from = from]
      /\ UNCHANGED <<nodes, hidden, records, content, entries, artifacts, kept, reports, review>>
  BY <1>2, <1>3, <1>4, <1>5 DEF Confirm
<1>7. plan \in Plan /\ \A s \in Page : plan[s] = Resolved(e, s, choices[s])
  BY <1>4, ResolvedIs DEF Plan
<1>8. from \in [Page -> MaybeText] /\ \A s \in Page : from[s] = Token(s)
  BY <1>1, <1>5 DEF Token, MigrationShapes, MaybeText
<1>9. PICK new : new = [NoAttempt EXCEPT !.at = "planned", !.edition = e, !.plan = plan, !.from = from]
  OBVIOUS
<1>10. new = [at |-> "planned", edition |-> e, plan |-> plan, from |-> from, made |-> {}, backup |-> Absent]
  BY <1>9 DEF NoAttempt
<1>11. /\ attempt' = new /\ new \in Attempt /\ new.at = "planned" /\ new.edition = e
       /\ new.plan = plan /\ new.from = from /\ new.made = {} /\ new.backup = Absent
  <2>1. new \in Attempt
    BY <1>7, <1>8, <1>10 DEF Attempt, Stages
  <2>2. attempt' = new
    BY <1>6, <1>9, Zenon
  <2>3. /\ new.at = "planned" /\ new.edition = e /\ new.plan = plan /\ new.from = from
        /\ new.made = {} /\ new.backup = Absent
    BY <1>10
  <2> QED
    BY <2>1, <2>2, <2>3
<1>12. MigrationShapes'
  BY <1>1, <1>6, <1>11 DEF MigrationShapes
<1>13. ASSUME NEW s \in Page PROVE PlanFits(new, s)'
  <2>1. PICK choice : choice = choices[s]
    OBVIOUS
  <2>2. new.plan[s] = Resolved(e, s, choice) /\ Fresh(e, s, choice) /\ new.from[s] = Token(s)
    BY <1>6, <1>7, <1>8, <1>11, <2>1
  <2>3. new.plan[s] = "new" <=> records[s] = Absent
    BY <2>2, ResolvedIs
  <2>4. new.plan[s] = "update" /\ new.from[s] # Absent => new.from[s] \in {records[s].target, choice.token}
    BY <2>2, DecisionsAreSeen
  <2> QED
    BY <1>3, <1>6, <2>1, <2>3, <2>4 DEF PlanFits
<1>14. DoneFits(new)'
  BY <1>11 DEF DoneFits
<1>15. AttemptFits(new)'
  BY <1>6, <1>11, <1>13, <1>14 DEF AttemptFits, Committed
<1> QED
  BY <1>6, <1>11, <1>12, <1>15 DEF MigrationIInv, PageFits, EntryFits, Committed

LEMMA BackupStep == ASSUME MigrationIInv, TakeBackup PROVE MigrationIInv'
<1>1. attempt.at = "planned" /\ UNCHANGED <<nodes, hidden, records, content, artifacts, kept, reports, review>>
  BY DEF TakeBackup
<1>2. PICK a \in Attempt : a = attempt
  BY <1>1, AttemptIs DEF MigrationIInv
<1>3. MigrationShapes /\ a.edition \in Edition /\ AttemptFits(a)
      /\ \A s \in Page : records[s] = Absent \/ records[s].edition # a.edition
  BY <1>1, <1>2, Underway
<1>4. PICK copy : copy = [nodes |-> nodes, records |-> records, content |-> content,
                          artifacts |-> artifacts, kept |-> kept]
  OBVIOUS
<1>5. copy \in Backup
  BY <1>3, <1>4 DEF Backup, MigrationShapes
<1>6. Precedes(copy, a.edition)
  BY <1>3, <1>4 DEF Precedes, MigrationIInv, PageFits
<1>7. PICK new : new = [a EXCEPT !.at = "received", !.backup = copy]
  OBVIOUS
<1>8. /\ new \in Attempt /\ new.at = "received" /\ new.backup = copy /\ new.edition = a.edition
      /\ new.plan = a.plan /\ new.from = a.from /\ new.made = a.made
  BY <1>5, <1>7 DEF Attempt, Stages
<1>9. attempt' = new /\ SetStatus(a.edition, "received", copy)
  BY <1>2, <1>4, <1>7 DEF TakeBackup
<1>10. /\ entries' \in [Edition -> Entry] /\ entries'[a.edition].status = "received"
       /\ entries'[a.edition].backup = copy
       /\ \A o \in Edition : o # a.edition => entries'[o] = entries[o]
  BY <1>3, <1>5, <1>9, StatusSet
<1>11. EntryMoves(a.edition)
  BY <1>6, <1>10 DEF EntryMoves
<1>12. PagesRest /\ FilesGrow /\ FileShapes'
  BY <1>1, <1>3, <1>10 DEF PagesRest, FilesGrow, FileShapes, MigrationShapes
<1>13. DoneFits(new)'
  BY <1>1, <1>3, <1>6, <1>8 DEF AttemptFits, DoneFits
<1> QED
  BY <1>2, <1>8, <1>9, <1>11, <1>12, <1>13, AttemptMoves

\* The batch tells of another step; the files stay.
LEMMA StatusMoves ==
    ASSUME MigrationIInv, NEW a \in Attempt, a = attempt, NEW at \in Stages, NEW status \in {"staged", "committing"},
           at \in {"staged", "committing"}, at = "committing" => a.at = "published",
           SetStatus(a.edition, status, a.backup), attempt' = [a EXCEPT !.at = at],
           UNCHANGED <<nodes, hidden, records, content, artifacts, kept, reports, review>>
    PROVE  MigrationIInv'
<1>1. a.at # "idle"
  BY DEF Attempt, Stages
<1>2. MigrationShapes /\ a.edition \in Edition /\ AttemptFits(a)
  BY <1>1, Underway
<1>3. PICK new : new = [a EXCEPT !.at = at]
  OBVIOUS
<1>4. /\ new \in Attempt /\ new.at = at /\ new.backup = a.backup /\ new.edition = a.edition
      /\ new.plan = a.plan /\ new.from = a.from /\ new.made = a.made /\ a.backup \in Backup \cup {Absent}
  BY <1>3 DEF Attempt
<1>5. /\ entries' \in [Edition -> Entry] /\ entries'[a.edition].status = status
      /\ entries'[a.edition].backup = a.backup
      /\ \A o \in Edition : o # a.edition => entries'[o] = entries[o]
  BY <1>2, <1>4, StatusSet
<1>6. EntryMoves(a.edition)
  BY <1>2, <1>5 DEF EntryMoves, AttemptFits, DoneFits
<1>7. PagesRest /\ FilesGrow /\ FileShapes'
  BY <1>2, <1>5 DEF PagesRest, FilesGrow, FileShapes, MigrationShapes
<1>8. DoneFits(new)'
  BY <1>2, <1>4 DEF AttemptFits, DoneFits
<1> QED
  BY <1>3, <1>4, <1>6, <1>7, <1>8, AttemptMoves

LEMMA StatusSteps == ASSUME MigrationIInv, StageFiles \/ MarkCommitting PROVE MigrationIInv'
<1>1. PICK a \in Attempt : a = attempt
  BY AttemptIs DEF MigrationIInv, StageFiles, MarkCommitting
<1>2. CASE StageFiles
  BY <1>1, <1>2, StatusMoves DEF StageFiles, Stages
<1>3. CASE MarkCommitting
  BY <1>1, <1>3, StatusMoves DEF MarkCommitting, Stages
<1> QED
  BY <1>2, <1>3

\* Files are published; those that were not there are the attempt's own.
LEMMA FileMoves ==
    ASSUME MigrationIInv, NEW a \in Attempt, a = attempt, NEW at \in Stages, NEW more \in SUBSET Made,
           attempt' = [a EXCEPT !.at = at, !.made = @ \cup more],
           UNCHANGED <<nodes, hidden, records, content, entries, review>>, FilesGrow, FileShapes',
           at \in {"bundled", "reported", "published", "committing"} => a.edition \in kept',
           at \in {"reported", "published", "committing"} => reports'[a.edition] # Absent,
           at \in {"published", "committing"} =>
               \A s \in Page : a.plan[s] \in {"new", "update"} => Draft(a.edition, s) \in artifacts',
           \A e \in Edition : <<"bundle", e>> \in more \/ <<"report", e>> \in more => e = a.edition,
           \A s \in Page : content[s] # Absent => <<"artifact", content[s]>> \notin more
    PROVE  MigrationIInv'
<1>1. a.at # "idle"
  BY DEF Attempt, Stages
<1>2. MigrationShapes /\ a.edition \in Edition /\ AttemptFits(a)
  BY <1>1, Underway
<1>3. PICK made : made = a.made \cup more
  OBVIOUS
<1>4. PICK new : new = [a EXCEPT !.at = at, !.made = made]
  OBVIOUS
<1>5. attempt' = new
  BY <1>3, <1>4
<1>6. made \in SUBSET Made
  BY <1>3 DEF Attempt
<1>7. /\ new \in Attempt /\ new.at = at /\ new.backup = a.backup /\ new.edition = a.edition
      /\ new.plan = a.plan /\ new.from = a.from /\ new.made = made
  BY <1>4, <1>6 DEF Attempt
<1>8. DoneFits(new)'
  BY <1>2, <1>3, <1>7 DEF AttemptFits, DoneFits
<1>9. EntryMoves(a.edition) /\ PagesRest
  BY DEF EntryMoves, PagesRest
<1> QED
  BY <1>5, <1>7, <1>8, <1>9, AttemptMoves

LEMMA BundleStep == ASSUME MigrationIInv, PublishBundle PROVE MigrationIInv'
<1>1. attempt.at = "staged" /\ kept' = kept \cup {attempt.edition}
      /\ UNCHANGED <<nodes, hidden, records, content, entries, artifacts, reports, review>>
  BY DEF PublishBundle
<1>2. PICK a \in Attempt : a = attempt
  BY <1>1, AttemptIs DEF MigrationIInv
<1>3. PICK more : more = {<<"bundle", a.edition>>} \ {<<"bundle", e>> : e \in kept}
  OBVIOUS
<1>4. attempt' = [a EXCEPT !.at = "bundled", !.made = @ \cup more]
  BY <1>2, <1>3 DEF PublishBundle
<1>5. MigrationShapes /\ a.edition \in Edition
  BY <1>1, <1>2, Underway
<1>6. more \in SUBSET Made /\ \A e \in Edition : <<"bundle", e>> \in more \/ <<"report", e>> \in more => e = a.edition
  BY <1>3, <1>5 DEF Made
<1>7. \A s \in Page : content[s] # Absent => <<"artifact", content[s]>> \notin more
  BY <1>3
<1>8. FilesGrow /\ FileShapes' /\ a.edition \in kept'
  BY <1>1, <1>2, <1>5 DEF FilesGrow, FileShapes, MigrationShapes
<1>9. "bundled" \in Stages
  BY DEF Stages
<1> QED
  BY <1>1, <1>2, <1>4, <1>6, <1>7, <1>8, <1>9, FileMoves

LEMMA ReportStep == ASSUME MigrationIInv, PublishReport PROVE MigrationIInv'
<1>1. attempt.at = "bundled"
      /\ UNCHANGED <<nodes, hidden, records, content, entries, artifacts, kept, review>>
  BY DEF PublishReport
<1>2. PICK a \in Attempt : a = attempt
  BY <1>1, AttemptIs DEF MigrationIInv
<1>3. PICK more : more = IF reports[a.edition] = Absent THEN {<<"report", a.edition>>} ELSE {}
  OBVIOUS
<1>4. /\ attempt' = [a EXCEPT !.at = "reported", !.made = @ \cup more]
      /\ reports' = [reports EXCEPT ![a.edition] = a.plan]
  BY <1>2, <1>3 DEF PublishReport
<1>5. MigrationShapes /\ a.edition \in Edition /\ AttemptFits(a)
  BY <1>1, <1>2, Underway
<1>6. more \in SUBSET Made /\ \A e \in Edition : <<"bundle", e>> \in more \/ <<"report", e>> \in more => e = a.edition
  BY <1>3, <1>5 DEF Made
<1>7. \A s \in Page : content[s] # Absent => <<"artifact", content[s]>> \notin more
  BY <1>3
<1>8. a.plan \in Plan /\ a.plan # Absent
  BY MigrationAssumption DEF Attempt
<1>9. FilesGrow /\ FileShapes' /\ reports'[a.edition] # Absent
  BY <1>1, <1>4, <1>5, <1>8 DEF FilesGrow, FileShapes, MigrationShapes
<1>10. a.edition \in kept'
  BY <1>1, <1>2, <1>5 DEF AttemptFits, DoneFits
<1>11. "reported" \in Stages
  BY DEF Stages
<1> QED
  BY <1>1, <1>2, <1>4, <1>6, <1>7, <1>9, <1>10, <1>11, FileMoves

LEMMA ArtifactStep == ASSUME MigrationIInv, PublishArtifacts PROVE MigrationIInv'
<1>1. attempt.at = "reported"
      /\ UNCHANGED <<nodes, hidden, records, content, entries, kept, reports, review>>
  BY DEF PublishArtifacts
<1>2. PICK a \in Attempt : a = attempt
  BY <1>1, AttemptIs DEF MigrationIInv
<1>3. PICK texts : texts = {Draft(a.edition, s) : s \in Written}
  OBVIOUS
<1>4. PICK more : more = {<<"artifact", x>> : x \in texts \ artifacts}
  OBVIOUS
<1>5. attempt' = [a EXCEPT !.at = "published", !.made = @ \cup more] /\ artifacts' = artifacts \cup texts
  BY <1>2, <1>3, <1>4 DEF PublishArtifacts
<1>6. MigrationShapes /\ a.edition \in Edition /\ AttemptFits(a)
  BY <1>1, <1>2, Underway
<1>7. texts \subseteq Text
  BY <1>3, <1>6, MigrationAssumption DEF Draft, Written
<1>8. more \in SUBSET Made /\ \A e \in Edition : <<"bundle", e>> \notin more /\ <<"report", e>> \notin more
  BY <1>4, <1>7 DEF Made
<1>9. \A s \in Page : content[s] # Absent => <<"artifact", content[s]>> \notin more
  BY <1>4 DEF MigrationIInv, PageFits
<1>10. FilesGrow /\ FileShapes'
  BY <1>1, <1>5, <1>6, <1>7 DEF FilesGrow, FileShapes, MigrationShapes
<1>11. \A s \in Page : a.plan[s] \in {"new", "update"} => Draft(a.edition, s) \in artifacts'
  BY <1>2, <1>3, <1>5 DEF Written
<1>12. a.edition \in kept' /\ reports'[a.edition] # Absent
  BY <1>1, <1>2, <1>6 DEF AttemptFits, DoneFits
<1>13. "published" \in Stages
  BY DEF Stages
<1> QED
  BY <1>1, <1>2, <1>5, <1>8, <1>9, <1>10, <1>11, <1>12, <1>13, FileMoves

LEMMA CommitStep == ASSUME MigrationIInv, Commit PROVE MigrationIInv'
<1>1. attempt.at = "committing" /\ Applicable /\ attempt' = NoAttempt
      /\ UNCHANGED <<hidden, artifacts, kept, reports, review>>
  BY DEF Commit
<1>2. PICK a \in Attempt : a = attempt
  BY <1>1, AttemptIs DEF MigrationIInv
<1>3. MigrationShapes /\ a.edition \in Edition /\ AttemptFits(a)
      /\ \A s \in Page : records[s] = Absent \/ records[s].edition # a.edition
  BY <1>1, <1>2, Underway
<1>4. PICK e \in Edition : e = a.edition
  BY <1>3
<1>5. PICK after : after = [s \in Page |-> IF s \in Written THEN Draft(e, s) ELSE nodes[s]]
  OBVIOUS
<1>6. /\ nodes' = after
      /\ records' = [s \in Page |-> IF a.plan[s] = "noop" THEN records[s]
                                    ELSE [source |-> Draft(e, s), target |-> after[s], edition |-> e]]
      /\ content' = [s \in Page |-> IF s \in Written THEN Draft(e, s) ELSE content[s]]
      /\ SetStatus(e, "committed", a.backup)
  BY <1>2, <1>4, <1>5 DEF Commit
<1>7. a.backup \in Backup \cup {Absent} /\ a.plan \in Plan
  BY DEF Attempt
<1>8. /\ entries' \in [Edition -> Entry] /\ entries'[e].status = "committed" /\ entries'[e].backup = a.backup
      /\ \A o \in Edition : o # e => entries'[o] = entries[o]
  BY <1>3, <1>6, <1>7, StatusSet
<1>9. ASSUME NEW s \in Page
      PROVE  /\ after[s] \in MaybeText /\ (s \in Written => after[s] = Draft(e, s))
             /\ (s \notin Written => after[s] = nodes[s])
             /\ (a.plan[s] # "noop" => after[s] \in Text) /\ Draft(e, s) \in Text
             /\ s \in Written <=> a.plan[s] \in {"new", "update"}
             /\ a.plan[s] \in {"new", "update", "keep", "noop"}
  <2>1. s \in Written <=> a.plan[s] \in {"new", "update"}
    BY <1>2 DEF Written
  <2>2. Draft(e, s) \in Text /\ nodes[s] \in MaybeText
    BY <1>3, MigrationAssumption DEF Draft, MigrationShapes
  <2>3. a.plan[s] \in {"new", "update", "keep", "noop"}
    BY <1>7 DEF Plan
  <2>4. a.plan[s] = "keep" => nodes[s] # Absent
    BY <1>1, <1>2 DEF Applicable, Listed
  <2> QED
    BY <1>5, <2>1, <2>2, <2>3, <2>4 DEF MaybeText
<1>10. ASSUME NEW s \in Page
       PROVE  /\ a.plan[s] = "noop" => records'[s] = records[s] /\ nodes'[s] = nodes[s]
              /\ a.plan[s] # "noop" => /\ records'[s] \in Record /\ records'[s] # Absent /\ records'[s].edition = e
                                       /\ nodes'[s] # Absent
  <2>1. a.plan[s] = "noop" => records'[s] = records[s] /\ nodes'[s] = nodes[s]
    BY <1>6, <1>9
  <2>2. CASE a.plan[s] # "noop"
    <3>1. PICK new : new = [source |-> Draft(e, s), target |-> after[s], edition |-> e]
      OBVIOUS
    <3>2. new \in Record /\ new.edition = e
      BY <1>9, <2>2, <3>1 DEF Record
    <3>3. records'[s] = new
      BY <1>6, <2>2, <3>1
    <3>4. after[s] # Absent
      BY <1>9, <2>2, MigrationAssumption
    <3> QED
      BY <1>6, <2>2, <3>2, <3>3, <3>4, MigrationAssumption
  <2> QED
    BY <2>1, <2>2
<1>11. MigrationShapes'
  <2>1. nodes' \in [Page -> MaybeText]
    BY <1>5, <1>6, <1>9
  <2>2. content' \in [Page -> MaybeText]
    BY <1>3, <1>6, <1>9 DEF MigrationShapes, MaybeText
  <2>3. records' \in [Page -> Record \cup {Absent}]
    <3>1. \A s \in Page : records'[s] \in Record \cup {Absent}
      BY <1>3, <1>10 DEF MigrationShapes
    <3> QED
      BY <1>6, <3>1
  <2> QED
    BY <1>1, <1>3, <1>8, <2>1, <2>2, <2>3 DEF MigrationShapes
<1>12. \A s \in Page : PageFits(s)'
  <2> SUFFICES ASSUME NEW s \in Page PROVE PageFits(s)'
    OBVIOUS
  <2>1. PageFits(s)
    BY DEF MigrationIInv
  <2>2. content'[s] # Absent => content'[s] \in artifacts
    <3>1. CASE s \in Written
      BY <1>1, <1>2, <1>3, <1>4, <1>6, <1>9, <3>1 DEF AttemptFits, DoneFits
    <3>2. CASE s \notin Written
      BY <1>6, <2>1, <3>2 DEF PageFits
    <3> QED
      BY <3>1, <3>2
  <2>3. (nodes'[s] = Absent <=> records'[s] = Absent) /\ (nodes[s] # Absent => nodes'[s] # Absent)
    BY <1>10, <2>1 DEF PageFits
  <2> QED
    BY <1>1, <2>1, <2>2, <2>3 DEF PageFits
<1>13. \A o \in Edition : EntryFits(o)'
  <2> SUFFICES ASSUME NEW o \in Edition PROVE EntryFits(o)'
    OBVIOUS
  <2>1. EntryFits(o)
    BY DEF MigrationIInv
  <2>2. CASE o = e
    BY <1>1, <1>2, <1>3, <1>4, <1>8, <2>2 DEF EntryFits, Committed, AttemptFits, DoneFits
  <2>3. CASE o # e
    <3>1. \A s \in Page : records'[s] = records[s] \/ records'[s].edition = e
      BY <1>10
    <3> QED
      BY <1>1, <1>8, <2>1, <2>3, <3>1 DEF EntryFits, Committed
  <2> QED
    BY <2>2, <2>3
<1> QED
  BY <1>1, <1>11, <1>12, <1>13, IdleIs DEF MigrationIInv

LEMMA FailStep == ASSUME MigrationIInv, Fail PROVE MigrationIInv'
<1>1. attempt.at # "idle" /\ attempt' = NoAttempt /\ UNCHANGED <<nodes, hidden, records, content, review>>
  BY DEF Fail
<1>2. PICK a \in Attempt : a = attempt
  BY <1>1, AttemptIs DEF MigrationIInv
<1>3. MigrationShapes /\ a.edition \in Edition /\ AttemptFits(a)
      /\ \A s \in Page : records[s] = Absent \/ records[s].edition # a.edition
  BY <1>1, <1>2, Underway
<1>4. /\ artifacts' = {x \in artifacts : <<"artifact", x>> \notin a.made}
      /\ kept' = {e \in kept : <<"bundle", e>> \notin a.made}
      /\ reports' = [e \in Edition |-> IF <<"report", e>> \in a.made THEN Absent ELSE reports[e]]
      /\ UNCHANGED entries \/ SetStatus(a.edition, "rolled_back", a.backup)
  BY <1>2 DEF Fail, Removable
<1>5. a.backup \in Backup \cup {Absent} /\ DoneFits(a) /\ ~Committed(a.edition)
  BY <1>3 DEF Attempt, AttemptFits
<1>6. /\ entries' \in [Edition -> Entry]
      /\ \A e \in Edition :
           \/ entries'[e] = entries[e]
           \/ e = a.edition /\ entries'[e].status # "committed" /\ entries'[e].backup = a.backup
  <2>1. CASE UNCHANGED entries
    BY <1>3, <2>1 DEF MigrationShapes
  <2>2. CASE SetStatus(a.edition, "rolled_back", a.backup)
    BY <1>3, <1>5, <2>2, StatusSet
  <2> QED
    BY <1>4, <2>1, <2>2
<1>7. MigrationShapes'
  BY <1>1, <1>3, <1>4, <1>6 DEF MigrationShapes
<1>8. \A s \in Page : PageFits(s)'
  BY <1>1, <1>4, <1>5 DEF MigrationIInv, PageFits, DoneFits
<1>9. \A e \in Edition : EntryFits(e)'
  <2> SUFFICES ASSUME NEW e \in Edition PROVE EntryFits(e)'
    OBVIOUS
  <2>1. EntryFits(e)
    BY DEF MigrationIInv
  <2>2. CASE entries'[e] = entries[e]
    <3>1. Committed(e) => e # a.edition
      BY <1>5
    <3>2. Committed(e) => e \in kept' /\ reports'[e] # Absent
      BY <1>4, <1>5, <2>1, <3>1 DEF EntryFits, DoneFits
    <3> QED
      BY <1>1, <2>1, <2>2, <3>2 DEF EntryFits, Committed
  <2>3. CASE e = a.edition /\ entries'[e].status # "committed" /\ entries'[e].backup = a.backup
    BY <1>1, <1>3, <1>5, <2>3 DEF EntryFits, Committed, DoneFits
  <2> QED
    BY <1>6, <2>2, <2>3
<1> QED
  BY <1>1, <1>7, <1>8, <1>9, IdleIs DEF MigrationIInv

LEMMA DeathOfCommit == ASSUME MigrationIInv, DieImportingBundle PROVE MigrationIInv'
<1>1. attempt' = NoAttempt
      /\ UNCHANGED <<nodes, hidden, records, content, entries, artifacts, kept, reports, review>>
  BY DEF DieImportingBundle
<1>2. MigrationShapes'
  BY <1>1 DEF MigrationIInv, MigrationShapes
<1> QED
  BY <1>1, <1>2, IdleIs DEF MigrationIInv, PageFits, EntryFits, Committed

LEMMA OwnerStep ==
    ASSUME MigrationIInv, NEW s \in Page, EditNode(s) \/ TrashNode(s) \/ RestoreNode(s)
    PROVE  MigrationIInv'
<1>1. MigrationShapes /\ UNCHANGED <<records, content, entries, artifacts, kept, reports, review, attempt>>
  BY DEF MigrationIInv, EditNode, TrashNode, RestoreNode, Own
<1>2. /\ nodes' \in [Page -> MaybeText] /\ hidden' \subseteq Page
      /\ \A p \in Page : nodes[p] = Absent <=> nodes'[p] = Absent
      /\ \A p \in hidden' : nodes'[p] # Absent
  <2>1. \A p \in hidden : nodes[p] # Absent
    BY <1>1 DEF MigrationIInv, PageFits, MigrationShapes
  <2>2. CASE EditNode(s)
    <3>1. PICK x \in Text : nodes' = [nodes EXCEPT ![s] = x]
      BY <2>2 DEF EditNode
    <3>2. nodes[s] # Absent /\ x # Absent /\ UNCHANGED hidden
      BY <2>2, MigrationAssumption DEF EditNode, Listed
    <3> QED
      BY <1>1, <2>1, <3>1, <3>2 DEF MigrationShapes, MaybeText
  <2>3. CASE TrashNode(s)
    <3>1. nodes[s] # Absent /\ hidden' = hidden \cup {s} /\ UNCHANGED nodes
      BY <2>3 DEF TrashNode, Listed
    <3> QED
      BY <1>1, <2>1, <3>1 DEF MigrationShapes
  <2>4. CASE RestoreNode(s)
    <3>1. hidden' = hidden \ {s} /\ UNCHANGED nodes
      BY <2>4 DEF RestoreNode
    <3> QED
      BY <1>1, <2>1, <3>1 DEF MigrationShapes
  <2> QED
    BY <2>2, <2>3, <2>4
<1>3. MigrationShapes'
  BY <1>1, <1>2 DEF MigrationShapes
<1>4. \A p \in Page : PageFits(p)'
  BY <1>1, <1>2 DEF MigrationIInv, PageFits
<1> QED
  BY <1>1, <1>3, <1>4 DEF MigrationIInv, EntryFits, Committed, AttemptFits, PlanFits, DoneFits

LEMMA MigrationStart == MigrationInit => MigrationIInv
<1> SUFFICES ASSUME MigrationInit PROVE MigrationIInv
  OBVIOUS
<1>1. PICK batch : batch = NoBatch
  OBVIOUS
<1>2. batch \in Entry /\ batch.status = "none" /\ batch.backup = Absent
  BY <1>1 DEF NoBatch, Entry
<1>3. entries = [e \in Edition |-> batch]
  BY <1>1 DEF MigrationInit
<1>4. MigrationShapes
  BY <1>2, <1>3 DEF MigrationInit, MigrationShapes, MaybeText
<1>5. \A s \in Page : PageFits(s)
  BY DEF MigrationInit, PageFits
<1>6. \A e \in Edition : EntryFits(e)
  BY <1>2, <1>3 DEF MigrationInit, EntryFits, Committed
<1> QED
  BY <1>4, <1>5, <1>6, IdleIs DEF MigrationInit, MigrationIInv

LEMMA MigrationStep == MigrationIInv /\ [MigrationNext]_migrationVars => MigrationIInv'
<1> SUFFICES ASSUME MigrationIInv, [MigrationNext]_migrationVars PROVE MigrationIInv'
  OBVIOUS
<1>1. CASE UNCHANGED migrationVars
  <2>1. MigrationShapes /\ UNCHANGED migrationVars
    BY <1>1 DEF MigrationIInv
  <2>2. MigrationShapes'
    BY <2>1 DEF MigrationShapes, migrationVars
  <2> QED
    BY <2>1, <2>2 DEF MigrationIInv, PageFits, EntryFits, Committed, AttemptFits, PlanFits, DoneFits, migrationVars
<1>2. CASE StageFiles \/ MarkCommitting
  BY <1>2, StatusSteps
<1> QED
  BY <1>1, <1>2, StageReview, ConfirmReview, BackupStep, BundleStep, ReportStep, ArtifactStep, CommitStep,
     FailStep, DeathOfCommit, OwnerStep DEF MigrationNext

LEMMA MigrationIsSafe == MigrationIInv => MigrationInv
<1> SUFFICES ASSUME MigrationIInv PROVE MigrationInv
  OBVIOUS
<1>1. MigrationShapes
  BY DEF MigrationIInv
<1>2. MigrationTypeOK
  BY <1>1 DEF MigrationTypeOK, MigrationIInv, MigrationShapes, PageFits, MaybeText, Entry
<1>3. CommittedFilesStay
  BY DEF CommittedFilesStay, MigrationIInv, PageFits, EntryFits, Committed
<1>4. RolledBackLeftNothing
  BY DEF RolledBackLeftNothing, MigrationIInv, EntryFits, Committed
<1>5. BackupsPrecede
  BY DEF BackupsPrecede, MigrationIInv, EntryFits, Precedes
<1> QED
  BY <1>2, <1>3, <1>4, <1>5 DEF MigrationInv

\* Wherever imports fail or die and however often they are tried again: what committed
\* editions need stays, a failed attempt leaves no record, and the backup of an edition
\* came before it (AtomicImportService.commit, recover).
THEOREM FailedImportsLeaveNothing == MigrationSpec => []MigrationInv
<1>1. MigrationSpec => []MigrationIInv
  BY MigrationStart, MigrationStep, PTL DEF MigrationSpec
<1> QED
  BY <1>1, MigrationIsSafe, PTL

\* A text that the import did not bring is overwritten only if the owner saw it when
\* deciding so (resolve_conflicts): what is planned from a decision is what it was on.
THEOREM DecisionsPrecedeOverwrites == MigrationSpec => OverwritesAreDecided
<1> DEFINE Decided(s) ==
        nodes'[s] # nodes[s] /\ attempt.at = "committing" /\ attempt'.at = "idle"
            /\ nodes[s] = attempt.from[s] /\ nodes[s] # Absent
          => nodes[s] \in {records[s].target, review.choices[s].token}
<1>1. MigrationIInv /\ [MigrationNext]_migrationVars => [\A s \in Page : Decided(s)]_migrationVars
  <2> SUFFICES ASSUME MigrationIInv, MigrationNext, NEW s \in Page, nodes'[s] # nodes[s],
                      attempt.at = "committing", attempt'.at = "idle",
                      nodes[s] = attempt.from[s], nodes[s] # Absent
               PROVE  nodes[s] \in {records[s].target, review.choices[s].token}
    OBVIOUS
  <2>1. MigrationShapes /\ attempt \in Attempt /\ AttemptFits(attempt)
    BY Underway
  <2>2. PICK a \in Attempt : a = attempt
    BY <2>1
  <2>3. Commit
    <3>1. attempt' # attempt
      OBVIOUS
    <3> QED
      BY <3>1 DEF MigrationNext, Stage, Confirm, TakeBackup, StageFiles, PublishBundle, PublishReport,
           PublishArtifacts, MarkCommitting, Fail, DieImportingBundle, EditNode, TrashNode, RestoreNode, Own
  <2>4. nodes' = [p \in Page |-> IF p \in Written THEN Draft(a.edition, p) ELSE nodes[p]]
    BY <2>2, <2>3 DEF Commit
  <2>5. a.plan[s] \in {"new", "update"}
    BY <2>2, <2>4 DEF Written
  <2>6. PlanFits(a, s) /\ PageFits(s)
    BY <2>1, <2>2 DEF AttemptFits, MigrationIInv
  <2> QED
    BY <2>2, <2>5, <2>6 DEF PlanFits, PageFits
<1>2. MigrationSpec => []MigrationIInv
  BY MigrationStart, MigrationStep, PTL DEF MigrationSpec
<1> QED
  BY <1>1, <1>2, PTL DEF MigrationSpec, OverwritesAreDecided

(***************************************************************************)
(* Backups: the inductive invariant                                         *)
(***************************************************************************)

\* Functions whose domain grows within D.
Partial(D, V) == UNION {[s -> V] : s \in SUBSET D}
Reads == Partial(Part, Nat)
Moment == [parts : [Part -> Nat], receipts : SUBSET Exporter]
Export ==
    [at : {"idle", "looking", "copying", "capturing", "checking", "published", "dead"},
     target : Archive \cup {NoProfile}, seen : Reads, copy : Reads,
     checked : SUBSET File, receipts : SUBSET Exporter]
Archived == [parts : [Part -> Nat], receipts : SUBSET Exporter, by : Exporter]
Restoration == [name : Profile, archive : Archive, at : {"extracting", "verified", "listed"}]
Copied == [parts : Reads, receipts : SUBSET Exporter, quiet : BOOLEAN, listed : BOOLEAN]

WorkspaceShapes ==
    /\ version \in [Part -> Nat] /\ pending \subseteq Exporter /\ moments \subseteq Moment
    /\ export \in [Exporter -> Export]
    /\ archives \in Partial(Archive, Archived)

ProfileShapes ==
    /\ profiles \in Partial(Profile, Copied)
    /\ selected \in Profile \cup {NoProfile}
    /\ restoring \in {NoProfile} \cup Restoration

\* Versions only rise, and the receipts change with the version of the database.
MomentFits(m) ==
    /\ \A p \in Part : m.parts[p] <= version[p]
    /\ m.parts[Database] = version[Database] => m.receipts = pending

\* The moment at which the library came to rest: what was looked at before is not
\* newer, and what was compared again after it is the same.
Meets(m, o) ==
    /\ \A p \in LibraryPart : m.parts[p] = o.seen[p]
    /\ \A p \in File \ Moving : o.seen[p] <= m.parts[p] /\ (p \in o.checked => o.seen[p] = m.parts[p])

ReceiptsMatch(x, o, m) == m.parts[Database] = o.copy[Database] => m.receipts \ {x} = o.receipts

Active(o) == o.at \notin {"idle", "dead"}
ExportFits(x, o) ==
    /\ Active(o) => x \in pending /\ o.target \in Archive
    /\ o.receipts \subseteq Exporter \ {x}
    /\ \A p \in DOMAIN o.seen : o.seen[p] <= version[p]
    /\ \A p \in DOMAIN o.copy : p \notin Moving => p \in DOMAIN o.seen /\ o.copy[p] = o.seen[p]
    /\ Database \in DOMAIN o.copy => \A m \in moments : ReceiptsMatch(x, o, m)
    /\ o.at \in {"looking", "copying", "capturing"} => o.checked = {}
    /\ o.at \in {"copying", "capturing", "checking"} => File \subseteq DOMAIN o.seen
    /\ o.at \in {"capturing", "checking"} => File \subseteq DOMAIN o.copy
    /\ o.at = "checking" => /\ LibraryPart \subseteq DOMAIN o.copy
                            /\ \E m \in moments : Meets(m, o)

ArchiveFits(a) ==
    /\ a.receipts \subseteq Exporter \ {a.by}
    /\ \E m \in moments : (\A p \in Stable : a.parts[p] = m.parts[p]) /\ a.receipts = m.receipts \ {a.by}

ProfileFits(c) ==
    c.listed => /\ c.quiet
                /\ \E t \in DOMAIN archives : c.parts = archives[t].parts /\ c.receipts = archives[t].receipts

RestorationFits(r) ==
    /\ r.name \in DOMAIN profiles /\ r.archive \in DOMAIN archives
    /\ profiles[r.name].receipts = archives[r.archive].receipts
    /\ \A p \in DOMAIN profiles[r.name].parts : profiles[r.name].parts[p] = archives[r.archive].parts[p]
    /\ profiles[r.name].listed <=> r.at = "listed"
    /\ r.at = "verified" => profiles[r.name].quiet /\ DOMAIN profiles[r.name].parts = Part

WorkspaceFits ==
    /\ [parts |-> version, receipts |-> pending] \in moments
    /\ \A m \in moments : MomentFits(m)
    /\ \A x \in Exporter : ExportFits(x, export[x])
    /\ \A t \in DOMAIN archives : ArchiveFits(archives[t])

ProfilesFit ==
    /\ \A n \in DOMAIN profiles : ProfileFits(profiles[n])
    /\ selected # NoProfile => selected \in DOMAIN profiles /\ profiles[selected].listed
    /\ restoring # NoProfile => RestorationFits(restoring)

BackupsIInv == WorkspaceShapes /\ ProfileShapes /\ WorkspaceFits /\ ProfilesFit

Grows(g, f, p, v) ==
    DOMAIN g = DOMAIN f \cup {p} /\ g[p] = v /\ \A q \in DOMAIN f : q # p => g[q] = f[q]

LEMMA AddIs ==
    ASSUME NEW D, NEW V, NEW f \in Partial(D, V), NEW p \in D, NEW v \in V, NEW g, g = Add(f, p, v)
    PROVE  g \in Partial(D, V) /\ Grows(g, f, p, v)
<1>1. PICK s \in SUBSET D : f \in [s -> V]
  BY DEF Partial
<1>2. DOMAIN f = s
  BY <1>1
<1>3. g \in [s \cup {p} -> V]
  BY <1>1, <1>2 DEF Add
<1>4. s \cup {p} \in SUBSET D
  OBVIOUS
<1>5. g \in Partial(D, V)
  BY <1>3, <1>4 DEF Partial
<1> QED
  BY <1>2, <1>3, <1>5 DEF Add, Grows

LEMMA ReadsAre ==
    ASSUME NEW f \in Reads
    PROVE  DOMAIN f \subseteq Part /\ (\A p \in DOMAIN f : f[p] \in Nat) /\ f = [p \in DOMAIN f |-> f[p]]
BY DEF Reads, Partial

LEMMA NoneIsRead == None \in Reads /\ DOMAIN None = {}
<1>1. None \in [{} -> Nat]
  BY DEF None
<1> QED
  BY <1>1 DEF Reads, Partial

LEMMA PartsAre ==
    /\ Database \in Part /\ Database \in File \ Moving /\ File \subseteq Part /\ LibraryPart \subseteq Part
    /\ Part = File \cup LibraryPart /\ LibraryPart \cap File = {}
    /\ Stable \subseteq Part /\ \A p \in Stable : p \in LibraryPart \/ p \in File \ Moving
BY BackupsAssumption DEF Part, File, Stable

-----------------------------------------------------------------------------
(* Versions rise *)

LEMMA MomentsGo ==
    ASSUME BackupsIInv, NEW v \in [Part -> Nat], NEW o \in SUBSET Exporter, Become(v, o),
           \A p \in Part : version[p] <= v[p], v[Database] = version[Database] => o = pending
    PROVE  /\ version' = v /\ pending' = o /\ moments \subseteq moments' /\ moments' \subseteq Moment
           /\ [parts |-> v, receipts |-> o] \in moments'
           /\ \A m \in moments' : m \in moments \/ m = [parts |-> v, receipts |-> o]
           /\ \A m \in moments' : MomentFits(m)'
<1>1. PICK new : new = [parts |-> v, receipts |-> o]
  OBVIOUS
<1>2. /\ version' = v /\ pending' = o /\ moments' = moments \cup {new}
      /\ new \in Moment /\ new.parts = v /\ new.receipts = o
  BY <1>1 DEF Become, Moment
<1>3. version \in [Part -> Nat] /\ moments \subseteq Moment /\ \A m \in moments : MomentFits(m)
  BY DEF BackupsIInv, WorkspaceShapes, WorkspaceFits
<1>4. ASSUME NEW m \in moments PROVE MomentFits(m)'
  <2>1. m.parts \in [Part -> Nat] /\ MomentFits(m)
    BY <1>3 DEF Moment
  <2>2. ASSUME NEW p \in Part PROVE m.parts[p] <= v[p]
    <3>1. m.parts[p] \in Nat /\ version[p] \in Nat /\ v[p] \in Nat
      BY <1>3, <2>1
    <3>2. m.parts[p] <= version[p] /\ version[p] <= v[p]
      BY <2>1 DEF MomentFits
    <3> QED
      BY <3>1, <3>2
  <2>3. m.parts[Database] = v[Database] => m.receipts = o
    <3>1. m.parts[Database] \in Nat /\ version[Database] \in Nat /\ v[Database] \in Nat
      BY <1>3, <2>1, PartsAre
    <3>2. m.parts[Database] <= version[Database] /\ version[Database] <= v[Database]
      BY <2>1, PartsAre DEF MomentFits
    <3>3. m.parts[Database] = v[Database] => m.parts[Database] = version[Database] /\ v[Database] = version[Database]
      BY <3>1, <3>2
    <3> QED
      BY <2>1, <3>3 DEF MomentFits
  <2> QED
    BY <1>2, <2>2, <2>3 DEF MomentFits
<1>5. MomentFits(new)'
  BY <1>2 DEF MomentFits
<1> QED
  BY <1>1, <1>2, <1>3, <1>4, <1>5

\* What an export has read stays true of it.
LEMMA ExportRests ==
    ASSUME BackupsIInv, NEW v \in [Part -> Nat], NEW o \in SUBSET Exporter, Become(v, o),
           \A p \in Part : version[p] <= v[p], v[Database] = version[Database] => o = pending,
           NEW x \in Exporter, NEW old \in Export, ExportFits(x, old), x \in pending => x \in o
    PROVE  ExportFits(x, old)'
<1>1. /\ version' = v /\ pending' = o /\ moments \subseteq moments'
      /\ \A m \in moments' : m \in moments \/ m = [parts |-> v, receipts |-> o]
  BY MomentsGo
<1>2. version \in [Part -> Nat] /\ [parts |-> version, receipts |-> pending] \in moments
  BY DEF BackupsIInv, WorkspaceShapes, WorkspaceFits
<1>3. old.seen \in Reads
  BY DEF Export
<1>4. ASSUME NEW p \in DOMAIN old.seen PROVE old.seen[p] <= v[p]
  <2>1. p \in Part /\ old.seen[p] \in Nat /\ version[p] \in Nat /\ v[p] \in Nat
    BY <1>2, <1>3, ReadsAre
  <2>2. old.seen[p] <= version[p] /\ version[p] <= v[p]
    BY <2>1 DEF ExportFits
  <2> QED
    BY <2>1, <2>2
<1>5. ASSUME Database \in DOMAIN old.copy, NEW m \in moments' PROVE ReceiptsMatch(x, old, m)
  <2>1. CASE m \in moments
    BY <1>5, <2>1 DEF ExportFits
  <2>2. CASE m = [parts |-> v, receipts |-> o]
    <3>1. PICK now : now = [parts |-> version, receipts |-> pending]
      OBVIOUS
    <3>2. ReceiptsMatch(x, old, now)
      BY <1>2, <1>5, <3>1 DEF ExportFits
    <3>3. Database \in DOMAIN old.seen /\ old.copy[Database] = old.seen[Database]
      BY <1>5, PartsAre DEF ExportFits
    <3>4. old.seen[Database] <= version[Database] /\ version[Database] <= v[Database]
      BY <3>3, PartsAre DEF ExportFits
    <3>5. old.seen[Database] \in Nat /\ version[Database] \in Nat /\ v[Database] \in Nat
      BY <1>2, <1>3, <3>3, ReadsAre, PartsAre
    <3>6. v[Database] = old.copy[Database] => version[Database] = old.copy[Database] /\ v[Database] = version[Database]
      BY <3>3, <3>4, <3>5
    <3> QED
      BY <2>2, <3>1, <3>2, <3>6 DEF ReceiptsMatch
  <2> QED
    BY <1>1, <2>1, <2>2
<1>6. (o = o /\ Active(old)) => x \in o /\ old.target \in Archive
  BY DEF ExportFits
<1> QED
  BY <1>1, <1>4, <1>5, <1>6 DEF ExportFits

LEMMA ArchiveRests ==
    ASSUME NEW a, ArchiveFits(a), moments \subseteq moments' PROVE ArchiveFits(a)'
BY DEF ArchiveFits

\* The workspace is written, or a command begins or ends.
LEMMA BecomeMoves ==
    ASSUME BackupsIInv, NEW v \in [Part -> Nat], NEW o \in SUBSET Exporter, Become(v, o),
           \A p \in Part : version[p] <= v[p], v[Database] = version[Database] => o = pending,
           export' \in [Exporter -> Export],
           \A y \in Exporter : \/ export'[y] = export[y] /\ (y \in pending => y \in o)
                               \/ ExportFits(y, export[y])',
           UNCHANGED archives, UNCHANGED profileVars
    PROVE  BackupsIInv'
<1>1. /\ version' = v /\ pending' = o /\ moments \subseteq moments' /\ moments' \subseteq Moment
      /\ [parts |-> v, receipts |-> o] \in moments' /\ \A m \in moments' : MomentFits(m)'
  BY MomentsGo
<1>2. WorkspaceShapes /\ WorkspaceFits /\ ProfileShapes /\ ProfilesFit
  BY DEF BackupsIInv
<1>3. WorkspaceShapes'
  BY <1>1, <1>2 DEF WorkspaceShapes
<1>4. ASSUME NEW y \in Exporter PROVE ExportFits(y, export[y])'
  <2>1. CASE export'[y] = export[y] /\ (y \in pending => y \in o)
    <3>1. PICK old \in Export : old = export[y] /\ old = export'[y]
      BY <1>2, <2>1 DEF WorkspaceShapes
    <3>2. ExportFits(y, old)
      BY <1>2, <3>1 DEF WorkspaceFits
    <3>3. ExportFits(y, old)'
      BY <2>1, <3>2, ExportRests
    <3> QED
      BY <3>1, <3>3 DEF ExportFits
  <2> QED
    BY <2>1
<1>5. \A t \in DOMAIN archives : ArchiveFits(archives[t])'
  BY <1>1, <1>2 DEF WorkspaceFits, ArchiveFits
<1>6. WorkspaceFits'
  BY <1>1, <1>4, <1>5 DEF WorkspaceFits
<1>7. ProfileShapes' /\ ProfilesFit'
  BY <1>2 DEF ProfileShapes, ProfilesFit, ProfileFits, RestorationFits, profileVars
<1> QED
  BY <1>3, <1>6, <1>7 DEF BackupsIInv

LEMMA WriteStep == ASSUME BackupsIInv, NEW p \in Part, Write(p) PROVE BackupsIInv'
<1>1. WorkspaceShapes /\ UNCHANGED <<export, archives>> /\ UNCHANGED profileVars
  BY DEF BackupsIInv, Write
<1>2. PICK v : v = [version EXCEPT ![p] = @ + 1]
  OBVIOUS
<1>3. v \in [Part -> Nat] /\ (\A q \in Part : version[q] <= v[q]) /\ pending \in SUBSET Exporter
  BY <1>1, <1>2 DEF WorkspaceShapes
<1>4. Become(v, pending)
  BY <1>2 DEF Write
<1>5. export' \in [Exporter -> Export]
  BY <1>1 DEF WorkspaceShapes
<1> QED
  BY <1>1, <1>3, <1>4, <1>5, BecomeMoves

\* An export that has read nothing.
Blank(at, target) ==
    [at |-> at, target |-> target, seen |-> None, copy |-> None, checked |-> {}, receipts |-> {}]

LEMMA NoExportIs ==
    ASSUME NEW at \in {"looking", "dead"}, NEW target \in Archive \cup {NoProfile},
           NEW new, new = Blank(at, target)
    PROVE  /\ new \in Export /\ new.at = at /\ new.target = target /\ DOMAIN new.seen = {}
           /\ DOMAIN new.copy = {} /\ new.checked = {} /\ new.receipts = {}
<1>1. new \in Export
  BY NoneIsRead DEF Export, Blank
<1>2. new.at = at /\ new.target = target /\ new.seen = None /\ new.copy = None
  BY DEF Blank
<1>3. new.checked = {} /\ new.receipts = {}
  BY DEF Blank
<1> QED
  BY <1>1, <1>2, <1>3, NoneIsRead

LEMMA CommandSteps ==
    ASSUME BackupsIInv, NEW x \in Exporter, (\E t \in Archive : ReserveExport(x, t)) \/ EndExport(x)
    PROVE  BackupsIInv'
<1>1. WorkspaceShapes /\ UNCHANGED archives /\ UNCHANGED profileVars
  BY DEF BackupsIInv, ReserveExport, EndExport
<1>2. PICK v : v = [version EXCEPT ![Database] = @ + 1]
  OBVIOUS
<1>3. v \in [Part -> Nat] /\ (\A q \in Part : version[q] <= v[q]) /\ v[Database] # version[Database]
  BY <1>1, <1>2, PartsAre DEF WorkspaceShapes
<1>4. \E o \in SUBSET Exporter, new \in Export :
         /\ Become(v, o) /\ export' = [export EXCEPT ![x] = new]
         /\ \A y \in Exporter : y # x /\ y \in pending => y \in o
         /\ new.at # "dead" => x \in o /\ new.target \in Archive
         /\ new.at \in {"looking", "dead"} /\ DOMAIN new.seen = {} /\ DOMAIN new.copy = {}
         /\ new.checked = {} /\ new.receipts = {}
  <2>1. CASE \E t \in Archive : ReserveExport(x, t)
    <3>1. PICK t \in Archive : ReserveExport(x, t)
      BY <2>1
    <3>2. PICK new : new = [NoExport EXCEPT !.at = "looking", !.target = t]
      OBVIOUS
    <3>3. PICK o : o = pending \cup {x}
      OBVIOUS
    <3>4. o \in SUBSET Exporter /\ \A y \in Exporter : y \in pending \/ y = x => y \in o
      BY <1>1, <3>3 DEF WorkspaceShapes
    <3>5. Become(v, o) /\ export' = [export EXCEPT ![x] = new]
      BY <1>2, <3>1, <3>2, <3>3 DEF ReserveExport
    <3>6. /\ new \in Export /\ new.at = "looking" /\ new.target = t /\ DOMAIN new.seen = {}
          /\ DOMAIN new.copy = {} /\ new.checked = {} /\ new.receipts = {}
      <4>1. new = Blank("looking", t)
        BY <3>2 DEF NoExport, Blank
      <4> QED
        BY <4>1, NoExportIs
    <3> QED
      BY <3>4, <3>5, <3>6
  <2>2. CASE EndExport(x)
    <3>1. PICK new : new = [NoExport EXCEPT !.at = "dead"]
      OBVIOUS
    <3>2. new = Blank("dead", NoProfile)
      BY <3>1 DEF NoExport, Blank
    <3>3. PICK o : o = pending \ {x}
      OBVIOUS
    <3>4. o \in SUBSET Exporter /\ \A y \in Exporter : y # x /\ y \in pending => y \in o
      BY <1>1, <3>3 DEF WorkspaceShapes
    <3>5. Become(v, o) /\ export' = [export EXCEPT ![x] = new]
      BY <1>2, <2>2, <3>1, <3>3 DEF EndExport
    <3>6. /\ new \in Export /\ new.at = "dead" /\ DOMAIN new.seen = {}
          /\ DOMAIN new.copy = {} /\ new.checked = {} /\ new.receipts = {}
      BY <3>2, NoExportIs
    <3> QED
      BY <3>4, <3>5, <3>6
  <2> QED
    BY <2>1, <2>2
<1>5. PICK o \in SUBSET Exporter, new \in Export :
         /\ Become(v, o) /\ export' = [export EXCEPT ![x] = new]
         /\ \A y \in Exporter : y # x /\ y \in pending => y \in o
         /\ new.at # "dead" => x \in o /\ new.target \in Archive
         /\ new.at \in {"looking", "dead"} /\ DOMAIN new.seen = {} /\ DOMAIN new.copy = {}
         /\ new.checked = {} /\ new.receipts = {}
  BY <1>4
<1>6. pending' = o
  BY <1>5 DEF Become
<1>7. ExportFits(x, new)'
  BY <1>5, <1>6 DEF ExportFits, Active
<1>8. export' \in [Exporter -> Export] /\ export'[x] = new /\ \A y \in Exporter : y # x => export'[y] = export[y]
  BY <1>1, <1>5 DEF WorkspaceShapes
<1>9. ExportFits(x, export[x])'
  BY <1>7, <1>8 DEF ExportFits
<1>10. \A y \in Exporter : \/ export'[y] = export[y] /\ (y \in pending => y \in o)
                           \/ ExportFits(y, export[y])'
  BY <1>5, <1>8, <1>9
<1> QED
  BY <1>1, <1>3, <1>5, <1>8, <1>10, BecomeMoves

-----------------------------------------------------------------------------
(* An export reads, compares and publishes *)

LEMMA ExportMoves ==
    ASSUME BackupsIInv, NEW x \in Exporter, NEW new \in Export, export' = [export EXCEPT ![x] = new],
           ExportFits(x, new), UNCHANGED <<version, pending, moments, archives>>, UNCHANGED profileVars
    PROVE  BackupsIInv'
<1>1. WorkspaceShapes /\ WorkspaceFits /\ ProfileShapes /\ ProfilesFit
  BY DEF BackupsIInv
<1>2. export' \in [Exporter -> Export] /\ export'[x] = new /\ \A y \in Exporter : y # x => export'[y] = export[y]
  BY <1>1 DEF WorkspaceShapes
<1>3. \A y \in Exporter : ExportFits(y, export[y])'
  BY <1>1, <1>2 DEF WorkspaceFits, ExportFits
<1>4. WorkspaceShapes' /\ WorkspaceFits'
  BY <1>1, <1>2, <1>3 DEF WorkspaceShapes, WorkspaceFits, MomentFits, ArchiveFits
<1>5. ProfileShapes' /\ ProfilesFit'
  BY <1>1 DEF ProfileShapes, ProfilesFit, ProfileFits, RestorationFits, profileVars
<1> QED
  BY <1>4, <1>5 DEF BackupsIInv

LEMMA ExportIs ==
    ASSUME BackupsIInv, NEW x \in Exporter
    PROVE  /\ WorkspaceShapes /\ export[x] \in Export /\ ExportFits(x, export[x])
           /\ export[x].seen \in Reads /\ export[x].copy \in Reads
           /\ version \in [Part -> Nat] /\ \A m \in moments : MomentFits(m) /\ m \in Moment
BY DEF BackupsIInv, WorkspaceShapes, WorkspaceFits, Export

LEMMA ReadAdds ==
    ASSUME NEW f \in Reads, NEW p \in Part, NEW v \in Nat, NEW g, g = Add(f, p, v)
    PROVE  g \in Reads /\ Grows(g, f, p, v)
BY AddIs DEF Reads

\* A part is looked at before it is copied.
LEMMA LookMoves ==
    ASSUME BackupsIInv, NEW x \in Exporter, NEW old \in Export, old = export[x],
           NEW p \in Part, p \notin DOMAIN old.seen, NEW at \in {"looking", "copying", "capturing"},
           old.at \in {"looking", "copying", "capturing"},
           at = "copying" => File \subseteq DOMAIN old.seen \cup {p},
           at = "capturing" => old.at = "capturing",
           export' = [export EXCEPT ![x] = [old EXCEPT !.seen = Add(old.seen, p, version[p]), !.at = at]],
           UNCHANGED <<version, pending, moments, archives>>, UNCHANGED profileVars
    PROVE  BackupsIInv'
<1>1. /\ ExportFits(x, old) /\ old.seen \in Reads /\ version[p] \in Nat /\ version \in [Part -> Nat]
  BY ExportIs
<1>2. PICK seen : seen = Add(old.seen, p, version[p])
  OBVIOUS
<1>3. /\ seen \in Reads /\ DOMAIN seen = DOMAIN old.seen \cup {p} /\ seen[p] = version[p]
      /\ \A q \in DOMAIN old.seen : q # p => seen[q] = old.seen[q]
  <2>1. seen \in Reads /\ Grows(seen, old.seen, p, version[p])
    BY <1>1, <1>2, ReadAdds
  <2> QED
    BY <2>1 DEF Grows
<1>4. PICK new : new = [old EXCEPT !.seen = seen, !.at = at]
  OBVIOUS
<1>5. /\ new \in Export /\ new.seen = seen /\ new.at = at /\ new.copy = old.copy /\ new.target = old.target
      /\ new.receipts = old.receipts /\ new.checked = old.checked
  BY <1>3, <1>4 DEF Export
<1>6. export' = [export EXCEPT ![x] = new]
  BY <1>2, <1>4
<1>7. \A q \in DOMAIN seen : seen[q] <= version[q]
  BY <1>1, <1>3 DEF ExportFits
<1>8. \A q \in DOMAIN old.copy : q \notin Moving => q \in DOMAIN seen /\ old.copy[q] = seen[q]
  BY <1>1, <1>3 DEF ExportFits
<1>9. Active(old) /\ Active(new)
  BY <1>5 DEF Active
<1>10. at = "capturing" => File \subseteq DOMAIN seen /\ File \subseteq DOMAIN old.copy
  BY <1>1, <1>3 DEF ExportFits
<1>11. (Database \in DOMAIN old.copy => \A m \in moments : ReceiptsMatch(x, new, m)) /\ old.checked = {}
  BY <1>1, <1>5 DEF ExportFits, ReceiptsMatch
<1>12. ExportFits(x, new)
  BY <1>1, <1>3, <1>5, <1>7, <1>8, <1>9, <1>10, <1>11 DEF ExportFits
<1> QED
  BY <1>5, <1>6, <1>12, ExportMoves

LEMMA LookSteps ==
    ASSUME BackupsIInv, NEW x \in Exporter, NEW p \in Part, Look(x, p) \/ CaptureLook(x, p)
    PROVE  BackupsIInv'
<1>1. PICK old \in Export : old = export[x]
  BY ExportIs
<1>2. export \in [Exporter -> Export]
  BY DEF BackupsIInv, WorkspaceShapes
<1>3. CASE Look(x, p)
  <2>1. PICK at : at = IF File \subseteq DOMAIN old.seen \cup {p} THEN "copying" ELSE "looking"
    OBVIOUS
  <2>2. /\ old.at = "looking" /\ p \notin DOMAIN old.seen
        /\ UNCHANGED <<version, pending, moments, archives>> /\ UNCHANGED profileVars
    BY <1>1, <1>3 DEF Look
  <2>3. export' = [export EXCEPT ![x] = [old EXCEPT !.seen = Add(old.seen, p, version[p]), !.at = at]]
    BY <1>1, <1>2, <1>3, <2>1 DEF Look
  <2>4. at \in {"looking", "copying", "capturing"} /\ at # "capturing" /\ (at = "copying" => File \subseteq DOMAIN old.seen \cup {p})
    BY <2>1
  <2> QED
    BY <1>1, <2>2, <2>3, <2>4, LookMoves
<1>4. CASE CaptureLook(x, p)
  <2>1. /\ old.at = "capturing" /\ p \notin DOMAIN old.seen
        /\ UNCHANGED <<version, pending, moments, archives>> /\ UNCHANGED profileVars
    BY <1>1, <1>4 DEF CaptureLook
  <2>2. [old EXCEPT !.seen = Add(old.seen, p, version[p])] =
            [old EXCEPT !.seen = Add(old.seen, p, version[p]), !.at = "capturing"]
    BY <2>1 DEF Export
  <2>3. export' = [export EXCEPT ![x] = [old EXCEPT !.seen = Add(old.seen, p, version[p])]]
    BY <1>1, <1>2, <1>4 DEF CaptureLook
  <2>4. export' = [export EXCEPT ![x] = [old EXCEPT !.seen = Add(old.seen, p, version[p]), !.at = "capturing"]]
    BY <2>2, <2>3
  <2> QED
    BY <1>1, <2>1, <2>4, LookMoves
<1> QED
  BY <1>3, <1>4

\* A part is copied as it was when it was looked at.
LEMMA CopyMoves ==
    ASSUME BackupsIInv, NEW x \in Exporter, NEW old \in Export, old = export[x],
           NEW p \in Part, p \notin DOMAIN old.copy, p \in DOMAIN old.seen,
           p \in Moving \/ version[p] = old.seen[p],
           NEW at \in {"copying", "capturing"}, old.at \in {"copying", "capturing"},
           at = "capturing" => File \subseteq DOMAIN old.copy \cup {p},
           NEW receipts, receipts = IF p = Database THEN pending \ {x} ELSE old.receipts,
           export' = [export EXCEPT ![x] = [old EXCEPT !.copy = Add(old.copy, p, version[p]),
                                                       !.receipts = receipts, !.at = at]],
           UNCHANGED <<version, pending, moments, archives>>, UNCHANGED profileVars
    PROVE  BackupsIInv'
<1>1. /\ ExportFits(x, old) /\ old.copy \in Reads /\ version[p] \in Nat
      /\ WorkspaceShapes /\ \A m \in moments : MomentFits(m)
  BY ExportIs
<1>2. PICK copy : copy = Add(old.copy, p, version[p])
  OBVIOUS
<1>3. /\ copy \in Reads /\ DOMAIN copy = DOMAIN old.copy \cup {p} /\ copy[p] = version[p]
      /\ \A q \in DOMAIN old.copy : q # p => copy[q] = old.copy[q]
  <2>1. copy \in Reads /\ Grows(copy, old.copy, p, version[p])
    BY <1>1, <1>2, ReadAdds
  <2> QED
    BY <2>1 DEF Grows
<1>4. receipts \in SUBSET Exporter /\ receipts \subseteq Exporter \ {x}
  BY <1>1 DEF WorkspaceShapes, ExportFits
<1>5. PICK new : new = [old EXCEPT !.copy = copy, !.receipts = receipts, !.at = at]
  OBVIOUS
<1>6. /\ new \in Export /\ new.copy = copy /\ new.at = at /\ new.seen = old.seen /\ new.target = old.target
      /\ new.receipts = receipts /\ new.checked = old.checked
  BY <1>3, <1>4, <1>5 DEF Export
<1>7. export' = [export EXCEPT ![x] = new]
  BY <1>2, <1>5
<1>8. \A q \in DOMAIN copy : q \notin Moving => q \in DOMAIN old.seen /\ copy[q] = old.seen[q]
  BY <1>1, <1>3 DEF ExportFits
<1>9. ASSUME Database \in DOMAIN copy, NEW m \in moments PROVE ReceiptsMatch(x, new, m)
  <2>1. CASE p = Database
    BY <1>1, <1>3, <1>6, <2>1 DEF ReceiptsMatch, MomentFits
  <2>2. CASE p # Database
    BY <1>1, <1>3, <1>6, <1>9, <2>2 DEF ReceiptsMatch, ExportFits
  <2> QED
    BY <2>1, <2>2
<1>10. Active(old) /\ Active(new)
  BY <1>6 DEF Active
<1>11. File \subseteq DOMAIN old.seen /\ old.checked = {}
  BY <1>1 DEF ExportFits
<1>12. ExportFits(x, new)
  BY <1>1, <1>3, <1>4, <1>6, <1>8, <1>9, <1>10, <1>11 DEF ExportFits
<1> QED
  BY <1>6, <1>7, <1>12, ExportMoves

LEMMA CopySteps ==
    ASSUME BackupsIInv, NEW x \in Exporter, NEW p \in Part, Copy(x, p) \/ CaptureCopy(x, p)
    PROVE  BackupsIInv'
<1>1. PICK old \in Export : old = export[x] /\ ExportFits(x, old)
  BY ExportIs
<1>2. export \in [Exporter -> Export]
  BY DEF BackupsIInv, WorkspaceShapes
<1>3. CASE Copy(x, p)
  <2>1. PICK at : at = IF File \subseteq DOMAIN old.copy \cup {p} THEN "capturing" ELSE "copying"
    OBVIOUS
  <2>2. PICK receipts : receipts = IF p = Database THEN pending \ {x} ELSE old.receipts
    OBVIOUS
  <2>3. /\ old.at = "copying" /\ p \in File /\ p \notin DOMAIN old.copy /\ (p \in Moving \/ version[p] = old.seen[p])
        /\ UNCHANGED <<version, pending, moments, archives>> /\ UNCHANGED profileVars
    BY <1>1, <1>3 DEF Copy
  <2>4. export' = [export EXCEPT ![x] = [old EXCEPT !.copy = Add(old.copy, p, version[p]),
                                                    !.receipts = receipts, !.at = at]]
    BY <1>1, <1>2, <1>3, <2>1, <2>2 DEF Copy, Foreign
  <2>5. at \in {"copying", "capturing"} /\ (at = "capturing" => File \subseteq DOMAIN old.copy \cup {p})
    BY <2>1
  <2>6. p \in DOMAIN old.seen
    BY <1>1, <2>3 DEF ExportFits
  <2> QED
    BY <1>1, <2>2, <2>3, <2>4, <2>5, <2>6, CopyMoves
<1>4. CASE CaptureCopy(x, p)
  <2>1. /\ old.at = "capturing" /\ p \in LibraryPart /\ p \in DOMAIN old.seen /\ p \notin DOMAIN old.copy
        /\ version[p] = old.seen[p]
        /\ UNCHANGED <<version, pending, moments, archives>> /\ UNCHANGED profileVars
    BY <1>1, <1>4 DEF CaptureCopy
  <2>2. p # Database /\ File \subseteq DOMAIN old.copy
    BY <1>1, <2>1, PartsAre DEF ExportFits
  <2>3. PICK receipts : receipts = old.receipts
    OBVIOUS
  <2>4. [old EXCEPT !.copy = Add(old.copy, p, version[p])] =
            [old EXCEPT !.copy = Add(old.copy, p, version[p]), !.receipts = receipts, !.at = "capturing"]
    BY <2>1, <2>3 DEF Export
  <2>5. export' = [export EXCEPT ![x] = [old EXCEPT !.copy = Add(old.copy, p, version[p])]]
    BY <1>1, <1>2, <1>4 DEF CaptureCopy
  <2>6. export' = [export EXCEPT ![x] = [old EXCEPT !.copy = Add(old.copy, p, version[p]),
                                                    !.receipts = receipts, !.at = "capturing"]]
    BY <2>4, <2>5
  <2>7. receipts = IF p = Database THEN pending \ {x} ELSE old.receipts
    BY <2>2, <2>3
  <2>8. File \subseteq DOMAIN old.copy \cup {p}
    BY <2>2
  <2> QED
    BY <1>1, <2>1, <2>6, <2>7, <2>8, CopyMoves
<1> QED
  BY <1>3, <1>4

LEMMA RestStep == ASSUME BackupsIInv, NEW x \in Exporter, CaptureRecheck(x) PROVE BackupsIInv'
<1>1. PICK old \in Export : old = export[x] /\ ExportFits(x, old)
  BY ExportIs
<1>2. /\ old.at = "capturing" /\ LibraryPart \subseteq DOMAIN old.copy
      /\ \A p \in LibraryPart : version[p] = old.seen[p]
      /\ UNCHANGED <<version, pending, moments, archives>> /\ UNCHANGED profileVars
  BY <1>1 DEF CaptureRecheck, LibraryRests
<1>3. PICK new : new = [old EXCEPT !.at = "checking"]
  OBVIOUS
<1>4. /\ new \in Export /\ new.copy = old.copy /\ new.at = "checking" /\ new.seen = old.seen
      /\ new.target = old.target /\ new.receipts = old.receipts /\ new.checked = old.checked
  BY <1>3 DEF Export
<1>5. export \in [Exporter -> Export] /\ [parts |-> version, receipts |-> pending] \in moments
  BY DEF BackupsIInv, WorkspaceShapes, WorkspaceFits
<1>6. export' = [export EXCEPT ![x] = new]
  BY <1>1, <1>3, <1>5 DEF CaptureRecheck
<1>7. PICK m \in moments : m.parts = version
  BY <1>5
<1>8. Meets(m, new)
  <2>1. old.checked = {} /\ File \subseteq DOMAIN old.seen /\ \A p \in DOMAIN old.seen : old.seen[p] <= version[p]
    BY <1>1, <1>2 DEF ExportFits
  <2> QED
    BY <1>2, <1>4, <1>7, <2>1 DEF Meets
<1>9. ExportFits(x, new)
  BY <1>1, <1>2, <1>4, <1>8 DEF ExportFits, Active, ReceiptsMatch
<1> QED
  BY <1>2, <1>4, <1>6, <1>9, ExportMoves

LEMMA RecheckStep ==
    ASSUME BackupsIInv, NEW x \in Exporter, NEW p \in Part, Recheck(x, p) PROVE BackupsIInv'
<1>1. PICK old \in Export : old = export[x] /\ ExportFits(x, old) /\ old.seen \in Reads
  BY ExportIs
<1>2. /\ old.at = "checking" /\ p \in File \ Moving /\ version[p] = old.seen[p]
      /\ UNCHANGED <<version, pending, moments, archives>> /\ UNCHANGED profileVars
  BY <1>1 DEF Recheck
<1>3. PICK checked : checked = old.checked \cup {p}
  OBVIOUS
<1>4. PICK new : new = [old EXCEPT !.checked = checked]
  OBVIOUS
<1>5. /\ new \in Export /\ new.copy = old.copy /\ new.at = "checking" /\ new.seen = old.seen
      /\ new.target = old.target /\ new.receipts = old.receipts /\ new.checked = checked
  <2>1. checked \in SUBSET File
    BY <1>2, <1>3 DEF Export
  <2> QED
    BY <1>2, <1>4, <2>1 DEF Export
<1>6. export \in [Exporter -> Export]
  BY DEF BackupsIInv, WorkspaceShapes
<1>7. export' = [export EXCEPT ![x] = new]
  BY <1>1, <1>3, <1>4, <1>6 DEF Recheck
<1>8. PICK m \in moments : Meets(m, old)
  BY <1>1, <1>2 DEF ExportFits
<1>9. Meets(m, new)
  <2>1. m.parts[p] <= version[p] /\ old.seen[p] <= m.parts[p]
    BY <1>2, <1>8, ExportIs DEF MomentFits, Meets
  <2>2. m.parts \in [Part -> Nat] /\ version \in [Part -> Nat]
    BY ExportIs DEF Moment
  <2>3. old.seen[p] = m.parts[p]
    BY <1>2, <2>1, <2>2
  <2> QED
    BY <1>3, <1>5, <1>8, <2>3 DEF Meets
<1>10. ExportFits(x, new)
  BY <1>1, <1>2, <1>5, <1>9 DEF ExportFits, Active, ReceiptsMatch
<1> QED
  BY <1>2, <1>5, <1>7, <1>10, ExportMoves

LEMMA DeathOfExport == ASSUME BackupsIInv, NEW x \in Exporter, DieExporting(x) PROVE BackupsIInv'
<1>1. UNCHANGED <<version, pending, moments, archives>> /\ UNCHANGED profileVars
  BY DEF DieExporting
<1>2. PICK new : new = [NoExport EXCEPT !.at = "dead"]
  OBVIOUS
<1>3. new = Blank("dead", NoProfile)
  BY <1>2 DEF NoExport, Blank
<1>4. /\ new \in Export /\ new.at = "dead" /\ DOMAIN new.seen = {}
      /\ DOMAIN new.copy = {} /\ new.checked = {} /\ new.receipts = {}
  BY <1>3, NoExportIs
<1>5. export' = [export EXCEPT ![x] = new]
  BY <1>2 DEF DieExporting
<1>6. ExportFits(x, new)
  BY <1>4 DEF ExportFits, Active
<1> QED
  BY <1>1, <1>4, <1>5, <1>6, ExportMoves

LEMMA PublishStep == ASSUME BackupsIInv, NEW x \in Exporter, Publish(x) PROVE BackupsIInv'
<1>1. PICK old \in Export : old = export[x] /\ ExportFits(x, old) /\ old.seen \in Reads /\ old.copy \in Reads
  BY ExportIs
<1>2. PICK a : a = [parts |-> old.copy, receipts |-> old.receipts, by |-> x]
  OBVIOUS
<1>3. PICK t : t = old.target
  OBVIOUS
<1>4. /\ old.at = "checking" /\ File \ Moving \subseteq old.checked /\ t \notin DOMAIN archives
      /\ archives' = Add(archives, t, a)
      /\ UNCHANGED <<version, pending, moments>> /\ UNCHANGED profileVars
  BY <1>1, <1>2, <1>3 DEF Publish, Settled, FreeName
<1>5. WorkspaceShapes /\ WorkspaceFits /\ ProfileShapes /\ ProfilesFit
  BY DEF BackupsIInv
<1>6. t \in Archive /\ File \subseteq DOMAIN old.copy /\ LibraryPart \subseteq DOMAIN old.copy
      /\ File \subseteq DOMAIN old.seen
  BY <1>1, <1>3, <1>4 DEF ExportFits, Active
<1>7. old.copy \in [Part -> Nat]
  <2>1. DOMAIN old.copy = Part
    BY <1>1, <1>6, ReadsAre, PartsAre
  <2> QED
    BY <1>1, <2>1 DEF Reads, Partial
<1>8. a \in Archived /\ a.parts = old.copy /\ a.receipts = old.receipts /\ a.by = x
  BY <1>2, <1>7 DEF Archived, Export
<1>9. /\ archives' \in Partial(Archive, Archived)
      /\ DOMAIN archives' = DOMAIN archives \cup {t} /\ archives'[t] = a
      /\ \A s \in DOMAIN archives : archives'[s] = archives[s]
  <2>1. archives \in Partial(Archive, Archived)
    BY <1>5 DEF WorkspaceShapes
  <2> QED
    <3>1. archives' \in Partial(Archive, Archived) /\ Grows(archives', archives, t, a)
      BY <1>4, <1>6, <1>8, <2>1, AddIs
    <3>2. t \notin DOMAIN archives
      BY <1>4
    <3> QED
      BY <3>1, <3>2 DEF Grows
<1>10. ArchiveFits(a)
  <2>1. PICK m \in moments : Meets(m, old)
    BY <1>1, <1>4 DEF ExportFits
  <2>2. ASSUME NEW p \in Stable PROVE old.copy[p] = m.parts[p]
    <3>1. p \in DOMAIN old.copy /\ p \notin Moving
      BY <1>6, PartsAre DEF Stable
    <3>2. old.copy[p] = old.seen[p]
      BY <1>1, <3>1 DEF ExportFits
    <3>3. old.seen[p] = m.parts[p]
      BY <1>4, <2>1, PartsAre DEF Meets
    <3> QED
      BY <3>2, <3>3
  <2>3. Database \in Stable
    BY PartsAre DEF Stable
  <2>4. m.receipts \ {x} = old.receipts
    <3>1. Database \in DOMAIN old.copy /\ old.copy[Database] = m.parts[Database]
      BY <1>6, <2>2, <2>3, PartsAre
    <3> QED
      BY <1>1, <3>1 DEF ExportFits, ReceiptsMatch
  <2>5. a.receipts \subseteq Exporter \ {a.by}
    BY <1>1, <1>8 DEF ExportFits
  <2> QED
    BY <1>8, <2>2, <2>4, <2>5 DEF ArchiveFits
<1>11. PICK new : new = [old EXCEPT !.at = "published"]
  OBVIOUS
<1>12. /\ new \in Export /\ new.copy = old.copy /\ new.at = "published" /\ new.seen = old.seen
       /\ new.target = old.target /\ new.receipts = old.receipts
  BY <1>11 DEF Export
<1>13. /\ export' \in [Exporter -> Export] /\ export'[x] = new
       /\ \A y \in Exporter : y # x => export'[y] = export[y]
  <2>1. export' = [export EXCEPT ![x] = new]
    BY <1>1, <1>5, <1>11 DEF Publish, WorkspaceShapes
  <2> QED
    BY <1>5, <1>12, <2>1 DEF WorkspaceShapes
<1>14. ExportFits(x, new)
  BY <1>1, <1>4, <1>12 DEF ExportFits, Active, ReceiptsMatch
<1>15. \A y \in Exporter : ExportFits(y, export[y])'
  BY <1>4, <1>5, <1>13, <1>14 DEF WorkspaceFits, ExportFits
<1>16. \A s \in DOMAIN archives' : ArchiveFits(archives[s])'
  BY <1>4, <1>5, <1>9, <1>10 DEF WorkspaceFits, ArchiveFits
<1>17. WorkspaceShapes' /\ WorkspaceFits'
  BY <1>4, <1>5, <1>9, <1>13, <1>15, <1>16 DEF WorkspaceShapes, WorkspaceFits, MomentFits
<1>18. ProfileShapes'
  BY <1>4, <1>5 DEF ProfileShapes, profileVars
<1>19. ProfilesFit'
  <2>1. UNCHANGED <<profiles, restoring, selected>>
    BY <1>4 DEF profileVars
  <2>2. \A n \in DOMAIN profiles' : ProfileFits(profiles[n])'
    BY <1>5, <1>9, <2>1 DEF ProfilesFit, ProfileFits
  <2>3. restoring # NoProfile => RestorationFits(restoring)'
    BY <1>5, <1>9, <2>1 DEF ProfilesFit, RestorationFits
  <2> QED
    BY <1>5, <2>1, <2>2, <2>3 DEF ProfilesFit
<1> QED
  BY <1>17, <1>18, <1>19 DEF BackupsIInv

-----------------------------------------------------------------------------
(* Restoring and choosing *)

\* Only profiles change.
LEMMA ProfileMoves ==
    ASSUME BackupsIInv, UNCHANGED workspaceVars, ProfileShapes', ProfilesFit'
    PROVE  BackupsIInv'
<1>1. WorkspaceShapes /\ WorkspaceFits /\ UNCHANGED <<version, pending, moments, export, archives>>
  BY DEF BackupsIInv, workspaceVars
<1>2. WorkspaceShapes'
  BY <1>1 DEF WorkspaceShapes
<1>3. WorkspaceFits'
  BY <1>1 DEF WorkspaceFits, MomentFits, ExportFits, ArchiveFits
<1> QED
  BY <1>2, <1>3 DEF BackupsIInv

LEMMA ProfilesAre ==
    ASSUME BackupsIInv
    PROVE  /\ ProfileShapes /\ ProfilesFit /\ DOMAIN profiles \subseteq Profile
           /\ \A n \in DOMAIN profiles : profiles[n] \in Copied
           /\ DOMAIN archives \subseteq Archive /\ \A t \in DOMAIN archives : archives[t] \in Archived
BY DEF BackupsIInv, ProfileShapes, WorkspaceShapes, Partial

\* The profile that is restored changes.
LEMMA CopyChanges ==
    ASSUME BackupsIInv, NEW n \in DOMAIN profiles, NEW new \in Copied,
           profiles' = [profiles EXCEPT ![n] = new]
    PROVE  /\ profiles' \in Partial(Profile, Copied) /\ DOMAIN profiles' = DOMAIN profiles
           /\ profiles'[n] = new /\ \A o \in DOMAIN profiles : o # n => profiles'[o] = profiles[o]
<1>1. profiles \in Partial(Profile, Copied)
  BY DEF BackupsIInv, ProfileShapes
<1>2. PICK s \in SUBSET Profile : profiles \in [s -> Copied]
  BY <1>1 DEF Partial
<1>3. profiles' \in [s -> Copied]
  BY <1>2
<1> QED
  BY <1>2, <1>3 DEF Partial

LEMMA NoWorkspaceIs == NoWorkspace \in Copied /\ NoWorkspace.parts = None /\ ~NoWorkspace.listed
<1>1. NoWorkspace.parts = None /\ ~NoWorkspace.listed
  BY DEF NoWorkspace
<1>2. NoWorkspace \in Copied
  BY NoneIsRead DEF NoWorkspace, Copied
<1> QED
  BY <1>1, <1>2

LEMMA StartStep ==
    ASSUME BackupsIInv, NEW t \in Archive, NEW n \in Profile, StartRestore(t, n) PROVE BackupsIInv'
<1>1. /\ restoring = NoProfile /\ t \in DOMAIN archives /\ n \notin DOMAIN profiles
      /\ UNCHANGED workspaceVars /\ UNCHANGED selected
  BY DEF StartRestore
<1>2. PICK blank \in Copied : blank = NoWorkspace /\ blank.parts = None /\ ~blank.listed
  BY NoWorkspaceIs
<1>3. PICK c : c = [blank EXCEPT !.receipts = archives[t].receipts]
  OBVIOUS
<1>4. archives[t].receipts \in SUBSET Exporter
  BY <1>1, ProfilesAre DEF Archived
<1>5. /\ c \in Copied /\ c.parts = None /\ c.receipts = archives[t].receipts /\ ~c.listed
      /\ profiles' = Add(profiles, n, c)
  <2>1. c \in Copied /\ c.parts = None /\ c.receipts = archives[t].receipts /\ ~c.listed
    BY <1>2, <1>3, <1>4 DEF Copied
  <2> QED
    BY <1>2, <1>3, <2>1 DEF StartRestore
<1>6. profiles' \in Partial(Profile, Copied) /\ Grows(profiles', profiles, n, c)
  BY <1>5, ProfilesAre, AddIs DEF ProfileShapes
<1>7. /\ DOMAIN profiles' = DOMAIN profiles \cup {n} /\ profiles'[n] = c
      /\ \A o \in DOMAIN profiles : profiles'[o] = profiles[o]
  BY <1>1, <1>6 DEF Grows
<1>8. PICK r : r = [name |-> n, archive |-> t, at |-> "extracting"]
  OBVIOUS
<1>9. restoring' = r /\ r \in Restoration /\ r.name = n /\ r.archive = t /\ r.at = "extracting"
  BY <1>8 DEF StartRestore, Restoration
<1>10. ProfileShapes'
  BY <1>1, <1>6, <1>9, ProfilesAre DEF ProfileShapes
<1>11. archives' = archives
  BY <1>1 DEF workspaceVars
<1>12. \A o \in DOMAIN profiles' : ProfileFits(profiles[o])'
  BY <1>5, <1>7, <1>11, ProfilesAre DEF ProfilesFit, ProfileFits
<1>13. RestorationFits(r)'
  BY <1>1, <1>5, <1>7, <1>9, <1>11, NoneIsRead DEF RestorationFits
<1>14. selected' # NoProfile => selected' \in DOMAIN profiles' /\ profiles'[selected'].listed
  BY <1>1, <1>7, ProfilesAre DEF ProfilesFit
<1>15. ProfilesFit'
  BY <1>9, <1>12, <1>13, <1>14 DEF ProfilesFit
<1> QED
  BY <1>1, <1>10, <1>15, ProfileMoves

\* The restoration goes on; what was chosen before is another profile or done.
LEMMA RestoreMoves ==
    ASSUME BackupsIInv, UNCHANGED workspaceVars, UNCHANGED selected, NEW r \in Restoration, r = restoring,
           restoring # NoProfile, r.at # "listed", NEW next \in Restoration, restoring' = next,
           next.name = r.name, next.archive = r.archive,
           NEW new \in Copied, profiles' = [profiles EXCEPT ![r.name] = new],
           new.receipts = profiles[r.name].receipts,
           \A p \in DOMAIN new.parts : new.parts[p] = archives[r.archive].parts[p],
           new.listed <=> next.at = "listed",
           next.at = "verified" => new.quiet /\ DOMAIN new.parts = Part,
           new.listed => new.quiet /\ DOMAIN new.parts = Part
    PROVE  BackupsIInv'
<1>1. /\ r.name \in DOMAIN profiles /\ r.archive \in DOMAIN archives
      /\ profiles[r.name].receipts = archives[r.archive].receipts /\ ~profiles[r.name].listed
  BY ProfilesAre DEF ProfilesFit, RestorationFits
<1>2. /\ profiles' \in Partial(Profile, Copied) /\ DOMAIN profiles' = DOMAIN profiles
      /\ profiles'[r.name] = new /\ \A o \in DOMAIN profiles : o # r.name => profiles'[o] = profiles[o]
  BY <1>1, CopyChanges
<1>3. archives' = archives
  BY DEF workspaceVars
<1>4. ProfileShapes'
  BY <1>2, ProfilesAre DEF ProfileShapes
<1>5. ProfileFits(new)
  <2> SUFFICES ASSUME new.listed PROVE new.parts = archives[r.archive].parts
    BY <1>1 DEF ProfileFits
  <2>1. archives[r.archive].parts \in [Part -> Nat]
    BY <1>1, ProfilesAre DEF Archived
  <2>2. new.parts \in Reads /\ DOMAIN new.parts = Part
    BY DEF Copied
  <2>3. new.parts = [p \in Part |-> new.parts[p]]
    BY <2>2, ReadsAre
  <2> QED
    BY <2>1, <2>2, <2>3
<1>6. \A o \in DOMAIN profiles' : ProfileFits(profiles[o])'
  BY <1>2, <1>3, <1>5, ProfilesAre DEF ProfilesFit, ProfileFits
<1>7. RestorationFits(next)'
  BY <1>1, <1>2, <1>3 DEF RestorationFits
<1>8. selected' # NoProfile => selected' \in DOMAIN profiles' /\ profiles'[selected'].listed
  <2>1. selected # NoProfile => selected \in DOMAIN profiles /\ profiles[selected].listed /\ selected # r.name
    BY <1>1, ProfilesAre DEF ProfilesFit
  <2> QED
    BY <1>2, <2>1
<1>9. ProfilesFit'
  BY <1>6, <1>7, <1>8 DEF ProfilesFit
<1> QED
  BY <1>4, <1>9, ProfileMoves

LEMMA RestoreIs ==
    ASSUME BackupsIInv, restoring # NoProfile
    PROVE  /\ restoring \in Restoration /\ RestorationFits(restoring)
           /\ profiles[restoring.name] \in Copied /\ archives[restoring.archive] \in Archived
BY ProfilesAre DEF ProfileShapes, ProfilesFit, RestorationFits

LEMMA ExtractStep == ASSUME BackupsIInv, NEW p \in Part, Extract(p) PROVE BackupsIInv'
<1>1. PICK r \in Restoration : r = restoring
  BY RestoreIs DEF Extract
<1>2. /\ restoring # NoProfile /\ r.at = "extracting" /\ RestorationFits(r)
      /\ UNCHANGED workspaceVars /\ UNCHANGED <<restoring, selected>>
  BY <1>1, RestoreIs DEF Extract
<1>3. PICK old \in Copied : old = profiles[r.name]
  BY <1>1, <1>2, RestoreIs
<1>4. PICK v \in Nat : v = archives[r.archive].parts[p]
  BY <1>1, <1>2, RestoreIs DEF Archived
<1>5. PICK parts : parts = Add(old.parts, p, v)
  OBVIOUS
<1>6. parts \in Reads /\ Grows(parts, old.parts, p, v)
  <2>1. old.parts \in Reads
    BY DEF Copied
  <2> QED
    BY <1>5, <2>1, ReadAdds
<1>7. PICK new : new = [old EXCEPT !.parts = parts]
  OBVIOUS
<1>8. new \in Copied /\ new.parts = parts /\ new.receipts = old.receipts /\ new.listed = old.listed
  BY <1>6, <1>7 DEF Copied
<1>9. profiles' = [profiles EXCEPT ![r.name] = new]
  BY <1>1, <1>2, <1>3, <1>4, <1>5, <1>7 DEF Extract, RestorationFits
<1>10. \A q \in DOMAIN new.parts : new.parts[q] = archives[r.archive].parts[q]
  BY <1>2, <1>3, <1>4, <1>6, <1>8 DEF Grows, RestorationFits
<1>11. (new.listed <=> r.at = "listed") /\ ~new.listed
  BY <1>2, <1>3, <1>8 DEF RestorationFits
<1> QED
  BY <1>1, <1>2, <1>3, <1>8, <1>9, <1>10, <1>11, RestoreMoves

LEMMA QuietStep == ASSUME BackupsIInv, QuietCaretaker PROVE BackupsIInv'
<1>1. PICK r \in Restoration : r = restoring
  BY RestoreIs DEF QuietCaretaker
<1>2. /\ restoring # NoProfile /\ r.at = "extracting" /\ RestorationFits(r)
      /\ UNCHANGED workspaceVars /\ UNCHANGED selected
  BY <1>1, RestoreIs DEF QuietCaretaker
<1>3. PICK old \in Copied : old = profiles[r.name]
  BY <1>1, <1>2, RestoreIs
<1>4. PICK new : new = [old EXCEPT !.quiet = TRUE]
  OBVIOUS
<1>5. /\ new \in Copied /\ new.parts = old.parts /\ new.receipts = old.receipts /\ new.listed = old.listed
      /\ new.quiet
  BY <1>4 DEF Copied
<1>6. profiles' = [profiles EXCEPT ![r.name] = new]
  BY <1>1, <1>2, <1>3, <1>4 DEF QuietCaretaker, RestorationFits
<1>7. PICK next : next = [r EXCEPT !.at = "verified"]
  OBVIOUS
<1>8. /\ next \in Restoration /\ restoring' = next /\ next.name = r.name /\ next.archive = r.archive
      /\ next.at = "verified"
  BY <1>1, <1>7 DEF QuietCaretaker, Restoration
<1>9. DOMAIN new.parts = Part
  BY <1>1, <1>3, <1>5 DEF QuietCaretaker, Verified, Restored
<1>10. \A q \in DOMAIN new.parts : new.parts[q] = archives[r.archive].parts[q]
  BY <1>2, <1>3, <1>5 DEF RestorationFits
<1>11. ~new.listed
  BY <1>2, <1>3, <1>5 DEF RestorationFits
<1> QED
  BY <1>1, <1>2, <1>3, <1>5, <1>6, <1>8, <1>9, <1>10, <1>11, RestoreMoves

LEMMA InfoStep == ASSUME BackupsIInv, WriteInfo PROVE BackupsIInv'
<1>1. PICK r \in Restoration : r = restoring
  BY RestoreIs DEF WriteInfo
<1>2. /\ restoring # NoProfile /\ r.at = "verified" /\ RestorationFits(r)
      /\ UNCHANGED workspaceVars /\ UNCHANGED selected
  BY <1>1, RestoreIs DEF WriteInfo
<1>3. PICK old \in Copied : old = profiles[r.name]
  BY <1>1, <1>2, RestoreIs
<1>4. PICK new : new = [old EXCEPT !.listed = TRUE]
  OBVIOUS
<1>5. /\ new \in Copied /\ new.parts = old.parts /\ new.receipts = old.receipts /\ new.quiet = old.quiet
      /\ new.listed
  BY <1>4 DEF Copied
<1>6. profiles' = [profiles EXCEPT ![r.name] = new]
  BY <1>1, <1>2, <1>3, <1>4 DEF WriteInfo, RestorationFits
<1>7. PICK next : next = [r EXCEPT !.at = "listed"]
  OBVIOUS
<1>8. /\ next \in Restoration /\ restoring' = next /\ next.name = r.name /\ next.archive = r.archive
      /\ next.at = "listed"
  BY <1>1, <1>7 DEF WriteInfo, Restoration
<1>9. DOMAIN new.parts = Part /\ new.quiet
  BY <1>2, <1>3, <1>5 DEF RestorationFits
<1>10. \A q \in DOMAIN new.parts : new.parts[q] = archives[r.archive].parts[q]
  BY <1>2, <1>3, <1>5 DEF RestorationFits
<1> QED
  BY <1>1, <1>2, <1>3, <1>5, <1>6, <1>8, <1>9, <1>10, RestoreMoves

\* The restoration ends, or the owner chooses another profile.
LEMMA ChoiceSteps ==
    ASSUME BackupsIInv, \/ SelectRestored \/ DieRestoring \/ ActivateOriginal
                        \/ \E n \in Profile : ActivateProfile(n)
    PROVE  BackupsIInv'
<1>1. UNCHANGED workspaceVars /\ UNCHANGED profiles /\ restoring' \in {NoProfile, restoring}
  BY DEF SelectRestored, DieRestoring, ActivateOriginal, ActivateProfile
<1>2. /\ selected' \in Profile \cup {NoProfile}
      /\ selected' # NoProfile => selected' \in DOMAIN profiles /\ profiles[selected'].listed
  <2>1. CASE SelectRestored
    <3>1. RestorationFits(restoring) /\ restoring \in Restoration /\ selected' = restoring.name /\ restoring.at = "listed"
      BY <2>1, RestoreIs DEF SelectRestored
    <3> QED
      BY <3>1 DEF RestorationFits, Restoration
  <2>2. CASE \E n \in Profile : ActivateProfile(n)
    BY <2>2 DEF ActivateProfile, Choosable
  <2>3. CASE DieRestoring \/ ActivateOriginal
    BY <2>3, ProfilesAre DEF DieRestoring, ActivateOriginal, ProfileShapes, ProfilesFit
  <2> QED
    BY <2>1, <2>2, <2>3
<1>3. archives' = archives
  BY <1>1 DEF workspaceVars
<1>4. ProfileShapes'
  BY <1>1, <1>2, ProfilesAre DEF ProfileShapes
<1>5. ProfilesFit'
  BY <1>1, <1>2, <1>3, ProfilesAre DEF ProfilesFit, ProfileFits, RestorationFits
<1> QED
  BY <1>1, <1>4, <1>5, ProfileMoves

LEMMA FailureStep == ASSUME BackupsIInv, FailRestore PROVE BackupsIInv'
<1>1. PICK r \in Restoration : r = restoring
  BY RestoreIs DEF FailRestore
<1>2. /\ restoring # NoProfile /\ r.at # "listed" /\ RestorationFits(r) /\ restoring' = NoProfile
      /\ UNCHANGED workspaceVars /\ UNCHANGED selected
      /\ profiles' = [n \in DOMAIN profiles \ {r.name} |-> profiles[n]]
  BY <1>1, RestoreIs DEF FailRestore, Restrict
<1>3. profiles' \in Partial(Profile, Copied)
  <2>1. DOMAIN profiles \ {r.name} \in SUBSET Profile /\ \A n \in DOMAIN profiles : profiles[n] \in Copied
    BY ProfilesAre
  <2>2. profiles' \in [DOMAIN profiles \ {r.name} -> Copied]
    BY <1>2, <2>1
  <2> QED
    BY <2>1, <2>2 DEF Partial
<1>4. /\ DOMAIN profiles' = DOMAIN profiles \ {r.name}
      /\ \A n \in DOMAIN profiles' : n \in DOMAIN profiles /\ profiles'[n] = profiles[n]
  BY <1>2
<1>5. archives' = archives
  BY <1>2 DEF workspaceVars
<1>6. ProfileShapes'
  BY <1>2, <1>3, ProfilesAre DEF ProfileShapes
<1>7. \A n \in DOMAIN profiles' : ProfileFits(profiles[n])'
  BY <1>4, <1>5, ProfilesAre DEF ProfilesFit, ProfileFits
<1>8. selected # NoProfile => selected \in DOMAIN profiles /\ profiles[selected].listed /\ selected # r.name
  BY <1>2, ProfilesAre DEF ProfilesFit, RestorationFits
<1>9. ProfilesFit'
  BY <1>2, <1>4, <1>7, <1>8 DEF ProfilesFit
<1> QED
  BY <1>2, <1>6, <1>9, ProfileMoves

LEMMA BackupsStart == BackupsInit => BackupsIInv
<1> SUFFICES ASSUME BackupsInit PROVE BackupsIInv
  OBVIOUS
<1>1. PICK new : new = NoExport
  OBVIOUS
<1>2. /\ new \in Export /\ new.at = "idle" /\ DOMAIN new.seen = {}
      /\ DOMAIN new.copy = {} /\ new.checked = {} /\ new.receipts = {}
  BY <1>1, NoneIsRead DEF NoExport, Export
<1>3. export = [x \in Exporter |-> new]
  BY <1>1 DEF BackupsInit
<1>4. /\ version \in [Part -> Nat] /\ pending = {}
      /\ moments = {[parts |-> version, receipts |-> {}]}
  BY DEF BackupsInit
<1>5. /\ archives \in Partial(Archive, Archived) /\ DOMAIN archives = {}
      /\ profiles \in Partial(Profile, Copied) /\ DOMAIN profiles = {}
  <2>1. archives \in [{} -> Archived] /\ profiles \in [{} -> Copied]
    BY DEF BackupsInit
  <2>2. {} \in SUBSET Archive /\ {} \in SUBSET Profile
    OBVIOUS
  <2> QED
    BY <2>1, <2>2 DEF Partial
<1>6. WorkspaceShapes
  BY <1>2, <1>3, <1>4, <1>5 DEF WorkspaceShapes, Moment
<1>7. ProfileShapes
  BY <1>5 DEF BackupsInit, ProfileShapes
<1>8. \A m \in moments : MomentFits(m)
  <2>1. \A p \in Part : version[p] <= version[p]
    BY <1>4
  <2> QED
    BY <1>4, <2>1 DEF MomentFits
<1>9. \A x \in Exporter : ExportFits(x, export[x])
  BY <1>2, <1>3 DEF ExportFits, Active
<1>10. WorkspaceFits
  BY <1>4, <1>5, <1>8, <1>9 DEF WorkspaceFits
<1>11. ProfilesFit
  BY <1>5 DEF BackupsInit, ProfilesFit
<1> QED
  BY <1>6, <1>7, <1>10, <1>11 DEF BackupsIInv

LEMMA BackupsStep == BackupsIInv /\ [BackupsNext]_backupVars => BackupsIInv'
<1> SUFFICES ASSUME BackupsIInv, [BackupsNext]_backupVars PROVE BackupsIInv'
  OBVIOUS
<1>1. CASE UNCHANGED backupVars
  <2>1. ProfileShapes /\ ProfilesFit /\ UNCHANGED workspaceVars /\ UNCHANGED <<archives, profiles, restoring, selected>>
    BY <1>1, ProfilesAre DEF backupVars, profileVars, workspaceVars
  <2>2. ProfileShapes' /\ ProfilesFit'
    BY <2>1 DEF ProfileShapes, ProfilesFit, ProfileFits, RestorationFits
  <2> QED
    BY <2>1, <2>2, ProfileMoves
<1>2. CASE \E p \in Part : Write(p) \/ Extract(p)
  BY <1>2, WriteStep, ExtractStep
<1>3. CASE \E x \in Exporter, t \in Archive : ReserveExport(x, t)
  BY <1>3, CommandSteps
<1>4. CASE \E x \in Exporter, p \in Part :
              Look(x, p) \/ Copy(x, p) \/ CaptureLook(x, p) \/ CaptureCopy(x, p) \/ Recheck(x, p)
  BY <1>4, LookSteps, CopySteps, RecheckStep
<1>5. CASE \E x \in Exporter : CaptureRecheck(x) \/ Publish(x) \/ EndExport(x) \/ DieExporting(x)
  BY <1>5, RestStep, PublishStep, CommandSteps, DeathOfExport
<1>6. CASE \E t \in Archive, n \in Profile : StartRestore(t, n)
  BY <1>6, StartStep
<1>7. CASE QuietCaretaker \/ WriteInfo \/ FailRestore
  BY <1>7, QuietStep, InfoStep, FailureStep
<1>8. CASE SelectRestored \/ DieRestoring \/ ActivateOriginal \/ \E n \in Profile : ActivateProfile(n)
  BY <1>8, ChoiceSteps
<1> QED
  BY <1>1, <1>2, <1>3, <1>4, <1>5, <1>6, <1>7, <1>8 DEF BackupsNext

LEMMA BackupsAreSafe == BackupsIInv => BackupsInv
<1> SUFFICES ASSUME BackupsIInv PROVE BackupsInv
  OBVIOUS
<1>1. WorkspaceShapes /\ WorkspaceFits
  BY DEF BackupsIInv
<1>2. BackupsTypeOK
  <2>1. \A x \in Exporter :
            /\ export[x].at \in {"idle", "looking", "copying", "capturing", "checking", "published", "dead"}
            /\ export[x].at \notin {"idle", "dead"} => x \in pending
    BY <1>1 DEF WorkspaceShapes, WorkspaceFits, ExportFits, Active, Export
  <2>2. \A t \in DOMAIN archives : archives[t].receipts \subseteq Exporter \ {archives[t].by}
    BY <1>1 DEF WorkspaceFits, ArchiveFits
  <2> QED
    BY <1>1, <2>1, <2>2, ProfilesAre DEF BackupsTypeOK, WorkspaceShapes, ProfileShapes
<1>3. BackupIsOneMoment
  BY <1>1 DEF BackupIsOneMoment, WorkspaceFits, ArchiveFits
<1>4. SelectedIsWhole
  BY ProfilesAre DEF SelectedIsWhole, ProfilesFit, ProfileFits
<1> QED
  BY <1>2, <1>3, <1>4 DEF BackupsInv

\* However writers, exporters, failures and deaths interleave: a published backup is the
\* workspace of one moment, and what the next start opens is a whole copy of one
\* (create_portable_backup, export_workspace, restore_portable_backup).
THEOREM BackupsShowOneMoment == BackupsSpec => []BackupsInv
<1>1. BackupsSpec => []BackupsIInv
  BY BackupsStart, BackupsStep, PTL DEF BackupsSpec
<1> QED
  BY <1>1, BackupsAreSafe, PTL

(***************************************************************************)
(* RoomBoards: the inductive invariant                                      *)
(***************************************************************************)

Fate == {"trashed", "restored", "purged"}

BoardShapes ==
    /\ DOMAIN board = Desk /\ present \subseteq Desk /\ private \in [Desk -> Nat]
    /\ DOMAIN removals = Desk /\ DOMAIN importing = Desk
    /\ boardCount \in [entries : Nat, posts : Nat, changes : Nat, mishaps : Nat]

\* An entry was written once; a marker's key names the version it shows.
WasWritten(e) ==
    /\ e.id \in 1 .. boardCount.entries /\ e.at \in Int /\ e.at <= e.id
    /\ IsMarker(e) => e.key[2] = BodyOf(e.text)

Distinct(rows) ==
    \A x, y \in rows : (x.id = y.id \/ (x.key = y.key /\ x.key # NoKey)) => x = y

\* What is on a board, under way or half merged was written, and no board was ever
\* exported with an entry twice.
EntriesAreWritten ==
    /\ \A d \in Desk : \A e \in board[d] \cup importing[d] : WasWritten(e)
    /\ \A m \in mail : \A e \in m.rows : WasWritten(e)
    /\ \A m \in mail : m.to \in Desk /\ Distinct(m.rows)
    /\ \A m \in mail : m.life # NoRecord => m.life.state \in {"trashed", "restored"}

\* The deletions of a thread that is there, or is not: each but the last was undone.
HistoryFits(past, here) ==
    /\ past \in Seq(Fate)
    /\ \A g \in 1 .. Len(past) : g < Len(past) => past[g] = "restored"
    /\ past # <<>> => (here <=> past[Len(past)] # "purged")

\* A thread that a desk never had was never edited there.
ThreadsFit ==
    \A d \in Desk : /\ HistoryFits(removals[d], d \in present)
                    /\ board[d] # {} => d \in present
                    /\ Missing(d) => private[d] = 0

BoardIInv == BoardShapes /\ EntriesAreWritten /\ ThreadsFit /\ NoCopies

(***************************************************************************)
(* RoomBoards: proofs                                                       *)
(***************************************************************************)

LEMMA BoardStarts == BoardInit => BoardIInv
<1> SUFFICES ASSUME BoardInit PROVE BoardIInv
  OBVIOUS
<1>1. BoardShapes
  BY HubAssumption DEF BoardInit, BoardShapes
<1>2. EntriesAreWritten /\ NoCopies
  BY DEF BoardInit, EntriesAreWritten, NoCopies
<1>3. ThreadsFit
  BY DEF BoardInit, ThreadsFit, HistoryFits, Missing, Fate
<1> QED
  BY <1>1, <1>2, <1>3 DEF BoardIInv

\* The key of an entry that a user wrote is not one of a marker.
LEMMA KeysDiffer ==
    ASSUME NEW e, e.key \in Key \cup {NoKey}
    PROVE  ~IsMarker(e)
<1>1. CASE e.key = NoKey
  BY <1>1 DEF NoKey, IsMarker
<1>2. CASE \E name \in Name : e.key = <<name>>
  BY <1>2 DEF IsMarker
<1> QED
  BY <1>1, <1>2 DEF Key

LEMMA MarkerKeys ==
    ASSUME NEW stored, NEW e, NEW x, x.key = MarkerKey(stored, e)
    PROVE  IsMarker(x) /\ x.key[2] = BodyOf(e)
BY DEF MarkerKey, IsMarker

\* What was written remains written.
LEMMA WrittenStays ==
    ASSUME BoardShapes, BoardShapes', boardCount.entries <= boardCount'.entries, NEW e, WasWritten(e)
    PROVE  WasWritten(e)'
BY DEF BoardShapes, WasWritten

LEMMA CountGrows ==
    ASSUME BoardShapes, NEW field \in {"entries", "posts", "changes", "mishaps"}, Count(field)
    PROVE  /\ boardCount' \in [entries : Nat, posts : Nat, changes : Nat, mishaps : Nat]
           /\ boardCount.entries <= boardCount'.entries
           /\ boardCount' # boardCount
<1> USE DEF BoardShapes, Count
<1>1. boardCount[field] \in Nat /\ boardCount' = [boardCount EXCEPT ![field] = boardCount[field] + 1]
  OBVIOUS
<1>2. boardCount'[field] = boardCount[field] + 1
  BY <1>1
<1>3. CASE field = "entries"
  BY <1>1, <1>3
<1>4. CASE field # "entries"
  BY <1>1, <1>2, <1>4
<1> QED
  BY <1>3, <1>4, <1>2

(* What a thread's deletions look like after each change of them *)

LEMMA RemovedFits ==
    ASSUME NEW past, NEW next, HistoryFits(past, TRUE), past # <<>> => past[Len(past)] = "restored",
           next = Append(past, "trashed") \/ next = Append(past, "restored")
    PROVE  HistoryFits(next, TRUE) /\ next # <<>>
<1>1. PICK fate \in Fate : next = Append(past, fate) /\ fate # "purged"
  BY DEF Fate
<1>2. /\ past \in Seq(Fate) /\ next \in Seq(Fate) /\ Len(next) = Len(past) + 1 /\ Len(past) \in Nat
      /\ next[Len(past) + 1] = fate /\ \A g \in 1 .. Len(past) : next[g] = past[g]
  BY <1>1 DEF HistoryFits
<1>3. \A g \in 1 .. Len(past) : past[g] = "restored"
  BY <1>2, EmptySeq DEF HistoryFits
<1> QED
  BY <1>1, <1>2, <1>3 DEF HistoryFits

LEMMA SettledFits ==
    ASSUME NEW past, NEW here \in BOOLEAN, NEW fate \in Fate, NEW next, past \in Seq(Fate), past # <<>>,
           \A g \in 1 .. Len(past) : g < Len(past) => past[g] = "restored",
           next = [past EXCEPT ![Len(past)] = fate], here <=> fate # "purged"
    PROVE  HistoryFits(next, here) /\ next # <<>>
<1>1. /\ next \in Seq(Fate) /\ Len(next) = Len(past) /\ Len(past) \in Nat \ {0}
      /\ next[Len(past)] = fate
      /\ \A g \in 1 .. Len(past) : g < Len(past) => next[g] = past[g]
  BY EmptySeq
<1> QED
  BY <1>1 DEF HistoryFits

LEMMA HereFits ==
    ASSUME NEW d \in Desk, ThreadsFit
    PROVE  /\ removals[d] \in Seq(Fate) /\ Generations(d) \in Nat
           /\ Here(d) => d \in present /\ HistoryFits(removals[d], TRUE)
                         /\ (removals[d] # <<>> => removals[d][Len(removals[d])] = "restored")
           /\ InBin(d) => /\ removals[d] # <<>>
                          /\ \A g \in 1 .. Len(removals[d]) : g < Len(removals[d]) => removals[d][g] = "restored"
<1>1. HistoryFits(removals[d], d \in present) /\ removals[d] \in Seq(Fate)
  BY DEF ThreadsFit, HistoryFits
<1>2. removals[d] # <<>> => Generations(d) > 0
  BY <1>1, EmptySeq DEF Generations
<1>3. InBin(d) => removals[d] # <<>>
  BY <1>1 DEF InBin, Generations
<1> QED
  BY <1>1, <1>2, <1>3 DEF Here, InBin, Last, Generations, HistoryFits

LEMMA FatesFit ==
    ASSUME NEW d \in Desk, ThreadsFit, DOMAIN removals = Desk,
           \/ Here(d) /\ removals' = Removed(d)
           \/ Here(d) /\ removals' = [removals EXCEPT ![d] = Append(@, "restored")]
           \/ InBin(d) /\ d \in present /\ removals' = PutBack(d)
    PROVE  /\ DOMAIN removals' = Desk /\ \A x \in Desk \ {d} : removals'[x] = removals[x]
           /\ d \in present /\ removals'[d] # <<>> /\ HistoryFits(removals'[d], TRUE)
<1>1. DOMAIN removals' = Desk /\ \A x \in Desk \ {d} : removals'[x] = removals[x]
  BY DEF Removed, PutBack
<1>2. CASE Here(d) /\ removals'[d] \in {Append(removals[d], "trashed"), Append(removals[d], "restored")}
  BY <1>1, <1>2, HereFits, RemovedFits
<1>3. CASE InBin(d) /\ d \in present /\ removals' = PutBack(d)
  <2>1. removals'[d] = [removals[d] EXCEPT ![Len(removals[d])] = "restored"]
    BY <1>3 DEF PutBack, Generations
  <2> QED
    BY <1>1, <1>3, <2>1, HereFits, SettledFits DEF Fate
<1> QED
  BY <1>2, <1>3 DEF Removed

LEMMA PurgeFits ==
    ASSUME NEW d \in Desk, ThreadsFit, DOMAIN removals = Desk, InBin(d), removals' = Purged(d)
    PROVE  /\ DOMAIN removals' = Desk /\ \A x \in Desk \ {d} : removals'[x] = removals[x]
           /\ removals'[d] # <<>> /\ HistoryFits(removals'[d], FALSE)
<1>1. removals'[d] = [removals[d] EXCEPT ![Len(removals[d])] = "purged"]
  BY DEF Purged, Generations
<1>2. HistoryFits(removals'[d], FALSE) /\ removals'[d] # <<>>
  BY <1>1, HereFits, SettledFits DEF Fate
<1> QED
  BY <1>2 DEF Purged

\* One desk's thread changes.
LEMMA ThreadMoves ==
    ASSUME ThreadsFit, NEW d \in Desk, \A x \in Desk \ {d} :
              /\ removals'[x] = removals[x] /\ board'[x] = board[x] /\ private'[x] = private[x]
              /\ x \in present' <=> x \in present,
           HistoryFits(removals'[d], d \in present'), board'[d] # {} => d \in present',
           Missing(d)' => private'[d] = 0
    PROVE  ThreadsFit'
BY DEF ThreadsFit, Missing

\* Entries stay what they are when none are added but written ones.
LEMMA EntriesStay ==
    ASSUME BoardIInv, BoardShapes', boardCount.entries <= boardCount'.entries,
           \A d \in Desk : \A e \in board'[d] \cup importing'[d] :
              \/ e \in board[d] \cup importing[d] \/ WasWritten(e)'
              \/ \E m \in mail : e \in m.rows,
           \A m \in mail' : \/ m \in mail
                            \/ /\ m.to \in Desk
                               /\ m.life # NoRecord => m.life.state \in {"trashed", "restored"}
                               /\ m.rows = {} \/ \E d \in Desk : m.rows = board[d]
    PROVE  EntriesAreWritten'
<1>1. EntriesAreWritten /\ BoardShapes /\ NoCopies
  BY DEF BoardIInv
<1>2. \A d \in Desk : \A e \in board'[d] \cup importing'[d] : WasWritten(e)'
  BY <1>1, WrittenStays DEF EntriesAreWritten
<1>3. \A d \in Desk : Distinct(board[d]) /\ \A e \in board[d] : WasWritten(e)'
  BY <1>1, WrittenStays DEF EntriesAreWritten, NoCopies, Distinct
<1>4. ASSUME NEW m \in mail'
      PROVE  /\ m.to \in Desk /\ Distinct(m.rows) /\ \A e \in m.rows : WasWritten(e)'
             /\ m.life # NoRecord => m.life.state \in {"trashed", "restored"}
  <2>1. CASE m \in mail
    BY <1>1, <2>1, WrittenStays DEF EntriesAreWritten
  <2>2. CASE m \notin mail
    BY <1>3, <1>4, <2>2 DEF Distinct
  <2> QED
    BY <2>1, <2>2
<1> QED
  BY <1>2, <1>4 DEF EntriesAreWritten

LEMMA EntryStep ==
    ASSUME BoardIInv, NEW d \in Desk, NEW key \in Key \cup {NoKey}, NEW text \in Wording,
           PostEntry(d, key, text)
    PROVE  BoardIInv'
<1> PICK n : n = boardCount.entries + 1
  OBVIOUS
<1> PICK e : e = [id |-> n, at |-> n, key |-> key, text |-> text]
  OBVIOUS
<1>1. BoardShapes /\ ThreadsFit /\ NoCopies /\ EntriesAreWritten
  BY DEF BoardIInv
<1>2. BoardShapes' /\ boardCount'.entries = n /\ n \in Nat \ {0} /\ boardCount.entries <= n
  <2>1. /\ boardCount' = [boardCount EXCEPT !.entries = @ + 1, !.posts = @ + 1]
        /\ boardCount \in [entries : Nat, posts : Nat, changes : Nat, mishaps : Nat]
    BY <1>1 DEF PostEntry, BoardShapes
  <2>2. boardCount' = [entries |-> n, posts |-> boardCount.posts + 1,
                       changes |-> boardCount.changes, mishaps |-> boardCount.mishaps]
    BY <2>1
  <2>3. /\ boardCount' \in [entries : Nat, posts : Nat, changes : Nat, mishaps : Nat]
        /\ boardCount'.entries = n /\ n \in Nat \ {0} /\ boardCount.entries <= n
    BY <2>1, <2>2
  <2> QED
    BY <1>1, <2>3 DEF PostEntry, BoardShapes
<1>3. /\ board' = [board EXCEPT ![d] = @ \cup {e}] /\ board'[d] = board[d] \cup {e} /\ d \in present
      /\ UNCHANGED <<present, private, removals, mail, importing>>
      /\ \A x \in Desk \ {d} : board'[x] = board[x]
  BY <1>1 DEF PostEntry, Here, BoardShapes
<1>4. WasWritten(e)'
  <2>1. ~IsMarker(e) /\ e.id = n /\ e.at = n
    BY KeysDiffer
  <2> QED
    BY <1>2, <2>1 DEF WasWritten
<1>5. EntriesAreWritten'
  BY <1>2, <1>3, <1>4, EntriesStay
<1>6. ThreadsFit'
  BY <1>1, <1>3, ThreadMoves DEF ThreadsFit, Missing
<1>7. NoCopies'
  <2>1. \A x \in board[d] : x.id # e.id
    BY <1>1, <1>2 DEF EntriesAreWritten, WasWritten, BoardShapes
  <2>2. \A x \in board[d] : x.key = e.key => e.key = NoKey
    BY DEF PostEntry
  <2> QED
    BY <1>1, <1>3, <2>1, <2>2 DEF NoCopies
<1> QED
  BY <1>2, <1>5, <1>6, <1>7 DEF BoardIInv

\* An entry is added as it came, or shown in a marker, unless it is there already.
LEMMA MergeStep ==
    ASSUME BoardIInv, NEW d \in Desk, NEW e \in importing[d], MergeEntry(d, e)
    PROVE  BoardIInv' /\ \E x \in board'[d] : \/ BodyOf(x) = BodyOf(e)
                                              \/ IsMarker(x) /\ BodyOf(x.text) = BodyOf(e)
<1>1. BoardShapes /\ ThreadsFit /\ NoCopies /\ EntriesAreWritten
  BY DEF BoardIInv
<1>2. PICK stored : stored = (CHOOSE x \in Rivals(d, e) : TRUE)
  OBVIOUS
<1>3. /\ d \in present /\ UNCHANGED <<present, private, removals, mail>>
      /\ importing' = [importing EXCEPT ![d] = @ \ {e}]
      /\ \/ Rivals(d, e) = {} /\ board' = [board EXCEPT ![d] = @ \cup {e}] /\ UNCHANGED boardCount
         \/ /\ Rivals(d, e) # {} /\ UNCHANGED <<board, boardCount>>
            /\ SameBody(stored, e) \/ \E x \in board[d] : x.key = MarkerKey(stored, e)
         \/ /\ Rivals(d, e) # {} /\ board' = [board EXCEPT ![d] = @ \cup {Marker(stored, e)}]
            /\ Count("entries") /\ ~\E x \in board[d] : x.key = MarkerKey(stored, e)
  BY <1>2 DEF MergeEntry, Writable, Here
<1>4. Rivals(d, e) # {} => stored \in board[d]
  BY <1>2 DEF Rivals
<1>5. WasWritten(e) /\ \A x \in board[d] : WasWritten(x)
  BY <1>1 DEF EntriesAreWritten
<1>6. importing'[d] \subseteq importing[d] /\ \A x \in Desk \ {d} : importing'[x] = importing[x]
  BY <1>1, <1>3 DEF BoardShapes
<1>7. CASE Rivals(d, e) = {}
  <2>1. board'[d] = board[d] \cup {e} /\ \A x \in Desk \ {d} : board'[x] = board[x]
    BY <1>1, <1>3, <1>7 DEF BoardShapes
  <2>2. BoardShapes' /\ UNCHANGED boardCount /\ boardCount.entries <= boardCount'.entries
    BY <1>1, <1>3, <1>7 DEF BoardShapes
  <2>3. EntriesAreWritten'
    <3>1. \A x \in Desk : \A y \in board'[x] \cup importing'[x] : y \in board[x] \cup importing[x]
      BY <1>6, <2>1
    <3> QED
      BY <1>3, <2>2, <3>1, EntriesStay
  <2>4. ThreadsFit'
    BY <1>1, <1>3, <2>1, ThreadMoves DEF ThreadsFit, Missing
  <2>5. \A x \in board[d] : x.id # e.id /\ (x.key = e.key => e.key = NoKey)
    BY <1>7 DEF Rivals
  <2>6. NoCopies'
    BY <1>1, <2>1, <2>5 DEF NoCopies
  <2> QED
    BY <2>1, <2>2, <2>3, <2>4, <2>6 DEF BoardIInv
<1>8. CASE UNCHANGED <<board, boardCount>> /\ Rivals(d, e) # {}
  <2>1. BoardShapes' /\ boardCount.entries <= boardCount'.entries
    BY <1>1, <1>3, <1>8 DEF BoardShapes
  <2>2. EntriesAreWritten'
    <3>1. \A x \in Desk : \A y \in board'[x] \cup importing'[x] : y \in board[x] \cup importing[x]
      BY <1>6, <1>8
    <3> QED
      BY <1>3, <2>1, <3>1, EntriesStay
  <2>3. ThreadsFit' /\ NoCopies'
    BY <1>1, <1>3, <1>8 DEF ThreadsFit, Missing, NoCopies
  <2>4. CASE SameBody(stored, e)
    BY <1>4, <1>8, <2>1, <2>2, <2>3, <2>4 DEF BoardIInv, SameBody
  <2>5. CASE \E x \in board[d] : x.key = MarkerKey(stored, e)
    <3>1. PICK x \in board[d] : x.key = MarkerKey(stored, e)
      BY <2>5
    <3>2. IsMarker(x) /\ BodyOf(x.text) = BodyOf(e)
      BY <1>5, <3>1, MarkerKeys DEF WasWritten
    <3> QED
      BY <1>8, <2>1, <2>2, <2>3, <3>2 DEF BoardIInv
  <2>6. SameBody(stored, e) \/ \E x \in board[d] : x.key = MarkerKey(stored, e)
    <3>1. board' = board
      BY <1>8
    <3>2. board' = [board EXCEPT ![d] = @ \cup {Marker(stored, e)}] => Marker(stored, e) \in board[d]
      BY <1>1, <3>1 DEF BoardShapes
    <3>3. Marker(stored, e).key = MarkerKey(stored, e)
      BY DEF Marker
    <3> QED
      BY <1>3, <1>8, <3>2, <3>3
  <2> QED
    BY <2>4, <2>5, <2>6
<1>9. CASE /\ Rivals(d, e) # {} /\ board' = [board EXCEPT ![d] = @ \cup {Marker(stored, e)}]
           /\ Count("entries") /\ ~\E x \in board[d] : x.key = MarkerKey(stored, e)
  <2>1. /\ boardCount' \in [entries : Nat, posts : Nat, changes : Nat, mishaps : Nat]
        /\ boardCount'.entries = boardCount.entries + 1 /\ boardCount.entries \in Nat
    BY <1>1, <1>9, CountGrows DEF BoardShapes, Count
  <2>2. PICK new : new = Marker(stored, e)
    OBVIOUS
  <2>3. new.id = boardCount.entries + 1 /\ new.at = e.at /\ new.key = MarkerKey(stored, e) /\ new.text = e
    BY <2>2 DEF Marker
  <2>4. board'[d] = board[d] \cup {new} /\ \A x \in Desk \ {d} : board'[x] = board[x]
    BY <1>1, <1>9, <2>2 DEF BoardShapes
  <2>5. BoardShapes' /\ boardCount.entries <= boardCount'.entries
    BY <1>1, <1>3, <1>9, <2>1 DEF BoardShapes
  <2>6. IsMarker(new) /\ new.key[2] = BodyOf(new.text) /\ BodyOf(new.text) = BodyOf(e)
    BY <2>3, MarkerKeys
  <2>7. WasWritten(new)'
    BY <1>5, <2>1, <2>3, <2>6 DEF WasWritten
  <2>8. EntriesAreWritten'
    <3>1. \A x \in Desk : \A y \in board'[x] \cup importing'[x] :
             y \in board[x] \cup importing[x] \/ WasWritten(y)'
      BY <1>6, <2>4, <2>7
    <3> QED
      BY <1>3, <2>5, <3>1, EntriesStay
  <2>9. ThreadsFit'
    BY <1>1, <1>3, <2>4, ThreadMoves DEF ThreadsFit, Missing
  <2>10. \A x \in board[d] : x.id # new.id /\ x.key # new.key
    BY <1>5, <1>9, <2>1, <2>3 DEF WasWritten
  <2>11. NoCopies'
    BY <1>1, <2>4, <2>10 DEF NoCopies
  <2> QED
    BY <2>4, <2>5, <2>6, <2>8, <2>9, <2>11 DEF BoardIInv
<1> QED
  BY <1>3, <1>7, <1>8, <1>9

\* Nothing but bounds, private edits and what is to be merged changes.
LEMMA QuietSteps ==
    ASSUME BoardIInv, NEW d \in Desk,
           AbandonMerge(d) \/ DieMerging(d) \/ EditThread(d) \/ \E e \in Desk : SendBundle(d, e)
           \/ \E m \in mail : LoseBundle(m)
    PROVE  BoardIInv' /\ UNCHANGED <<board, present, removals>>
<1>1. BoardShapes /\ ThreadsFit /\ NoCopies /\ EntriesAreWritten
  BY DEF BoardIInv
<1>2. UNCHANGED <<board, present, removals>>
  BY DEF AbandonMerge, DieMerging, EditThread, SendBundle, LoseBundle
<1>3. /\ DOMAIN importing' = Desk /\ \A x \in Desk : importing'[x] \subseteq importing[x]
      /\ private' \in [Desk -> Nat] /\ \A x \in Desk : private'[x] = private[x] \/ x \in present
  <2>1. CASE AbandonMerge(d) \/ DieMerging(d)
    BY <1>1, <2>1 DEF AbandonMerge, DieMerging, BoardShapes
  <2>2. CASE EditThread(d)
    BY <1>1, <2>2 DEF EditThread, BoardShapes, Here
  <2>3. CASE (\E e \in Desk : SendBundle(d, e)) \/ \E m \in mail : LoseBundle(m)
    BY <1>1, <2>3 DEF SendBundle, LoseBundle, BoardShapes
  <2> QED
    BY <2>1, <2>2, <2>3
<1>4. /\ boardCount' \in [entries : Nat, posts : Nat, changes : Nat, mishaps : Nat]
      /\ boardCount.entries <= boardCount'.entries
  <2>1. UNCHANGED boardCount \/ Count("mishaps") \/ Count("changes")
    BY DEF AbandonMerge, DieMerging, EditThread, SendBundle, LoseBundle
  <2> QED
    BY <1>1, <2>1, CountGrows DEF BoardShapes
<1>5. BoardShapes'
  BY <1>1, <1>2, <1>3, <1>4 DEF BoardShapes
<1>6. ThreadsFit' /\ NoCopies'
  BY <1>1, <1>2, <1>3 DEF ThreadsFit, Missing, NoCopies
<1>7. \A m \in mail' : \/ m \in mail
                       \/ /\ m.to \in Desk
                          /\ m.life # NoRecord => m.life.state \in {"trashed", "restored"}
                          /\ m.rows = {} \/ \E x \in Desk : m.rows = board[x]
  <2>1. CASE \E e \in Desk : SendBundle(d, e)
    <3>1. PICK e \in Desk : SendBundle(d, e)
      BY <2>1
    <3>2. LifeRecord(d) # NoRecord => LifeRecord(d).state \in {"trashed", "restored"}
      <4>1. CASE Generations(d) = 0 \/ d \notin present \/ board[d] = {}
        BY <4>1 DEF LifeRecord
      <4>2. CASE ~(Generations(d) = 0 \/ d \notin present \/ board[d] = {})
        <5>1. LifeRecord(d).state = Last(d)
          BY <4>2 DEF LifeRecord
        <5>2. HistoryFits(removals[d], TRUE) /\ removals[d] # <<>>
          BY <1>1, <4>2, EmptySeq DEF ThreadsFit, HistoryFits, Generations
        <5>3. Last(d) \in Fate /\ Last(d) # "purged"
          <6>1. removals[d] \in Seq(Fate) /\ Len(removals[d]) \in 1 .. Len(removals[d])
            BY <5>2, EmptySeq, LenProperties DEF HistoryFits
          <6> QED
            BY <5>2, <6>1 DEF HistoryFits, Last, Generations
        <5> QED
          BY <5>1, <5>3 DEF Fate
      <4> QED
        BY <4>1, <4>2
    <3> QED
      BY <3>1, <3>2 DEF SendBundle
  <2>2. CASE \A e \in Desk : ~SendBundle(d, e)
    BY <2>2 DEF AbandonMerge, DieMerging, EditThread, LoseBundle
  <2> QED
    BY <2>1, <2>2
<1>8. EntriesAreWritten'
  BY <1>2, <1>3, <1>4, <1>5, <1>7, EntriesStay
<1> QED
  BY <1>2, <1>5, <1>6, <1>8 DEF BoardIInv

\* A desk's user changes what became of the thread, by itself or by a review.
LEMMA ChangeSteps ==
    ASSUME BoardIInv, NEW d \in Desk, ChangeThread(d) \/ \E r \in reviews[d] : Resolve(d, r)
    PROVE  /\ BoardIInv' /\ boardCount' # boardCount /\ UNCHANGED importing
           /\ \A x \in present : x \in present' => board'[x] = board[x]
<1>1. BoardShapes /\ ThreadsFit /\ NoCopies /\ EntriesAreWritten
  BY DEF BoardIInv
<1>2. Count("changes") /\ UNCHANGED <<private, mail, importing>>
  BY DEF ChangeThread, Resolve
<1>3. /\ boardCount' \in [entries : Nat, posts : Nat, changes : Nat, mishaps : Nat]
      /\ boardCount.entries <= boardCount'.entries /\ boardCount' # boardCount
  BY <1>1, <1>2, CountGrows
<1>4. CASE UNCHANGED <<board, present>>
  <2>1. \/ UNCHANGED removals
        \/ Here(d) /\ removals' = Removed(d)
        \/ Here(d) /\ removals' = [removals EXCEPT ![d] = Append(@, "restored")]
        \/ InBin(d) /\ d \in present /\ removals' = PutBack(d)
        \/ InBin(d) /\ removals' = Purged(d) /\ d \in present /\ d \notin present'
    BY DEF ChangeThread, Resolve
  <2>2. CASE UNCHANGED removals
    <3>1. BoardShapes' /\ ThreadsFit' /\ NoCopies'
      BY <1>1, <1>2, <1>3, <1>4, <2>2 DEF BoardShapes, ThreadsFit, Missing, NoCopies
    <3>2. EntriesAreWritten'
      BY <1>2, <1>3, <1>4, <3>1, EntriesStay
    <3> QED
      BY <1>2, <1>3, <1>4, <3>1, <3>2 DEF BoardIInv
  <2>3. CASE ~UNCHANGED removals
    <3>1. /\ DOMAIN removals' = Desk /\ \A x \in Desk \ {d} : removals'[x] = removals[x]
          /\ removals'[d] # <<>> /\ d \in present
      BY <1>1, <1>4, <2>1, <2>3, FatesFit DEF BoardShapes
    <3>2. HistoryFits(removals'[d], TRUE)
      BY <1>1, <1>4, <2>1, <2>3, FatesFit DEF BoardShapes
    <3>3. BoardShapes' /\ NoCopies'
      BY <1>1, <1>2, <1>3, <1>4, <3>1 DEF BoardShapes, NoCopies
    <3>4. ThreadsFit'
      BY <1>1, <1>2, <1>4, <3>1, <3>2, ThreadMoves DEF ThreadsFit, Missing
    <3>5. EntriesAreWritten'
      BY <1>2, <1>3, <1>4, <3>3, EntriesStay
    <3> QED
      BY <1>2, <1>3, <1>4, <3>3, <3>4, <3>5 DEF BoardIInv
  <2> QED
    BY <2>2, <2>3
<1>5. CASE InBin(d) /\ removals' = Purged(d) /\ board' = [board EXCEPT ![d] = {}] /\ present' = present \ {d}
  <2>1. /\ DOMAIN removals' = Desk /\ \A x \in Desk \ {d} : removals'[x] = removals[x]
        /\ removals'[d] # <<>> /\ HistoryFits(removals'[d], FALSE)
    BY <1>1, <1>5, PurgeFits DEF BoardShapes
  <2>2. board'[d] = {} /\ \A x \in Desk \ {d} : board'[x] = board[x]
    BY <1>1, <1>5 DEF BoardShapes
  <2>3. BoardShapes' /\ NoCopies'
    BY <1>1, <1>2, <1>3, <1>5, <2>1, <2>2 DEF BoardShapes, NoCopies
  <2>4. ThreadsFit'
    <3>1. HistoryFits(removals'[d], d \in present') /\ ~Missing(d)'
      BY <1>5, <2>1 DEF HistoryFits, Missing
    <3> QED
      BY <1>1, <1>2, <1>5, <2>1, <2>2, <3>1, ThreadMoves
  <2>5. EntriesAreWritten'
    <3>1. \A x \in Desk : \A y \in board'[x] \cup importing'[x] : y \in board[x] \cup importing[x]
      BY <1>2, <2>2
    <3> QED
      BY <1>2, <1>3, <2>3, <3>1, EntriesStay
  <2> QED
    BY <1>1, <1>2, <1>3, <1>5, <2>2, <2>3, <2>4, <2>5 DEF BoardIInv, BoardShapes
<1> QED
  BY <1>4, <1>5 DEF ChangeThread, Resolve

\* A bundle changes the receiver's history only as the content allows, and its entries
\* go to a thread that is there.
LEMMA LifeFits ==
    ASSUME BoardIInv, NEW m \in mail, ReceiveLife(m), ~OutOfScope(m),
           ~(m.life # NoRecord /\ Missing(m.to)), UNCHANGED <<board, private>>
    PROVE  /\ DOMAIN removals' = Desk /\ \A x \in Desk \ {m.to} : removals'[x] = removals[x]
           /\ \/ UNCHANGED removals
              \/ /\ m.to \in present /\ HistoryFits(removals'[m.to], TRUE)
                 /\ m.life.digest = <<private[m.to], board[m.to]>>
<1>1. BoardShapes /\ ThreadsFit /\ NoCopies /\ EntriesAreWritten /\ m.to \in Desk
  BY DEF BoardIInv, EntriesAreWritten
<1>2. CASE UNCHANGED removals
  BY <1>1, <1>2 DEF BoardShapes
<1>3. CASE ~UNCHANGED removals
  <2>1. m.life # NoRecord /\ ~Missing(m.to) /\ Agreed(m) /\ removals' = Followed(m)
    BY <1>3 DEF ReceiveLife
  <2>2. m.to \in present
    BY <1>1, <2>1 DEF OutOfScope, Owned
  <2>3. m.life.state \in {"trashed", "restored"}
    BY <1>1, <2>1 DEF EntriesAreWritten
  <2>4. \/ Here(m.to) /\ removals' = Removed(m.to)
        \/ InBin(m.to) /\ m.to \in present /\ removals' = PutBack(m.to)
    BY <2>1, <2>2, <2>3 DEF Agreed, Followed
  <2>5. DOMAIN removals = Desk
    BY <1>1 DEF BoardShapes
  <2>6. /\ DOMAIN removals' = Desk /\ \A x \in Desk \ {m.to} : removals'[x] = removals[x]
        /\ HistoryFits(removals'[m.to], TRUE)
    BY <1>1, <2>4, <2>5, FatesFit
  <2> QED
    BY <2>1, <2>2, <2>6 DEF Agreed, Digest
<1> QED
  BY <1>2, <1>3

LEMMA ReceiveStep ==
    ASSUME BoardIInv, NEW m \in mail, Receive(m)
    PROVE  /\ BoardIInv' /\ UNCHANGED <<board, private>> /\ present \subseteq present'
           /\ importing[m.to] = {} /\ mail' = mail \ {m}
           /\ \A x \in Desk : x # m.to => importing'[x] = importing[x]
           /\ \A x \in Desk : removals'[x] # removals[x] =>
                 x = m.to /\ m.life.digest = <<private[x], board[x]>>
<1>1. BoardShapes /\ ThreadsFit /\ NoCopies /\ EntriesAreWritten /\ m.to \in Desk
  BY DEF BoardIInv, EntriesAreWritten
<1>2. /\ UNCHANGED <<board, private, boardCount>> /\ mail' = mail \ {m}
      /\ importing[m.to] = {} /\ ~(m.life # NoRecord /\ Missing(m.to))
      /\ \/ present' = present /\ importing' = importing
         \/ /\ ReceiveLife(m) /\ ~OutOfScope(m) /\ Accepted(m)
            /\ present' = present \cup {m.to}
            /\ importing' = [importing EXCEPT ![m.to] = m.rows]
  BY DEF Receive
<1>3. /\ DOMAIN importing' = Desk /\ \A x \in Desk : importing'[x] \in {importing[x], m.rows}
      /\ \A x \in Desk : x # m.to => importing'[x] = importing[x]
  BY <1>1, <1>2 DEF BoardShapes
<1>4. /\ DOMAIN removals' = Desk /\ \A x \in Desk \ {m.to} : removals'[x] = removals[x]
      /\ \/ UNCHANGED removals
         \/ /\ m.to \in present /\ HistoryFits(removals'[m.to], TRUE)
            /\ m.life.digest = <<private[m.to], board[m.to]>>
  <2>1. CASE UNCHANGED removals
    BY <1>1, <2>1 DEF BoardShapes
  <2>2. CASE ReceiveLife(m) /\ ~OutOfScope(m)
    BY <1>2, <2>2, LifeFits
  <2> QED
    BY <2>1, <2>2 DEF Receive
<1>5. BoardShapes' /\ NoCopies'
  BY <1>1, <1>2, <1>3, <1>4 DEF BoardShapes, NoCopies
<1>6. EntriesAreWritten'
  <2>1. \A x \in Desk : \A y \in board'[x] \cup importing'[x] :
           y \in board[x] \cup importing[x] \/ \E n \in mail : y \in n.rows
    BY <1>2, <1>3
  <2>2. boardCount.entries <= boardCount'.entries
    BY <1>1, <1>2 DEF BoardShapes
  <2> QED
    BY <1>2, <1>5, <2>1, <2>2, EntriesStay
<1>7. HistoryFits(removals'[m.to], m.to \in present')
  <2>1. CASE present' = present
    <3>1. HistoryFits(removals[m.to], m.to \in present)
      BY <1>1 DEF ThreadsFit
    <3> QED
      BY <1>4, <2>1, <3>1 DEF HistoryFits
  <2>2. CASE Accepted(m) /\ present' = present \cup {m.to}
    <3>1. CASE UNCHANGED removals
      <4>1. HistoryFits(removals[m.to], m.to \in present)
        BY <1>1 DEF ThreadsFit
      <4>2. removals'[m.to] # <<>> => removals'[m.to][Len(removals'[m.to])] # "purged"
        BY <2>2 DEF Accepted
      <4> QED
        BY <2>2, <3>1, <4>1, <4>2 DEF HistoryFits
    <3>2. CASE HistoryFits(removals'[m.to], TRUE)
      BY <2>2, <3>2 DEF HistoryFits
    <3> QED
      BY <1>4, <3>1, <3>2
  <2> QED
    BY <1>2, <2>1, <2>2
<1>8. ThreadsFit'
  <2>1. board'[m.to] # {} => m.to \in present'
    BY <1>1, <1>2 DEF ThreadsFit
  <2>2. \A x \in Desk \ {m.to} : x \in present' <=> x \in present
    BY <1>2
  <2>3. Missing(m.to)' => private'[m.to] = 0
    <3>1. Missing(m.to)' => Missing(m.to)
      BY <1>2, <1>4 DEF Missing
    <3> QED
      BY <1>1, <1>2, <3>1 DEF ThreadsFit
  <2> QED
    BY <1>1, <1>2, <1>4, <1>7, <2>1, <2>2, <2>3, ThreadMoves
<1> QED
  BY <1>2, <1>3, <1>4, <1>5, <1>6, <1>8 DEF BoardIInv

\* A first restore comes with the thread's whole content, to a desk that never had it.
LEMMA FirstStep ==
    ASSUME BoardIInv, NEW m \in mail, ReceiveFirst(m)
    PROVE  /\ BoardIInv' /\ UNCHANGED importing /\ present \subseteq present' /\ mail' = mail \ {m}
           /\ \A x \in present : board'[x] = board[x]
           /\ \A x \in Desk : removals'[x] # removals[x] =>
                 x = m.to /\ m.life.digest = <<private[x], board'[x]>>
<1>1. BoardShapes /\ ThreadsFit /\ NoCopies /\ EntriesAreWritten /\ m.to \in Desk
  BY DEF BoardIInv, EntriesAreWritten
<1>2. UNCHANGED <<private, importing, boardCount>> /\ mail' = mail \ {m} /\ Missing(m.to)
      /\ boardCount.entries <= boardCount'.entries
  BY <1>1 DEF ReceiveFirst, BoardShapes
<1>3. CASE UNCHANGED <<present, board, removals>>
  <2>1. BoardShapes' /\ NoCopies' /\ ThreadsFit'
    BY <1>1, <1>2, <1>3 DEF BoardShapes, NoCopies, ThreadsFit, Missing
  <2>2. EntriesAreWritten'
    BY <1>2, <1>3, <2>1, EntriesStay
  <2> QED
    BY <1>2, <1>3, <2>1, <2>2 DEF BoardIInv
<1>4. CASE /\ m.life.digest = <<0, m.rows>> /\ present' = present \cup {m.to}
           /\ board' = [board EXCEPT ![m.to] = m.rows]
           /\ removals' = [removals EXCEPT ![m.to] = <<"restored">>]
  <2>1. /\ board'[m.to] = m.rows /\ removals'[m.to] = <<"restored">>
        /\ \A x \in Desk \ {m.to} : board'[x] = board[x] /\ removals'[x] = removals[x]
        /\ BoardShapes'
    BY <1>1, <1>2, <1>4 DEF BoardShapes
  <2>2. private[m.to] = 0 /\ m.to \notin present
    BY <1>1, <1>2 DEF ThreadsFit, Missing
  <2>3. NoCopies'
    BY <1>1, <2>1 DEF NoCopies, EntriesAreWritten, Distinct
  <2>4. EntriesAreWritten'
    <3>1. \A x \in Desk : \A y \in board'[x] \cup importing'[x] :
             y \in board[x] \cup importing[x] \/ \E n \in mail : y \in n.rows
      BY <1>2, <2>1
    <3> QED
      BY <1>2, <2>1, <3>1, EntriesStay
  <2>5. HistoryFits(<<"restored">>, TRUE)
    BY DEF HistoryFits, Fate
  <2>6. ThreadsFit'
    <3>1. HistoryFits(removals'[m.to], m.to \in present') /\ ~Missing(m.to)'
      BY <1>4, <2>1, <2>5 DEF HistoryFits, Missing
    <3>2. \A x \in Desk \ {m.to} : x \in present' <=> x \in present
      BY <1>4
    <3> QED
      BY <1>1, <1>2, <1>4, <2>1, <3>1, <3>2, ThreadMoves
  <2> QED
    BY <1>1, <1>2, <1>4, <2>1, <2>2, <2>3, <2>4, <2>6 DEF BoardIInv, BoardShapes
<1> QED
  BY <1>3, <1>4 DEF ReceiveFirst

LEMMA BoardStep == BoardIInv /\ [BoardNext]_boardVars => BoardIInv'
<1> SUFFICES ASSUME BoardIInv, [BoardNext]_boardVars PROVE BoardIInv'
  OBVIOUS
<1>1. CASE UNCHANGED boardVars
  BY <1>1 DEF boardVars, BoardIInv, BoardShapes, EntriesAreWritten, WasWritten, ThreadsFit, Missing, NoCopies
<1>2. ASSUME NEW d \in Desk, NEW key \in Key \cup {NoKey}, NEW text \in Wording, PostEntry(d, key, text)
      PROVE  BoardIInv'
  BY <1>2, EntryStep
<1>3. ASSUME NEW d \in Desk,
             AbandonMerge(d) \/ DieMerging(d) \/ EditThread(d) \/ (\E e \in Desk : SendBundle(d, e))
      PROVE  BoardIInv'
  BY <1>3, QuietSteps
<1>4. ASSUME NEW m \in mail, LoseBundle(m) PROVE BoardIInv'
  BY <1>4, QuietSteps, HubAssumption
<1>5. ASSUME NEW d \in Desk, ChangeThread(d) \/ \E r \in reviews[d] : Resolve(d, r)
      PROVE  BoardIInv'
  BY <1>5, ChangeSteps
<1>6. ASSUME NEW d \in Desk, NEW e \in importing[d], MergeEntry(d, e) PROVE BoardIInv'
  BY <1>6, MergeStep
<1>7. ASSUME NEW m \in mail, Receive(m) \/ ReceiveFirst(m) PROVE BoardIInv'
  BY <1>7, ReceiveStep, FirstStep
<1> QED
  BY <1>1, <1>2, <1>3, <1>4, <1>5, <1>6, <1>7 DEF BoardNext, MergeRows, Deliver

LEMMA BoardsAreSafe == BoardIInv => BoardInv
<1> SUFFICES ASSUME BoardIInv, NEW d \in Desk
             PROVE  /\ board[d] # {} => d \in present
                    /\ \A e \in board[d] : e.id \in 1 .. boardCount.entries /\ e.at <= e.id
                    /\ \A g \in DOMAIN removals[d] : g < Generations(d) => removals[d][g] = "restored"
                    /\ d \in present \/ Missing(d) \/ Last(d) = "purged"
  BY DEF BoardInv, BoardTypeOK, BoardIInv
<1>1. HistoryFits(removals[d], d \in present) /\ (board[d] # {} => d \in present)
  BY DEF BoardIInv, ThreadsFit
<1>2. DOMAIN removals[d] = 1 .. Len(removals[d])
  BY <1>1, LenProperties DEF HistoryFits
<1>3. \A e \in board[d] : WasWritten(e)
  BY DEF BoardIInv, EntriesAreWritten
<1> QED
  BY <1>1, <1>2, <1>3 DEF HistoryFits, WasWritten, Generations, Last, Missing

\* In whatever order bundles of entries, edits and lives arrive: a desk has an entry once
\* and none of a purged thread (merge_whiteboard, _merge_thread).
THEOREM BoardsHaveEntriesOnce == BoardSpec => []BoardInv
<1>1. BoardSpec => []BoardIInv
  BY BoardStarts, BoardStep, PTL DEF BoardSpec
<1> QED
  BY <1>1, BoardsAreSafe, PTL

\* A board only loses entries with its thread.
LEMMA BoardsGrow ==
    ASSUME BoardIInv, BoardNext, NEW d \in present, d \in present'
    PROVE  board[d] \subseteq board'[d]
<1>1. d \in Desk /\ DOMAIN board = Desk
  BY DEF BoardIInv, BoardShapes
<1>2. ASSUME NEW x \in Desk, NEW key \in Key \cup {NoKey}, NEW text \in Wording, PostEntry(x, key, text)
      PROVE  board[d] \subseteq board'[d]
  BY <1>1, <1>2 DEF PostEntry
<1>3. ASSUME NEW x \in Desk,
             AbandonMerge(x) \/ DieMerging(x) \/ EditThread(x) \/ (\E e \in Desk : SendBundle(x, e))
      PROVE  board' = board
  BY <1>3, QuietSteps
<1>4. ASSUME NEW m \in mail, LoseBundle(m) PROVE board' = board
  BY <1>4, QuietSteps, HubAssumption
<1>5. ASSUME NEW x \in Desk, ChangeThread(x) \/ \E r \in reviews[x] : Resolve(x, r)
      PROVE  board'[d] = board[d]
  BY <1>5, ChangeSteps
<1>6. ASSUME NEW x \in Desk, NEW e \in importing[x], MergeEntry(x, e)
      PROVE  board[d] \subseteq board'[d]
  <2>1. board' = board \/ \E new : board' = [board EXCEPT ![x] = @ \cup {new}]
    BY <1>6 DEF MergeEntry
  <2> QED
    BY <1>1, <2>1
<1>7. ASSUME NEW m \in mail, Receive(m) \/ ReceiveFirst(m) PROVE board'[d] = board[d]
  BY <1>7, ReceiveStep, FirstStep
<1> QED
  BY <1>2, <1>3, <1>4, <1>5, <1>6, <1>7 DEF BoardNext, MergeRows, Deliver

\* An entry of a bundle leaves the hands of the merge on the board, unless its thread
\* or the process is gone.
LEMMA MergesShow ==
    ASSUME BoardIInv, BoardNext, NEW d \in present, NEW e \in importing[d],
           importing'[d] = importing[d] \ {e}, Here(d), boardCount'.mishaps = boardCount.mishaps
    PROVE  \E x \in board'[d] : BodyOf(x) = BodyOf(e) \/ (IsMarker(x) /\ BodyOf(x.text) = BodyOf(e))
<1>1. /\ d \in Desk /\ DOMAIN importing = Desk
      /\ boardCount \in [entries : Nat, posts : Nat, changes : Nat, mishaps : Nat]
  BY DEF BoardIInv, BoardShapes
<1>2. importing'[d] # importing[d]
  OBVIOUS
<1>3. \E x \in Desk : AbandonMerge(x) \/ DieMerging(x) \/ \E y \in importing[x] : MergeEntry(x, y)
  <2>1. ~\E x \in Desk, key \in Key \cup {NoKey}, text \in Wording : PostEntry(x, key, text)
    BY <1>2 DEF PostEntry
  <2>2. ~\E x \in Desk : EditThread(x) \/ ChangeThread(x) \/ \E r \in reviews[x] : Resolve(x, r)
    BY <1>2 DEF EditThread, ChangeThread, Resolve
  <2>3. ~\E x \in Desk, y \in Desk : SendBundle(x, y)
    BY <1>2 DEF SendBundle
  <2>4. ~\E m \in mail : LoseBundle(m)
    BY <1>2 DEF LoseBundle
  <2>5. ~\E m \in mail : Receive(m) \/ ReceiveFirst(m)
    <3>1. ASSUME NEW m \in mail, Receive(m) PROVE FALSE
      BY <1>1, <1>2, <3>1, ReceiveStep
    <3>2. ASSUME NEW m \in mail, ReceiveFirst(m) PROVE FALSE
      BY <1>2, <3>2, FirstStep
    <3> QED
      BY <3>1, <3>2
  <2> QED
    BY <2>1, <2>2, <2>3, <2>4, <2>5 DEF BoardNext, MergeRows, Deliver
<1>4. PICK x \in Desk : AbandonMerge(x) \/ DieMerging(x) \/ \E y \in importing[x] : MergeEntry(x, y)
  BY <1>3
<1>5. x = d
  BY <1>1, <1>2, <1>4 DEF AbandonMerge, DieMerging, MergeEntry
<1>6. ~AbandonMerge(d)
  BY DEF AbandonMerge
<1>7. ~DieMerging(d)
  BY <1>1 DEF DieMerging, Count
<1>8. PICK y \in importing[d] : MergeEntry(d, y)
  BY <1>4, <1>5, <1>6, <1>7
<1>9. importing'[d] = importing[d] \ {y}
  BY <1>1, <1>8 DEF MergeEntry
<1>10. y = e
  BY <1>9
<1> QED
  BY <1>1, <1>8, <1>10, MergeStep

\* Every version a desk was sent and merged is on its board, itself or in a marker
\* (merge_whiteboard: "Both versions stay"), as long as the desk has the thread.
THEOREM MergedVersionsStay == BoardSpec => BothVersionsStay
<1> DEFINE Stays(d) ==
        d \in present' =>
          /\ Shown(d) \subseteq Shown(d)'
          /\ \A e \in importing[d] :
                importing'[d] = importing[d] \ {e} /\ Here(d) /\ boardCount'.mishaps = boardCount.mishaps
                   => BodyOf(e) \in Shown(d)'
<1>1. BoardIInv /\ [BoardNext]_boardVars => [\A d \in present : Stays(d)]_boardVars
  <2> SUFFICES ASSUME BoardIInv, BoardNext, NEW d \in present, d \in present'
               PROVE  Stays(d)
    OBVIOUS
  <2>1. Shown(d) \subseteq Shown(d)'
    BY BoardsGrow DEF Shown
  <2>2. ASSUME NEW e \in importing[d], importing'[d] = importing[d] \ {e}, Here(d),
               boardCount'.mishaps = boardCount.mishaps
        PROVE  BodyOf(e) \in Shown(d)'
    BY <2>2, MergesShow DEF Shown
  <2> QED
    BY <2>1, <2>2
<1>2. BoardSpec => []BoardIInv
  BY BoardStarts, BoardStep, PTL DEF BoardSpec
<1> QED
  BY <1>1, <1>2, PTL DEF BoardSpec, BothVersionsStay

\* A desk's thread follows another desk into the trash or out of it only with the
\* content that desk saw; a different one waits for the user (apply_room_lifecycle).
THEOREM LivesAreAgreed == BoardSpec => LifeIsAgreed
<1> DEFINE Agrees(d) ==
        removals'[d] # removals[d] /\ boardCount' = boardCount =>
          \E m \in mail \ mail' : m.to = d /\ m.life.digest = <<private[d], board'[d]>>
<1>1. BoardIInv /\ [BoardNext]_boardVars => [\A d \in Desk : Agrees(d)]_boardVars
  <2> SUFFICES ASSUME BoardIInv, BoardNext, NEW d \in Desk, removals'[d] # removals[d],
                      boardCount' = boardCount
               PROVE  \E m \in mail \ mail' : m.to = d /\ m.life.digest = <<private[d], board'[d]>>
    OBVIOUS
  <2>1. ASSUME NEW m \in mail, Receive(m)
        PROVE  m \notin mail' /\ m.to = d /\ m.life.digest = <<private[d], board'[d]>>
    BY <2>1, ReceiveStep
  <2>2. ASSUME NEW m \in mail, ReceiveFirst(m)
        PROVE  m \notin mail' /\ m.to = d /\ m.life.digest = <<private[d], board'[d]>>
    BY <2>2, FirstStep
  <2>3. ~\E x \in Desk, key \in Key \cup {NoKey}, text \in Wording : PostEntry(x, key, text)
    BY DEF PostEntry
  <2>4. ~\E x \in Desk : \E e \in importing[x] : MergeEntry(x, e)
    BY DEF MergeEntry
  <2>5. \A x \in Desk : ~ChangeThread(x) /\ \A r \in reviews[x] : ~Resolve(x, r)
    BY ChangeSteps
  <2>6. /\ \A x \in Desk : ~AbandonMerge(x) /\ ~DieMerging(x) /\ ~EditThread(x)
        /\ \A x, e \in Desk : ~SendBundle(x, e)
        /\ \A m \in mail : ~LoseBundle(m)
    BY QuietSteps, HubAssumption
  <2>7. \E m \in mail : Receive(m) \/ ReceiveFirst(m)
    BY <2>3, <2>4, <2>5, <2>6, HubAssumption DEF BoardNext, MergeRows, Deliver
  <2> QED
    BY <2>1, <2>2, <2>7
<1>2. BoardSpec => []BoardIInv
  BY BoardStarts, BoardStep, PTL DEF BoardSpec
<1> QED
  BY <1>1, <1>2, PTL DEF BoardSpec, LifeIsAgreed
================================================================================
