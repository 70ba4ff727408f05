------------------------------ MODULE GraphViews ------------------------------
(* A saved view of the graph is delivered to a browser tab                       *)
(* (services/graph_views, graph_view_control, static/graph-view-control.js): an  *)
(* intent names the revision of the view, one tab claims it, fetches the view,   *)
(* moves its camera, observes what it shows and says so; the answer is lost, the *)
(* view is saved again, the user moves on, the tab is reloaded or the server is  *)
(* restarted in between.  Views and deliveries are two documents, each under its *)
(* own lock.  One view is modelled; a request repeated under its identity is     *)
(* answered and changes nothing.                                                 *)
EXTENDS Integers, Sequences, FiniteSets

CONSTANTS Tab,
          ViewState,        \* what a view can show
          NoView,      \* no view, a deleted one
          MaxViews,     \* bounds: revisions, intents, connections
          MaxIntents,
          MaxClients,
          MaxLosses     \* ... lost answers, moved cameras, reloads and restarts

ASSUME GraphAssumption == {MaxViews, MaxIntents, MaxClients, MaxLosses} \subseteq Nat

VARIABLES view,         \* graph-views.json: the view, deleted ones too
          intents,      \* graph-view-control.json: requests, in the order of their time
          clients,      \* ... and connections, by number
          tab,          \* what every tab is doing, its client and its observations
          camera,       \* what every tab shows
          viewCount     \* the bounds used up, and the starts of the server
graphVars == <<view, intents, clients, tab, camera, viewCount>>

NoClient == 0
NewTab(client) == [client |-> client, run |-> viewCount.runs, step |-> "idle", intent |-> 0, seen |-> <<>>]
NoAnswer == [status |-> "none", seen |-> NoView]

Dropped(f, i) == [j \in DOMAIN f \ {i} |-> f[j]]
Noted(f, i, v) == [j \in DOMAIN f \cup {i} |-> IF j = i THEN v ELSE f[j]]
Spend(kind, max) ==
    /\ viewCount[kind] < max
    /\ viewCount' = [viewCount EXCEPT ![kind] = @ + 1]
Answered(i) == intents[i].answer # NoAnswer

-----------------------------------------------------------------------------
(* The owner's requests *)

\* manage: save, over a deleted view as well.
SaveView(s) ==
    /\ view' = [revision |-> view.revision + 1, state |-> s]
    /\ Spend("views", MaxViews)
    /\ UNCHANGED <<intents, clients, tab, camera>>

\* manage: delete.  The row stays as a tombstone.
DeleteView ==
    /\ view.state # NoView
    /\ view' = [revision |-> view.revision + 1, state |-> NoView]
    /\ Spend("views", MaxViews)
    /\ UNCHANGED <<intents, clients, tab, camera>>

\* apply: for the client that was named, for the only one that is active, or, when
\* none is, for whoever claims it first.
ApplyView(target) ==
    /\ view.state # NoView
    /\ target \in clients \cup {NoClient}
    /\ intents' = Append(intents, [revision |-> view.revision, state |-> view.state,
                                   run |-> viewCount.runs, client |-> target, answer |-> NoAnswer,
                                   old |-> FALSE, shown |-> <<>>])
    /\ Spend("intents", MaxIntents)
    /\ UNCHANGED <<view, clients, tab, camera>>

-----------------------------------------------------------------------------
(* The tab: one request after the other *)

GoTo(t, step) == tab' = [tab EXCEPT ![t].step = step]
Denied(t) == tab[t].client \notin clients
\* A lost capability takes the observations made under it along.
Disconnect(t) == tab' = [tab EXCEPT ![t] = NewTab(NoClient)]

\* register: connections that were silent for long are dropped.
ConnectTab(t, silent) ==
    /\ tab[t].client = NoClient
    /\ Spend("clients", MaxClients)
    /\ LET c == viewCount'.clients IN
         /\ clients' = (clients \ silent) \cup {c}
         /\ tab' = [tab EXCEPT ![t] = NewTab(c)]
    /\ UNCHANGED <<view, intents, camera>>

\* pending: the oldest intent without an answer that is this client's or nobody's.
WaitingFor(c) ==
    {i \in DOMAIN intents : intents[i].client \in {c, NoClient} /\ ~Answered(i) /\ ~intents[i].old}

\* What was observed is only confirmed: a view is never applied twice over a camera
\* that its user has moved.
Continued(t, i) == IF i \in DOMAIN tab[t].seen THEN "confirm" ELSE "claim"

PollIntents(t) ==
    /\ tab[t].step = "idle" /\ tab[t].client # NoClient
    /\ \/ Denied(t) /\ Disconnect(t)
       \/ /\ ~Denied(t)
          /\ \E i \in WaitingFor(tab[t].client) :
               /\ \A j \in WaitingFor(tab[t].client) : i <= j
               /\ tab' = [tab EXCEPT ![t].step = Continued(t, i), ![t].intent = i]
       \* Nothing waits any more, and an observation is left to confirm.
       \/ /\ ~Denied(t) /\ WaitingFor(tab[t].client) = {}
          /\ \E i \in DOMAIN tab[t].seen :
               tab' = [tab EXCEPT ![t].step = "confirm", ![t].intent = i]
    /\ UNCHANGED <<view, intents, clients, camera, viewCount>>

Claimable(t, i) == intents[i].client \in {NoClient, tab[t].client}

\* claim: refused when it is late or another's; the answer may be lost.
ClaimIntent(t) ==
    /\ tab[t].step = "claim"
    /\ LET i == tab[t].intent IN
         IF Denied(t) THEN Disconnect(t) /\ UNCHANGED <<intents, viewCount>>
         ELSE IF ~Claimable(t, i) \/ intents[i].old
           THEN GoTo(t, "idle") /\ UNCHANGED <<intents, viewCount>>
           ELSE /\ intents' = [intents EXCEPT ![i].client = tab[t].client]
                /\ \/ GoTo(t, "show") /\ UNCHANGED viewCount
                   \/ GoTo(t, "idle") /\ Spend("losses", MaxLosses)
    /\ UNCHANGED <<view, clients, camera>>

\* The view is fetched and, if it is still the revision of the intent, shown.
ShowView(t) ==
    /\ tab[t].step = "show"
    /\ LET i == tab[t].intent IN
         IF view.state # NoView /\ view.revision = intents[i].revision
           THEN /\ camera' = [camera EXCEPT ![t] = view.state]
                /\ intents' = [intents EXCEPT ![i].shown = Append(@, [client |-> tab[t].client, run |-> tab[t].run])]
                /\ GoTo(t, "look")
           ELSE /\ tab' = [tab EXCEPT ![t].step = "confirm",
                             ![t].seen = Noted(@, i, [status |-> "failed", seen |-> NoView])]
                /\ UNCHANGED <<intents, camera>>
    /\ UNCHANGED <<view, clients, viewCount>>

\* Two frames later: what the tab shows now.
ObserveView(t) ==
    /\ tab[t].step = "look"
    /\ tab' = [tab EXCEPT ![t].step = "confirm",
                 ![t].seen = Noted(@, tab[t].intent, [status |-> "applied", seen |-> camera[t]])]
    /\ UNCHANGED <<view, intents, clients, camera, viewCount>>

\* What acknowledge makes of an observation: "applied" is believed only of the revision
\* of the intent, and only when what was seen is that view.
\* Faulty variant: what the tab says is noted down.
VerdictAsReported(i, observed) == observed
Verdict(i, observed) ==
    IF observed.status = "applied"
       /\ (view.revision # intents[i].revision \/ view.state # observed.seen)
      THEN [observed EXCEPT !.status = "failed"] ELSE observed

Pending(i) == ~Answered(i)

SettleIntent(i, observed) ==
    intents' = IF Pending(i) THEN [intents EXCEPT ![i].answer = Verdict(i, observed)] ELSE intents

\* acknowledge: the first answer stands, whatever is sent again; the observation or the
\* reply may be lost.  An intent that has become too old takes no answer any more.
ConfirmIntent(t) ==
    /\ tab[t].step = "confirm"
    /\ LET i == tab[t].intent IN
         IF Denied(t) THEN Disconnect(t) /\ UNCHANGED <<intents, viewCount>>
         ELSE IF intents[i].client # tab[t].client \/ (intents[i].old /\ Pending(i))
           THEN GoTo(t, "idle") /\ UNCHANGED <<intents, viewCount>>
           ELSE \/ /\ SettleIntent(i, tab[t].seen[i])
                   /\ tab' = [tab EXCEPT ![t].step = "idle", ![t].seen = Dropped(@, i)]
                   /\ UNCHANGED viewCount
                \/ /\ SettleIntent(i, tab[t].seen[i]) \/ UNCHANGED intents
                   /\ GoTo(t, "idle") /\ Spend("losses", MaxLosses)
    /\ UNCHANGED <<view, clients, camera>>

-----------------------------------------------------------------------------
(* The surroundings *)

\* Fifteen minutes pass: INTENT_TTL at the server and, as an observation is younger
\* than its intent, later in the tab.
GrowOld(i) ==
    /\ ~intents[i].old
    /\ intents' = [intents EXCEPT ![i].old = TRUE]
    /\ UNCHANGED <<view, clients, tab, camera, viewCount>>
DropObservation(t, i) ==
    /\ tab[t].step = "idle" /\ i \in DOMAIN tab[t].seen /\ intents[i].old
    /\ tab' = [tab EXCEPT ![t].seen = Dropped(@, i)]
    /\ UNCHANGED <<view, intents, clients, camera, viewCount>>

\* The user moves the camera.
MoveCamera(t, s) ==
    /\ camera[t] # s /\ camera' = [camera EXCEPT ![t] = s]
    /\ Spend("losses", MaxLosses)
    /\ UNCHANGED <<view, intents, clients, tab>>

\* A reloaded tab knows nothing of what it did.
Reload(t) ==
    /\ tab[t].client # NoClient /\ Disconnect(t)
    /\ Spend("losses", MaxLosses)
    /\ UNCHANGED <<view, intents, clients, camera>>

\* Intents without an answer are cancelled.
Cancelled == [i \in DOMAIN intents |->
                IF Answered(i) THEN intents[i]
                ELSE [intents[i] EXCEPT !.answer = [status |-> "cancelled", seen |-> NoView]]]

\* reset_runtime, at the start of the server.
Restart ==
    /\ clients' = {} /\ intents' = Cancelled
    /\ viewCount.losses < MaxLosses
    /\ viewCount' = [viewCount EXCEPT !.losses = @ + 1, !.runs = @ + 1]
    /\ UNCHANGED <<view, tab, camera>>

GraphInit ==
    /\ viewCount = [views |-> 0, intents |-> 0, clients |-> 0, losses |-> 0, runs |-> 0]
    /\ view = [revision |-> 0, state |-> NoView] /\ intents = <<>> /\ clients = {}
    /\ tab = [t \in Tab |-> NewTab(NoClient)] /\ camera = [t \in Tab |-> NoView]

GraphNext ==
    \/ \E s \in ViewState : SaveView(s)
    \/ DeleteView \/ Restart
    \/ \E c \in clients \cup {NoClient} : ApplyView(c)
    \/ \E t \in Tab :
         \/ \E silent \in SUBSET clients : ConnectTab(t, silent)
         \/ PollIntents(t) \/ ClaimIntent(t) \/ ShowView(t) \/ ObserveView(t) \/ ConfirmIntent(t) \/ Reload(t)
         \/ \E s \in ViewState : MoveCamera(t, s)
         \/ \E i \in DOMAIN tab[t].seen : DropObservation(t, i)
    \/ \E i \in DOMAIN intents : GrowOld(i)

GraphSpec == GraphInit /\ [][GraphNext]_graphVars

-----------------------------------------------------------------------------
(* Properties *)

\* A tab works on an intent that exists, and confirms what it has observed.
GraphTypeOK ==
    /\ view.revision \in 0 .. MaxViews /\ view.state \in ViewState \cup {NoView}
    /\ clients \subseteq 1 .. MaxClients
    /\ camera \in [Tab -> ViewState \cup {NoView}]
    /\ \A t \in Tab :
         /\ DOMAIN tab[t].seen \subseteq DOMAIN intents
         /\ tab[t].step # "idle" => tab[t].intent \in DOMAIN intents /\ tab[t].client # NoClient
         /\ tab[t].step = "confirm" => tab[t].intent \in DOMAIN tab[t].seen
         /\ \A i \in DOMAIN tab[t].seen : intents[i].client = tab[t].client

\* "Persisting an apply intent never claims a visible camera change"
\* (graph_view_control.py): an intent is applied only when its client has shown the very
\* state that the view had when it was asked for, and has seen it there.
AppliedMeansSeen ==
    \A i \in DOMAIN intents : intents[i].answer.status = "applied" =>
        /\ intents[i].answer.seen = intents[i].state
        /\ Len(intents[i].shown) = 1 /\ intents[i].shown[1].client = intents[i].client

\* "It never reapplies a view over a camera the user subsequently changed"
\* (graph-view-control.js): whatever is lost, reloaded or restarted, one tab shows an
\* intent, once.
ShownOnce == \A i \in DOMAIN intents : Len(intents[i].shown) <= 1

\* "A server restart invalidates transport leases and pending intents": what was asked
\* of one run of the server is shown by no tab that connects to a later one.
NothingIsInherited ==
    \A i \in DOMAIN intents : \A k \in DOMAIN intents[i].shown :
        intents[i].shown[k].run = intents[i].run

\* However answers are lost, tabs reloaded and servers restarted: a view counts as
\* applied only by what its tab showed of it, once (claim, acknowledge, observe).
GraphInv ==
    /\ GraphTypeOK
    /\ AppliedMeansSeen
    /\ ShownOnce
    /\ NothingIsInherited
=============================================================================
