------------------------------- MODULE Handoffs -------------------------------
(* Tasks of one thread that are handed to workers outside, and what comes back   *)
(* (services/issued_handoffs.py, return_inbox.py, gnom_jobs.py, gnom_callback.py, *)
(* server_sync/handoffs.py).  A request is answered after several transactions,   *)
(* may be repeated, and its handler may die between them.                         *)
EXTENDS Integers, Sequences, FiniteSets

CONSTANTS Handoff, Run, ReturnId,
          Handler,         \* threads that serve requests
          Nobody,          \* no run
          MaxChanges,      \* bound on changes of the thread and its knowledge, on questions and on answers
          MaxRequests      \* bound on requests about returns

ASSUME HandoffAssumption == Nobody \notin Run

VARIABLES ground,     \* what a task is based on: the thread's revision and its knowledge
          source,     \* handoff |-> the ground it was issued on
          binding,    \* handoff |-> the run that works on it
          delivery,   \* handoff |-> the run a remote delivery is reserved for
          questions,  \* handoff |-> "none", "asked" or "answered", as of its one question
          inbox,      \* return |-> what was filed under its identifier
          posted,     \* keys of results and decisions on the thread's whiteboard
          jobs,       \* gnom-jobs.json: handoff |-> the events of its job
          handling,   \* handler |-> its request and how far it is
          answered,   \* requests that got their answer
          handoffCount
handoffVars == <<ground, source, binding, delivery, questions, inbox, posted, jobs,
                 handling, answered, handoffCount>>
papers == <<source, binding, delivery, questions>>

NotIssued == [revision |-> 0, knowledge |-> 0]
Nothing == [handoff |-> "none"]
Free == [step |-> "free"]

Current(h) == source[h] = ground

-----------------------------------------------------------------------------
(* The issued record: its transactions *)

IssueHandoff(h) ==
    /\ source[h] = NotIssued /\ source' = [source EXCEPT ![h] = ground]
    /\ UNCHANGED <<ground, binding, delivery, questions, inbox, posted, jobs, handling, answered, handoffCount>>

\* reserve_delivery: the marker is immutable and comes before any run.
Reservable(h, run) == delivery[h] = Nobody /\ binding[h] = Nobody

ReserveDelivery(h, run) ==
    /\ source[h] # NotIssued /\ Reservable(h, run)
    /\ delivery' = [delivery EXCEPT ![h] = run]
    /\ UNCHANGED <<ground, source, binding, questions, inbox, posted, jobs, handling, answered, handoffCount>>

\* Faulty variant: a run takes a handoff over from another.
BindableAgain(h, run) == delivery[h] \in {Nobody, run} /\ Current(h)
\* bind: the first run, the one of the delivery, on the ground of the handoff.
Bindable(h, run) == binding[h] = Nobody /\ delivery[h] \in {Nobody, run} /\ Current(h)

BindRun(h, run) ==
    /\ source[h] # NotIssued /\ Bindable(h, run)
    /\ binding' = [binding EXCEPT ![h] = run]
    /\ UNCHANGED <<ground, source, delivery, questions, inbox, posted, jobs, handling, answered, handoffCount>>

\* question: asked by the bound run, answered once, both on the handoff's ground.
Question(h, run) ==
    /\ binding[h] = run /\ Current(h) /\ handoffCount.changes < MaxChanges
    /\ handoffCount' = [handoffCount EXCEPT !.changes = @ + 1]
    /\ \/ questions[h] = "none" /\ questions' = [questions EXCEPT ![h] = "asked"]
       \/ questions[h] = "asked" /\ questions' = [questions EXCEPT ![h] = "answered"]
    /\ UNCHANGED <<ground, source, binding, delivery, inbox, posted, jobs, handling, answered>>

\* The owner edits the thread or its knowledge.
Change ==
    /\ handoffCount.changes < MaxChanges
    /\ handoffCount' = [handoffCount EXCEPT !.changes = @ + 1]
    /\ \/ ground' = [ground EXCEPT !.revision = @ + 1]
       \/ ground' = [ground EXCEPT !.knowledge = @ + 1]
    /\ UNCHANGED <<source, binding, delivery, questions, inbox, posted, jobs, handling, answered>>

-----------------------------------------------------------------------------
(* Handlers *)

\* A strict return, one that need not be bound, a callback of a Gnom job, or the
\* owner's decision on a return.
RequestsAbout(id) ==
    [kind : {"strict", "loose"}, id : {id}, handoff : Handoff, run : Run]
    \cup [kind : {"gnom"}, id : {id}, handoff : Handoff, run : {Nobody}]
    \cup [kind : {"decide"}, id : {id}, choice : {"accepted", "rejected"}]

AcceptRequest(p, q) ==
    /\ handling[p] = Free /\ handoffCount.requests < MaxRequests
    /\ handoffCount' = [handoffCount EXCEPT !.requests = @ + 1]
    /\ handling' = [handling EXCEPT ![p] =
          [step |-> IF q.kind = "gnom" THEN "job" ELSE "file", request |-> q, file |-> jobs,
           again |-> FALSE]]
    /\ UNCHANGED <<ground, papers, inbox, posted, jobs, answered>>

Advance(p, step) == handling' = [handling EXCEPT ![p].step = step]
RefuseHandling(p) == handling' = [handling EXCEPT ![p] = Free]

\* GnomJobRegistry.record: one file, read when the request was accepted and written
\* whole, without a lock; a known event passes, an event after delivery does not.
RecordEvent(p) ==
    LET q == handling[p].request
        events == handling[p].file[q.handoff]
    IN /\ handling[p].step = "job"
       /\ IF \E i \in DOMAIN events : events[i] = q.id
          THEN Advance(p, "file") /\ UNCHANGED jobs
          ELSE IF events # <<>> THEN RefuseHandling(p) /\ UNCHANGED jobs
          ELSE /\ jobs' = [handling[p].file EXCEPT ![q.handoff] = Append(@, q.id)]
               /\ Advance(p, "file")
       /\ UNCHANGED <<ground, papers, inbox, posted, answered, handoffCount>>

\* check_return: what is known of the handoff must fit; strictly, a run must be bound.
Fits(q) ==
    \/ q.kind = "gnom"
    \/ q.kind = "loose" /\ source[q.handoff] = NotIssued
    \/ /\ source[q.handoff] # NotIssued /\ Current(q.handoff)
       /\ binding[q.handoff] = q.run \/ (q.kind = "loose" /\ binding[q.handoff] = Nobody)

Bound(q) == q.kind # "gnom" /\ source[q.handoff] # NotIssued /\ binding[q.handoff] = q.run

Same(item, q) == item.handoff = q.handoff /\ item.run = q.run
\* A strict request wants the item to be bound, even when it is there already.
Repeats(item, q) == Same(item, q) /\ (q.kind = "strict" => item.bound)

\* ReturnInbox._receive, in its transaction.
FileReturn(p) ==
    LET q == handling[p].request
        item == inbox[q.id]
    IN /\ handling[p].step = "file" /\ q.kind # "decide"
       /\ \/ item # Nothing /\ Repeats(item, q) /\ UNCHANGED inbox
             /\ handling' = [handling EXCEPT ![p].step = "board", ![p].again = TRUE]
          \/ /\ item = Nothing /\ Fits(q)
             /\ inbox' = [inbox EXCEPT ![q.id] =
                    [handoff |-> q.handoff, run |-> q.run, bound |-> Bound(q), decision |-> "none"]]
             /\ Advance(p, "board")
          \/ /\ ~(item # Nothing /\ Repeats(item, q)) /\ ~(item = Nothing /\ Fits(q))
             /\ RefuseHandling(p) /\ UNCHANGED inbox
       /\ UNCHANGED <<ground, papers, posted, jobs, answered, handoffCount>>

OpenTo(item, choice) == item.decision \in {"none", choice}

\* ReturnInbox._decide.
FileDecision(p) ==
    LET q == handling[p].request
        item == inbox[q.id]
    IN /\ handling[p].step = "file" /\ q.kind = "decide"
       /\ IF item # Nothing /\ OpenTo(item, q.choice)
          THEN inbox' = [inbox EXCEPT ![q.id].decision = q.choice] /\ Advance(p, "board")
          ELSE RefuseHandling(p) /\ UNCHANGED inbox
       /\ UNCHANGED <<ground, papers, posted, jobs, answered, handoffCount>>

KeyOf(q) == IF q.kind = "decide" THEN <<"decision", q.id, q.choice>> ELSE <<"result", q.id>>

\* Faulty variant: a duplicate is answered at once.
PostedWhenNew(p) == IF handling[p].again THEN {} ELSE {KeyOf(handling[p].request)}
\* append_from_return and append_from_decision: an entry of this key, whoever wrote it.
Posted(p) == {KeyOf(handling[p].request)}

\* The entry and a new revision of the thread, in a transaction of their own; then
\* the answer.
PostAndAnswer(p) ==
    LET q == handling[p].request
    IN /\ handling[p].step = "board"
       /\ posted' = posted \cup Posted(p)
       /\ ground' = IF Posted(p) \subseteq posted THEN ground ELSE [ground EXCEPT !.revision = @ + 1]
       /\ answered' = answered \cup {q}
       /\ RefuseHandling(p)
       /\ UNCHANGED <<papers, inbox, jobs, handoffCount>>

\* The process dies.
HandlersDie ==
    /\ handoffCount.deaths = 0 /\ handoffCount' = [handoffCount EXCEPT !.deaths = 1]
    /\ handling' = [p \in Handler |-> Free]
    /\ UNCHANGED <<ground, papers, inbox, posted, jobs, answered>>

-----------------------------------------------------------------------------
HandoffInit ==
    /\ ground = [revision |-> 1, knowledge |-> 0]
    /\ source = [h \in Handoff |-> NotIssued]
    /\ binding = [h \in Handoff |-> Nobody] /\ delivery = [h \in Handoff |-> Nobody]
    /\ questions = [h \in Handoff |-> "none"]
    /\ inbox = [id \in ReturnId |-> Nothing]
    /\ posted = {} /\ answered = {}
    /\ jobs = [h \in Handoff |-> <<>>]
    /\ handling = [p \in Handler |-> Free]
    /\ handoffCount = [changes |-> 0, requests |-> 0, deaths |-> 0]

HandoffNext ==
    \/ \E h \in Handoff, run \in Run :
          IssueHandoff(h) \/ ReserveDelivery(h, run) \/ BindRun(h, run) \/ Question(h, run)
    \/ Change \/ HandlersDie
    \/ \E p \in Handler :
          \/ \E id \in ReturnId : \E q \in RequestsAbout(id) : AcceptRequest(p, q)
          \/ RecordEvent(p) \/ FileReturn(p) \/ FileDecision(p) \/ PostAndAnswer(p)

HandoffSpec == HandoffInit /\ [][HandoffNext]_handoffVars

-----------------------------------------------------------------------------
(* Properties *)

HandoffTypeOK ==
    /\ \A id \in ReturnId : inbox[id] # Nothing =>
          /\ inbox[id].decision \in {"none", "accepted", "rejected"}
          /\ inbox[id].bound => source[inbox[id].handoff] # NotIssued
    /\ \A h \in Handoff : Len(jobs[h]) <= 1
    /\ \A h \in Handoff : questions[h] # "none" => binding[h] # Nobody

\* Whatever order reservations, runs and returns come in: the run that works on a
\* handoff is the one it was delivered to, and bound returns are that run's.
RunsMatch ==
    /\ \A h \in Handoff : binding[h] # Nobody /\ delivery[h] # Nobody => binding[h] = delivery[h]
    /\ \A id \in ReturnId : inbox[id] # Nothing /\ inbox[id].bound =>
          binding[inbox[id].handoff] = inbox[id].run

\* A return or a decision that was answered is in the inbox and on the board, also
\* when its first handler died on the way (receive_return, decide_return).
AnsweredIsFiled ==
    \A q \in answered :
        /\ KeyOf(q) \in posted
        /\ inbox[q.id] # Nothing
        /\ q.kind = "decide" => inbox[q.id].decision = q.choice

\* The board never tells of two decisions on one return, nor of one that is not the
\* inbox's (_decide in its own transaction before the entry).
OneDecisionShown ==
    \A k \in posted : k[1] = "decision" => inbox[k[2]].decision = k[3]

\* However runs race, requests are repeated and handlers die: one run answers a handoff
\* and what was answered is filed and shown once (issue, bind_run, receive_return).
HandoffInv ==
    /\ HandoffTypeOK
    /\ RunsMatch
    /\ AnsweredIsFiled
    /\ OneDecisionShown
===============================================================================
