------------------------------ MODULE Commands ------------------------------
(***************************************************************************)
(* CommandApplication: the one entrance for commands of every transport.    *)
(* A data command and its receipt are one transaction; any other command is *)
(* reserved, executed by its owner and then marked complete or failed, in   *)
(* three transactions with the effect between them.  A reservation whose    *)
(* outcome is unknown is never executed again; command.reconcile completes  *)
(* it from the owner's own receipt.  Transactions are atomic, as Workspace  *)
(* shows for the JSON store.                                                *)
(*                                                                          *)
(* A request stands for its digest.  Its kinds: "data"; "native", whose     *)
(* owner keeps receipts under the same operation (thread_manage) and can    *)
(* also be called directly; "external", whose effect nobody can prove;      *)
(* "reconcile".  What differs between two results of one request is whether *)
(* they are marked as a duplicate.                                          *)
(***************************************************************************)
EXTENDS Naturals, FiniteSets

CONSTANTS
    Worker,        \* processes and request handlers
    Operation,
    Request,       \* [op, kind, content], or [op, kind |-> "reconcile", of]
    Overwrites,    \* TRUE: JSON files, FALSE: rows inserted once (SQLite)
    Null,
    MaxCalls,      \* bound on calls, retries included
    MaxStops       \* bound on killed workers

ASSUME RequestAssumption ==
    /\ Overwrites \in BOOLEAN
    /\ Null \notin Request
    /\ \A q \in Request :
         /\ q.op \in Operation
         /\ q.kind \in {"data", "native", "external", "reconcile"}
         /\ q.kind = "reconcile" => q.of \in Request /\ q.of.kind # "reconcile"

VARIABLES
    receipts,    \* <<operation, state>> |-> [request, result]
    owned,       \* the owners' receipts: operation |-> request
    effects,     \* how often a request took effect
    worker,      \* what each worker is doing
    budget       \* what is left of the bounds

vars == <<receipts, owned, effects, worker, budget>>

------------------------------------------------------------------------------
State == {"pending", "failed", "complete"}
Result == {"first", "duplicate"}

With(f, k, v) == [x \in DOMAIN f \cup {k} |-> IF x = k THEN v ELSE f[x]]

Has(op, state) == <<op, state>> \in DOMAIN receipts
Reserved(op) == \E state \in State : Has(op, state)

\* _receipt: the state that counts is the furthest one.
Standing(op) ==
    receipts[<<op, IF Has(op, "complete") THEN "complete"
                   ELSE IF Has(op, "failed") THEN "failed" ELSE "pending">>]

Idle == [at |-> "idle", via |-> Null, request |-> Null, result |-> Null]

Move(w, changed) == worker' = [worker EXCEPT ![w] = changed]
At(w, at) == worker[w].at = at
Go(w, at, result) == Move(w, [worker[w] EXCEPT !.at = at, !.result = result])

\* The call returns, with a result or with an error.
Return(w) == Move(w, Idle)

\* _save: a receipt of its own per state.
Save(w, state, result) ==
    receipts' = With(receipts, <<worker[w].request.op, state>>,
                     [request |-> worker[w].request, result |-> result])

TakeEffect(q) == effects' = [effects EXCEPT ![q] = @ + 1]

------------------------------------------------------------------------------
\* A request is sent, for the first time or again.  The tools of an owner are
\* also offered without the dispatcher.
Call(w, via, q) ==
    /\ At(w, "idle")
    /\ budget.calls > 0
    /\ via = "owner" => q.kind = "native"
    /\ budget' = [budget EXCEPT !.calls = @ - 1]
    /\ Move(w, [Idle EXCEPT !.at = "called", !.via = via, !.request = q])
    /\ UNCHANGED <<receipts, owned, effects>>

Dispatched(w) == At(w, "called") /\ worker[w].via = "command"

\* _previous: answered from the complete receipt of the same request; refused if
\* it is another's (operation_conflict) or incomplete (operation_unconfirmed).
Replay(w) ==
    /\ Dispatched(w)
    /\ Reserved(worker[w].request.op)
    /\ Return(w)
    /\ UNCHANGED <<receipts, owned, effects, budget>>

\* _check_revision, or a handler that refuses, before anything was saved.
Refuse(w) ==
    /\ At(w, "called")
    /\ Return(w)
    /\ UNCHANGED <<receipts, owned, effects, budget>>

\* A data command: effect and receipt in one transaction.
Transact(w) ==
    /\ Dispatched(w)
    /\ LET q == worker[w].request IN
         /\ q.kind = "data"
         /\ ~Reserved(q.op)
         /\ Save(w, "complete", "first")
         /\ TakeEffect(q)
    /\ Return(w)
    /\ UNCHANGED <<owned, budget>>

Begin(w) ==
    /\ Dispatched(w)
    /\ worker[w].request.kind # "data"
    /\ Go(w, "executing", Null)
    /\ UNCHANGED <<owned, effects, budget>>

\* Faulty variant: whatever is not complete is executed again.
ReserveAgain(w) ==
    Begin(w) /\ ~Has(worker[w].request.op, "complete") /\ Save(w, "pending", Null)

Reserve(w) == Begin(w) /\ ~Reserved(worker[w].request.op) /\ Save(w, "pending", Null)

------------------------------------------------------------------------------
\* The handlers.  Each may raise an exception, before or after its effect.

Executing(w, kind) == At(w, "executing") /\ worker[w].request.kind = kind

Raise(w) ==
    /\ At(w, "executing")
    /\ Go(w, "failing", Null)
    /\ UNCHANGED <<receipts, owned, effects, budget>>

\* The owner's transaction: its effect and its receipt together, at most once.
OwnerTransact(q) ==
    /\ q.op \notin DOMAIN owned
    /\ owned' = With(owned, q.op, q)
    /\ TakeEffect(q)

ExecuteNative(w) ==
    /\ Executing(w, "native")
    /\ LET q == worker[w].request IN
         \/ /\ OwnerTransact(q)
            /\ Go(w, "completing", "first") \/ Go(w, "failing", Null)
         \/ /\ q.op \in DOMAIN owned
            /\ IF owned[q.op] = q THEN Go(w, "completing", "duplicate")
                                  ELSE Go(w, "failing", Null)
            /\ UNCHANGED <<owned, effects>>
    /\ UNCHANGED <<receipts, budget>>

\* The owner's own tool.
CallOwner(w) ==
    /\ At(w, "called")
    /\ worker[w].via = "owner"
    /\ LET q == worker[w].request IN
         OwnerTransact(q) \/ (q.op \in DOMAIN owned /\ UNCHANGED <<owned, effects>>)
    /\ Return(w)
    /\ UNCHANGED <<receipts, budget>>

ExecuteExternal(w) ==
    /\ Executing(w, "external")
    /\ TakeEffect(worker[w].request)
    /\ Go(w, "completing", "first") \/ Go(w, "failing", Null)
    /\ UNCHANGED <<receipts, owned, budget>>

\* reconcile: without a reservation of exactly this request there is nothing to
\* adopt; a complete one is returned.
Inspect(w) ==
    /\ Executing(w, "reconcile")
    /\ LET q == worker[w].request.of IN
         IF Reserved(q.op) /\ Standing(q.op).request = q
           THEN Go(w, IF Has(q.op, "complete") THEN "completing" ELSE "verifying", "first")
           ELSE Go(w, "failing", Null)
    /\ UNCHANGED <<receipts, owned, effects, budget>>

\* Faulty variant: any receipt of the owner under this identifier will do.
VerifyLoosely(w) ==
    /\ At(w, "verifying")
    /\ Go(w, IF worker[w].request.of.op \in DOMAIN owned THEN "adopting" ELSE "failing", "first")
    /\ UNCHANGED <<receipts, owned, effects, budget>>

\* verify_owner_result: only a native owner has a receipt to show.
Verify(w) ==
    /\ At(w, "verifying")
    /\ LET q == worker[w].request.of IN
         IF q.kind = "native" /\ q.op \in DOMAIN owned /\ owned[q.op] = q
           THEN Go(w, "adopting", "first")
           ELSE Go(w, "failing", Null)
    /\ UNCHANGED <<receipts, owned, effects, budget>>

\* The owner's result, marked as a duplicate, completes the reservation unless
\* somebody completed it since.
Adopt(w) ==
    /\ At(w, "adopting")
    /\ LET q == worker[w].request.of IN
         receipts' = IF Has(q.op, "complete") THEN receipts
                     ELSE With(receipts, <<q.op, "complete">>,
                               [request |-> q, result |-> "duplicate"])
    /\ Go(w, "completing", "first")
    /\ UNCHANGED <<owned, effects, budget>>

------------------------------------------------------------------------------
\* A JSON receipt replaces the one adopted meanwhile, an insertion fails.
Complete(w) ==
    /\ At(w, "completing")
    /\ IF Overwrites \/ ~Has(worker[w].request.op, "complete")
         THEN Save(w, "complete", worker[w].result)
         ELSE UNCHANGED receipts
    /\ Return(w)
    /\ UNCHANGED <<owned, effects, budget>>

Fail(w) ==
    /\ At(w, "failing")
    /\ Save(w, "failed", Null)
    /\ Return(w)
    /\ UNCHANGED <<owned, effects, budget>>

\* The process is killed, or a transaction fails: the caller is left without an
\* answer and the reservation as it is.
Stop(w) ==
    /\ ~At(w, "idle")
    /\ budget.stops > 0
    /\ budget' = [budget EXCEPT !.stops = @ - 1]
    /\ Return(w)
    /\ UNCHANGED <<receipts, owned, effects>>

------------------------------------------------------------------------------
Init ==
    /\ receipts = [k \in {} |-> Null]
    /\ owned = [k \in {} |-> Null]
    /\ effects = [q \in Request |-> 0]
    /\ worker = [w \in Worker |-> Idle]
    /\ budget = [calls |-> MaxCalls, stops |-> MaxStops]

Step(w) ==
    \/ Replay(w) \/ Refuse(w) \/ Transact(w) \/ Reserve(w) \/ Raise(w)
    \/ ExecuteNative(w) \/ CallOwner(w) \/ ExecuteExternal(w)
    \/ Inspect(w) \/ Verify(w) \/ Adopt(w) \/ Complete(w) \/ Fail(w)

Next ==
    \E w \in Worker :
        \/ \E via \in {"command", "owner"}, q \in Request : Call(w, via, q)
        \/ Step(w)
        \/ Stop(w)

Spec == Init /\ [][Next]_vars
------------------------------------------------------------------------------
\* Properties

ReceiptsOK ==
    /\ DOMAIN receipts \subseteq Operation \X State
    /\ receipts = [k \in DOMAIN receipts |-> receipts[k]]
    /\ \A k \in DOMAIN receipts :
         receipts[k] \in [request : Request, result : Result \cup {Null}]

OwnersOK ==
    /\ DOMAIN owned \subseteq Operation
    /\ owned \in [DOMAIN owned -> Request]
    /\ effects \in [Request -> Nat]

WorkerState ==
    [at : {"idle", "called", "executing", "verifying", "adopting", "completing", "failing"},
     via : {"command", "owner", Null},
     request : Request \cup {Null},
     result : Result \cup {Null}]

Busy(w) == worker[w].at \notin {"idle", "called"}

\* Nobody executes without a reservation of its request.
Reservation(w) ==
    LET k == <<worker[w].request.op, "pending">> IN
    Busy(w) => k \in DOMAIN receipts /\ receipts[k].request = worker[w].request

\* What receipts and workers hold; nobody executes without its reservation.
TypeOK ==
    /\ ReceiptsOK
    /\ OwnersOK
    /\ worker \in [Worker -> WorkerState]
    /\ \A w \in Worker : Reservation(w)

\* However often a request is sent, by whichever door, and whoever is killed or
\* reconciles meanwhile, it takes effect once at most (138-139, 182).
EffectOnce == \A q \in Request : effects[q] <= 1

\* What command.operation and every replay call complete has taken effect.
CompleteMeansDone ==
    \A op \in Operation : Has(op, "complete") /\ Standing(op).request.kind # "reconcile" =>
        effects[Standing(op).request] = 1

\* An effect is never without a receipt that leads to it: the reservation of
\* the command (138), or the owner's own.
EffectIsRecorded ==
    \A q \in Request : effects[q] > 0 =>
        \/ Reserved(q.op) /\ Standing(q.op).request = q
        \/ q.op \in DOMAIN owned /\ owned[q.op] = q

\* An identifier belongs to the first request that was reserved under it, in
\* all its states, whatever is sent, fails or is adopted under it later.
OneRequestPerIdentifier ==
    \A op \in Operation : \A s, u \in State :
        Has(op, s) /\ Has(op, u) => receipts[<<op, s>>].request = receipts[<<op, u>>].request
==============================================================================
