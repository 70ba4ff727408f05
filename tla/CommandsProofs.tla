--------------------------- MODULE CommandsProofs ----------------------------
(***************************************************************************)
(* Theorems about what may be repeated, stale or late when it takes effect.  *)
(* Commands, for any requests, workers and storage: a request takes effect   *)
(* at most once and never without a receipt that leads to it, a complete     *)
(* receipt is true, and an identifier belongs to one request.  Bindings, for *)
(* any remotes, directories, saves, switches and transfers: what a pass      *)
(* writes back undoes no choice of the owner and forgets no upload.          *)
(***************************************************************************)
EXTENDS Commands, Bindings, TLAPS

(***************************************************************************)
(* Commands                                                                 *)
(***************************************************************************)

\* q is the request of a receipt.
Keeps(q) == \E s \in State : Has(q.op, s) /\ receipts[<<q.op, s>>].request = q

Owned(q) == q.op \in DOMAIN owned /\ owned[q.op] = q

\* A receipt is kept under its request's identifier, which is one request's.
Filed == \A k \in DOMAIN receipts : receipts[k].request.op = k[1]
Agreed ==
    \A k, l \in DOMAIN receipts : k[1] = l[1] => receipts[k].request = receipts[l].request
Book == Filed /\ Agreed

\* What has been established at each stage of a command.
StageInv(w) ==
    LET q == worker[w].request IN
    /\ worker[w].at # "idle" => q \in Request
    /\ worker[w].at = "called" /\ worker[w].via = "owner" => q.kind = "native"
    /\ worker[w].at \in {"verifying", "adopting"} => q.kind = "reconcile" /\ Keeps(q.of)
    /\ worker[w].at = "adopting" => q.of.kind = "native" /\ Owned(q.of)
    /\ worker[w].at = "executing" /\ q.kind = "external" => effects[q] = 0
    /\ worker[w].at = "completing" /\ q.kind # "reconcile" => effects[q] = 1

\* No two workers execute under one identifier.
SoleExecutor ==
    \A v, w \in Worker : v # w /\ Busy(v) /\ Busy(w) =>
        worker[v].request.op # worker[w].request.op

\* Where the effect of a request is recorded, by its kind.
EffectInv(q) ==
    /\ effects[q] \in {0, 1}
    /\ q.kind = "native" => (effects[q] = 1 <=> Owned(q))
    /\ q.kind \in {"data", "external"} /\ effects[q] = 1 => Keeps(q)
    /\ q.kind = "reconcile" => effects[q] = 0

TrueReceipt(op) ==
    Has(op, "complete") /\ receipts[<<op, "complete">>].request.kind # "reconcile" =>
        effects[receipts[<<op, "complete">>].request] = 1

IInv ==
    /\ TypeOK
    /\ Book
    /\ SoleExecutor
    /\ \A w \in Worker : StageInv(w)
    /\ \A q \in Request : EffectInv(q)
    /\ \A op \in Operation : TrueReceipt(op)

LEMMA Requests ==
    ASSUME NEW q \in Request
    PROVE  /\ q.op \in Operation
           /\ q # Null
           /\ q.kind \in {"data", "native", "external", "reconcile"}
           /\ q.kind = "reconcile" => q.of \in Request /\ q.of.kind # "reconcile"
BY RequestAssumption

\* What a receipt stands for is added and nothing it stood for before changes.
Recorded(q, s) ==
    /\ DOMAIN receipts' = DOMAIN receipts \cup {<<q.op, s>>}
    /\ receipts'[<<q.op, s>>].request = q
    /\ \A k \in DOMAIN receipts : receipts'[k].request = receipts[k].request

\* Saving a receipt of the request that holds the identifier, or of the first.
LEMMA Saving ==
    ASSUME ReceiptsOK, Book, NEW q \in Request, NEW s \in State,
           NEW res \in Result \cup {Null},
           receipts' = With(receipts, <<q.op, s>>, [request |-> q, result |-> res]),
           ~Reserved(q.op) \/ Keeps(q)
    PROVE  /\ ReceiptsOK' /\ Book' /\ Recorded(q, s)
           /\ Keeps(q)'
           /\ \A r \in Request : Keeps(r) => Keeps(r)'
<1> DEFINE k0 == <<q.op, s>>
<1>0. k0 \in Operation \X State
  BY Requests
<1>1. ReceiptsOK'
  BY <1>0 DEF ReceiptsOK, With
<1>2. \A k \in DOMAIN receipts : k[1] = q.op => receipts[k].request = q
  <2> SUFFICES ASSUME NEW k \in DOMAIN receipts, k[1] = q.op PROVE receipts[k].request = q
    OBVIOUS
  <2>1. k = <<q.op, k[2]>> /\ k[2] \in State
    BY DEF ReceiptsOK
  <2>2. Reserved(q.op)
    BY <2>1 DEF Reserved, Has
  <2>3. PICK u \in State : <<q.op, u>> \in DOMAIN receipts /\ receipts[<<q.op, u>>].request = q
    BY <2>2 DEF Keeps, Has
  <2>4. <<q.op, u>>[1] = q.op
    OBVIOUS
  <2> QED BY <2>3, <2>4 DEF Book, Agreed
<1>3. Recorded(q, s)
  BY <1>2 DEF Recorded, With
<1>4. Keeps(q)'
  BY <1>3 DEF Keeps, Has, Recorded
<1>5. ASSUME NEW r \in Request, Keeps(r) PROVE Keeps(r)'
  BY <1>3, <1>5 DEF Keeps, Has, Recorded
<1>6. \A k \in DOMAIN receipts' : k[1] = q.op => receipts'[k].request = q
  BY <1>2, <1>3 DEF Recorded
<1>7. \A k \in DOMAIN receipts' : k[1] # q.op =>
         k \in DOMAIN receipts /\ receipts'[k].request = receipts[k].request
  BY <1>3 DEF Recorded
<1>8. Filed'
  BY <1>6, <1>7 DEF Book, Filed
<1>9. Agreed'
  BY <1>6, <1>7 DEF Book, Agreed
<1> QED BY <1>1, <1>3, <1>4, <1>5, <1>8, <1>9 DEF Book

------------------------------------------------------------------------------
\* Steps

\* Receipts and the owners' receipts are only ever added.
Grows ==
    /\ \A k \in DOMAIN receipts :
         k \in DOMAIN receipts' /\ receipts'[k].request = receipts[k].request
    /\ \A o \in DOMAIN owned : o \in DOMAIN owned' /\ owned'[o] = owned[o]

\* w's step leaves the effects another worker relies on as they are.
OwnEffect(w) ==
    \A v \in Worker \ {w} :
        Busy(v) /\ (worker[v].at = "completing" \/ worker[v].request.kind = "external") =>
            effects'[worker[v].request] = effects[worker[v].request]

LEMMA Growing ==
    ASSUME Grows, NEW r \in Request
    PROVE  /\ Keeps(r) => Keeps(r)'
           /\ Owned(r) => Owned(r)'
BY DEF Grows, Keeps, Owned, Has

\* A worker that executes has an identifier to itself, so the steps of others
\* leave what it has established.
LEMMA Others ==
    ASSUME IInv, NEW w \in Worker, NEW c \in WorkerState, Move(w, c), Grows, OwnEffect(w),
           NEW v \in Worker, v # w
    PROVE  StageInv(v)' /\ Reservation(v)'
<1>1. worker'[v] = worker[v]
  BY DEF IInv, TypeOK, Move
<1>2. StageInv(v) /\ Reservation(v)
  BY DEF IInv, TypeOK
<1>3. Reservation(v)'
  BY <1>1, <1>2 DEF Reservation, Busy, Grows
<1>4. Busy(v) /\ (worker[v].at = "completing" \/ worker[v].request.kind = "external") =>
         effects'[worker[v].request] = effects[worker[v].request]
  BY DEF OwnEffect
<1>5. worker[v].at \in {"verifying", "adopting"} =>
         worker[v].request.of \in Request
  BY <1>2, Requests DEF StageInv
<1>6. StageInv(v)'
  BY <1>1, <1>2, <1>4, <1>5, Growing DEF StageInv, Busy
<1> QED BY <1>3, <1>6

\* The parts of the invariant a step of w has to look after itself.
LEMMA Stepping ==
    ASSUME IInv, NEW w \in Worker, NEW c \in WorkerState, Move(w, c), Grows, OwnEffect(w),
           ReceiptsOK', OwnersOK', Book', Reservation(w)', StageInv(w)',
           c.at \notin {"idle", "called"} =>
              \/ Busy(w) /\ c.request = worker[w].request
              \/ ~Reserved(c.request.op),
           \A q \in Request : EffectInv(q)',
           \A o \in Operation : TrueReceipt(o)'
    PROVE  IInv'
<1>1. worker' \in [Worker -> WorkerState] /\ worker'[w] = c
  BY DEF IInv, TypeOK, Move
<1>2. \A v \in Worker : v # w => worker'[v] = worker[v]
  BY DEF IInv, TypeOK, Move
<1>3. \A v \in Worker : StageInv(v)' /\ Reservation(v)'
  BY Others
<1>4. ASSUME NEW v \in Worker, v # w, Busy(v), Busy(w)'
      PROVE  worker[v].request.op # c.request.op
  <2>1. Reserved(worker[v].request.op)
    BY <1>4 DEF IInv, TypeOK, Reservation, Reserved, Has, State
  <2>2. CASE Busy(w) /\ c.request = worker[w].request
    BY <1>4, <2>2 DEF IInv, SoleExecutor
  <2> QED BY <1>1, <1>4, <2>1, <2>2 DEF Busy
<1>5. SoleExecutor'
  <2> SUFFICES ASSUME NEW u \in Worker, NEW v \in Worker, u # v, Busy(u)', Busy(v)'
               PROVE  worker'[u].request.op # worker'[v].request.op
    BY DEF SoleExecutor
  <2>1. CASE u = w
    BY <1>1, <1>2, <1>4, <2>1 DEF Busy
  <2>2. CASE v = w
    BY <1>1, <1>2, <1>4, <2>2 DEF Busy
  <2>3. CASE u # w /\ v # w
    BY <1>2, <2>3 DEF IInv, SoleExecutor, Busy
  <2> QED BY <2>1, <2>2, <2>3
<1>6. TypeOK'
  BY <1>1, <1>3 DEF TypeOK
<1> QED BY <1>3, <1>5, <1>6 DEF IInv

\* A step that changes nothing but what its worker is doing.
LEMMA Moving ==
    ASSUME IInv, NEW w \in Worker, NEW c \in WorkerState, Move(w, c),
           UNCHANGED <<receipts, owned, effects>>, StageInv(w)',
           c.at \notin {"idle", "called"} => Busy(w) /\ c.request = worker[w].request
    PROVE  IInv'
<1>1. Grows /\ OwnEffect(w)
  BY DEF Grows, OwnEffect
<1>2. worker'[w] = c
  BY DEF IInv, TypeOK, Move
<1>3. Reservation(w)'
  BY <1>2 DEF IInv, TypeOK, Reservation, Busy
<1>4. ReceiptsOK' /\ OwnersOK' /\ Book'
  BY DEF IInv, TypeOK, ReceiptsOK, OwnersOK, Book, Filed, Agreed
<1>5. (\A q \in Request : EffectInv(q)') /\ (\A o \in Operation : TrueReceipt(o)')
  BY DEF IInv, EffectInv, Keeps, Owned, TrueReceipt, Has
<1> QED BY <1>1, <1>3, <1>4, <1>5, Stepping

\* A step that saves a receipt of q, which is or becomes its identifier's request.
LEMMA Storing ==
    ASSUME IInv, NEW w \in Worker, NEW c \in WorkerState, Move(w, c),
           NEW q \in Request, NEW s \in State, NEW res \in Result \cup {Null},
           receipts' = With(receipts, <<q.op, s>>, [request |-> q, result |-> res]),
           ~Reserved(q.op) \/ Keeps(q), UNCHANGED <<owned, effects>>,
           s = "complete" /\ q.kind # "reconcile" => effects[q] = 1,
           Reservation(w)', StageInv(w)',
           c.at \notin {"idle", "called"} =>
              \/ Busy(w) /\ c.request = worker[w].request
              \/ ~Reserved(c.request.op)
    PROVE  IInv'
<1>1. /\ ReceiptsOK' /\ Book' /\ Recorded(q, s)
      /\ \A r \in Request : Keeps(r) => Keeps(r)'
  BY Saving DEF IInv, TypeOK
<1>2. Grows /\ OwnEffect(w) /\ OwnersOK'
  BY <1>1 DEF Grows, OwnEffect, Recorded, IInv, TypeOK, OwnersOK
<1>3. \A r \in Request : EffectInv(r)'
  BY <1>1 DEF IInv, EffectInv, Owned
<1>4. ASSUME NEW o \in Operation PROVE TrueReceipt(o)'
  <2>1. CASE <<o, "complete">> = <<q.op, s>>
    BY <1>1, <2>1 DEF TrueReceipt, Recorded
  <2>2. CASE <<o, "complete">> # <<q.op, s>>
    BY <1>1, <2>2 DEF IInv, TrueReceipt, Recorded, Has
  <2> QED BY <2>1, <2>2
<1> QED BY <1>1, <1>2, <1>3, <1>4, Stepping

\* A complete receipt is of a request that took effect.
LEMMA Truth ==
    ASSUME IInv, NEW o \in Operation, Has(o, "complete"),
           receipts[<<o, "complete">>].request.kind # "reconcile"
    PROVE  \E r \in Request : r = receipts[<<o, "complete">>].request /\ effects[r] = 1
<1>1. effects[receipts[<<o, "complete">>].request] = 1
  BY DEF IInv, TrueReceipt
<1>2. receipts[<<o, "complete">>].request \in Request
  BY DEF IInv, TypeOK, ReceiptsOK, Has
<1> QED BY <1>1, <1>2

\* An owner's transaction, as part of a command or through the owner's own tool.
LEMMA Owning ==
    ASSUME IInv, NEW w \in Worker, NEW c \in WorkerState, Move(w, c),
           NEW q \in Request, q.kind = "native", OwnerTransact(q), UNCHANGED receipts,
           c.at \in {"idle", "completing", "failing"},
           c.at # "idle" => Busy(w) /\ c.request = worker[w].request /\ c.request = q
    PROVE  IInv'
<1>1. q.op \in Operation /\ ~Owned(q)
  BY Requests DEF OwnerTransact, Owned
<1>2. effects[q] = 0
  BY <1>1 DEF IInv, EffectInv
<1>3. effects' \in [Request -> Nat] /\ effects'[q] = 1
  BY <1>1, <1>2 DEF OwnerTransact, TakeEffect, IInv, TypeOK, OwnersOK
<1>4. \A r \in Request : r # q => effects'[r] = effects[r]
  BY <1>1 DEF OwnerTransact, TakeEffect, IInv, TypeOK, OwnersOK
<1>5. /\ DOMAIN owned' = DOMAIN owned \cup {q.op} /\ owned'[q.op] = q
      /\ \A o \in DOMAIN owned : owned'[o] = owned[o]
  BY DEF OwnerTransact, With
<1>6. OwnersOK'
  <2>1. owned' \in [DOMAIN owned' -> Request]
    BY <1>1 DEF OwnerTransact, With, IInv, TypeOK, OwnersOK
  <2> QED BY <1>1, <1>3, <1>5, <2>1 DEF IInv, TypeOK, OwnersOK
<1>7. Grows
  BY <1>5 DEF Grows
<1>8. OwnEffect(w)
  <2> SUFFICES ASSUME NEW v \in Worker, v # w, Busy(v),
                      worker[v].at = "completing" \/ worker[v].request.kind = "external"
               PROVE  worker[v].request # q /\ worker[v].request \in Request
    BY <1>4 DEF OwnEffect
  <2>1. StageInv(v)
    BY DEF IInv
  <2> QED BY <1>2, <2>1 DEF StageInv, Busy
<1>9. Owned(q)' /\ \A r \in Request : r # q => (Owned(r)' <=> Owned(r))
  BY <1>5 DEF Owned, OwnerTransact
<1>10. \A r \in Request : EffectInv(r)'
  BY <1>3, <1>4, <1>9 DEF IInv, EffectInv, Keeps, Has
<1>11. \A o \in Operation : TrueReceipt(o)'
  <2> SUFFICES ASSUME NEW o \in Operation, Has(o, "complete"),
                      receipts[<<o, "complete">>].request.kind # "reconcile"
               PROVE  effects'[receipts[<<o, "complete">>].request] = 1
    BY DEF TrueReceipt, Has
  <2> QED BY <1>2, <1>4, Truth
<1>12. worker'[w] = c
  BY DEF IInv, TypeOK, Move
<1>13. Reservation(w)' /\ StageInv(w)'
  BY <1>1, <1>3, <1>12 DEF IInv, TypeOK, Reservation, Busy, StageInv
<1>14. ReceiptsOK' /\ Book'
  BY DEF IInv, TypeOK, ReceiptsOK, Book, Filed, Agreed
<1> QED BY <1>6, <1>7, <1>8, <1>10, <1>11, <1>13, <1>14, Stepping

\* A data command is effect and receipt in one.
LEMMA Transacting ==
    ASSUME IInv, NEW w \in Worker, Transact(w)
    PROVE  IInv'
<1> DEFINE c == Idle
<1>1. PICK q \in Request : q = worker[w].request
  BY DEF Transact, Dispatched, At, IInv, StageInv
<1>2. /\ q.kind = "data" /\ ~Reserved(q.op) /\ Move(w, c) /\ UNCHANGED owned
      /\ receipts' = With(receipts, <<q.op, "complete">>, [request |-> q, result |-> "first"])
      /\ effects' = [effects EXCEPT ![q] = @ + 1]
  BY <1>1 DEF Transact, Save, TakeEffect, Return
<1>3. c \in WorkerState /\ c.at = "idle"
  BY DEF WorkerState, Idle
<1>4. /\ ReceiptsOK' /\ Book' /\ Recorded(q, "complete")
      /\ Keeps(q)' /\ \A r \in Request : Keeps(r) => Keeps(r)'
  BY <1>2, Saving DEF IInv, TypeOK, State, Result
<1>5. effects[q] = 0
  BY <1>2 DEF IInv, EffectInv, Keeps, Reserved
<1>6. /\ effects' \in [Request -> Nat] /\ effects'[q] = 1
      /\ \A r \in Request : r # q => effects'[r] = effects[r]
  BY <1>2, <1>5 DEF IInv, TypeOK, OwnersOK
<1>7. Grows /\ OwnersOK'
  BY <1>2, <1>4, <1>6 DEF Grows, Recorded, IInv, TypeOK, OwnersOK
<1>8. OwnEffect(w)
  <2> SUFFICES ASSUME NEW v \in Worker, v # w, Busy(v)
               PROVE  worker[v].request # q /\ worker[v].request \in Request
    BY <1>6 DEF OwnEffect
  <2>1. Reserved(worker[v].request.op)
    BY DEF IInv, TypeOK, Reservation, Reserved, Has, State
  <2> QED BY <1>2, <2>1 DEF IInv, StageInv, Busy
<1>9. \A r \in Request : EffectInv(r)'
  BY <1>2, <1>4, <1>6 DEF IInv, EffectInv, Owned
<1>10. ASSUME NEW o \in Operation PROVE TrueReceipt(o)'
  <2>1. CASE o = q.op
    BY <1>4, <1>6, <2>1 DEF TrueReceipt, Recorded
  <2>2. CASE o # q.op
    <3> SUFFICES ASSUME Has(o, "complete"), receipts[<<o, "complete">>].request.kind # "reconcile"
                 PROVE  effects'[receipts[<<o, "complete">>].request] = 1
      BY <1>4, <2>2 DEF TrueReceipt, Recorded, Has
    <3> QED BY <1>5, <1>6, Truth
  <2> QED BY <2>1, <2>2
<1>11. worker'[w] = c
  BY <1>2 DEF IInv, TypeOK, Move
<1>12. Reservation(w)' /\ StageInv(w)'
  BY <1>3, <1>11 DEF Reservation, Busy, StageInv
<1> QED BY <1>2, <1>3, <1>4, <1>7, <1>8, <1>9, <1>10, <1>12, Stepping

\* An external effect happens behind its reservation, which is the only record.
LEMMA External ==
    ASSUME IInv, NEW w \in Worker, ExecuteExternal(w)
    PROVE  IInv'
<1>1. PICK q \in Request : q = worker[w].request
  BY DEF ExecuteExternal, Executing, At, IInv, StageInv
<1>2. PICK c \in WorkerState :
         /\ Move(w, c) /\ c.at \in {"completing", "failing"} /\ c.request = q
  <2>1. worker[w] \in WorkerState
    BY DEF IInv, TypeOK
  <2>2. \A at \in {"completing", "failing"}, res \in Result \cup {Null} :
           /\ [worker[w] EXCEPT !.at = at, !.result = res] \in WorkerState
           /\ [worker[w] EXCEPT !.at = at, !.result = res].at = at
           /\ [worker[w] EXCEPT !.at = at, !.result = res].request = worker[w].request
    BY <2>1 DEF WorkerState
  <2> QED BY <1>1, <2>2 DEF ExecuteExternal, Go, Result
<1>3. /\ worker[w].at = "executing" /\ q.kind = "external" /\ UNCHANGED <<receipts, owned>>
      /\ effects' = [effects EXCEPT ![q] = @ + 1]
  BY <1>1 DEF ExecuteExternal, Executing, At, TakeEffect
<1>4. effects[q] = 0 /\ Busy(w) /\ Reservation(w)
  BY <1>1, <1>3 DEF IInv, TypeOK, StageInv, Busy
<1>5. Keeps(q)
  BY <1>1, <1>4 DEF Reservation, Keeps, Has, State
<1>6. /\ effects' \in [Request -> Nat] /\ effects'[q] = 1
      /\ \A r \in Request : r # q => effects'[r] = effects[r]
  BY <1>3, <1>4 DEF IInv, TypeOK, OwnersOK
<1>7. Grows /\ OwnersOK' /\ ReceiptsOK' /\ Book'
  BY <1>3, <1>6 DEF Grows, IInv, TypeOK, OwnersOK, ReceiptsOK, Book, Filed, Agreed
<1>8. OwnEffect(w)
  <2> SUFFICES ASSUME NEW v \in Worker, v # w, Busy(v)
               PROVE  worker[v].request # q /\ worker[v].request \in Request
    BY <1>6 DEF OwnEffect
  <2> QED BY <1>1, <1>4 DEF IInv, SoleExecutor, StageInv, Busy
<1>9. \A r \in Request : EffectInv(r)'
  BY <1>3, <1>5, <1>6 DEF IInv, EffectInv, Owned, Keeps, Has
<1>10. ASSUME NEW o \in Operation PROVE TrueReceipt(o)'
  <2> SUFFICES ASSUME Has(o, "complete"), receipts[<<o, "complete">>].request.kind # "reconcile"
               PROVE  effects'[receipts[<<o, "complete">>].request] = 1
    BY <1>3 DEF TrueReceipt, Has
  <2> QED BY <1>4, <1>6, Truth
<1>11. worker'[w] = c
  BY <1>2 DEF IInv, TypeOK, Move
<1>12. Reservation(w)' /\ StageInv(w)'
  BY <1>1, <1>2, <1>3, <1>4, <1>6, <1>11 DEF Reservation, Busy, StageInv
<1> QED BY <1>1, <1>2, <1>4, <1>7, <1>8, <1>9, <1>10, <1>12, Stepping

------------------------------------------------------------------------------
\* The actions

LEMMA Idling == Idle \in WorkerState /\ Idle.at = "idle"
BY DEF Idle, WorkerState

\* Where Go leaves a worker.
LEMMA Going ==
    ASSUME IInv, NEW w \in Worker,
           NEW at \in {"executing", "verifying", "adopting", "completing", "failing"},
           NEW res \in Result \cup {Null}, Go(w, at, res)
    PROVE  \E c \in WorkerState : Move(w, c) /\ c.at = at /\ c.request = worker[w].request
<1> DEFINE c == [worker[w] EXCEPT !.at = at, !.result = res]
<1>1. worker[w] \in WorkerState
  BY DEF IInv, TypeOK
<1>2. c \in WorkerState /\ c.at = at /\ c.request = worker[w].request
  BY <1>1 DEF WorkerState
<1>3. Move(w, c)
  BY DEF Go
<1> HIDE DEF c
<1> QED BY <1>2, <1>3

LEMMA Moved ==
    ASSUME IInv, NEW w \in Worker, NEW c, Move(w, c)
    PROVE  worker'[w] = c
BY DEF IInv, TypeOK, Move

\* A worker that returns leaves everything to the others.
LEMMA Returning ==
    ASSUME IInv, NEW w \in Worker, Return(w), UNCHANGED <<receipts, owned, effects>>
    PROVE  IInv'
<1>1. Move(w, Idle) /\ worker'[w] = Idle
  BY Moved DEF Return
<1>2. StageInv(w)'
  BY <1>1, Idling DEF StageInv
<1> QED BY <1>1, <1>2, Idling, Moving

LEMMA Calling ==
    ASSUME IInv, NEW w \in Worker, NEW via \in {"command", "owner"}, NEW q \in Request,
           Call(w, via, q)
    PROVE  IInv'
<1> DEFINE c == [Idle EXCEPT !.at = "called", !.via = via, !.request = q]
<1>1. c \in WorkerState /\ c.at = "called" /\ c.request = q /\ c.via = via
  BY DEF Idle, WorkerState
<1>2. Move(w, c) /\ worker'[w] = c /\ UNCHANGED <<receipts, owned, effects>>
  BY Moved DEF Call
<1>3. StageInv(w)'
  BY <1>1, <1>2 DEF StageInv, Call
<1> QED BY <1>1, <1>2, <1>3, Moving

\* The stages of a reconciliation, and the failure of a handler.
LEMMA Deciding ==
    ASSUME IInv, NEW w \in Worker, Raise(w) \/ Inspect(w) \/ Verify(w)
    PROVE  IInv'
<1> DEFINE q == worker[w].request
<1>1. /\ q \in Request /\ Busy(w) /\ StageInv(w) /\ UNCHANGED <<receipts, owned, effects>>
  BY DEF Raise, Inspect, Verify, Executing, At, Busy, IInv, StageInv
<1>2. PICK at \in {"verifying", "adopting", "completing", "failing"}, res \in Result \cup {Null} :
         /\ Go(w, at, res)
         /\ at = "completing" => q.kind = "reconcile"
         /\ at \in {"verifying", "adopting"} => q.kind = "reconcile" /\ Keeps(q.of)
         /\ at = "adopting" => q.of.kind = "native" /\ Owned(q.of)
  <2>1. CASE Raise(w)
    BY <2>1 DEF Raise
  <2>2. CASE Inspect(w)
    <3>1. q.kind = "reconcile"
      BY <2>2 DEF Inspect, Executing
    <3>2. CASE Reserved(q.of.op) /\ Standing(q.of.op).request = q.of
      <4>1. Keeps(q.of)
        BY <3>2 DEF Standing, Keeps, Reserved, Has, State
      <4> QED BY <2>2, <3>1, <3>2, <4>1 DEF Inspect, Result
    <3>3. CASE ~(Reserved(q.of.op) /\ Standing(q.of.op).request = q.of)
      BY <2>2, <3>3 DEF Inspect
    <3> QED BY <3>2, <3>3
  <2>3. CASE Verify(w)
    <3>1. q.kind = "reconcile" /\ Keeps(q.of)
      BY <1>1, <2>3 DEF Verify, At, StageInv
    <3>2. CASE q.of.kind = "native" /\ Owned(q.of)
      BY <2>3, <3>1, <3>2 DEF Verify, Owned, Result
    <3>3. CASE ~(q.of.kind = "native" /\ Owned(q.of))
      BY <2>3, <3>3 DEF Verify, Owned
    <3> QED BY <3>2, <3>3
  <2> QED BY <2>1, <2>2, <2>3
<1>3. PICK c \in WorkerState : Move(w, c) /\ c.at = at /\ c.request = q
  BY <1>2, Going
<1>4. worker'[w] = c
  BY <1>3, Moved
<1>5. StageInv(w)'
  BY <1>1, <1>2, <1>3, <1>4 DEF StageInv, Keeps, Owned, Has
<1> QED BY <1>1, <1>3, <1>5, Moving

LEMMA Reserving ==
    ASSUME IInv, NEW w \in Worker, Reserve(w)
    PROVE  IInv'
<1>1. PICK q \in Request : q = worker[w].request
  BY DEF Reserve, Begin, Dispatched, At, IInv, StageInv
<1>2. PICK c \in WorkerState : Move(w, c) /\ c.at = "executing" /\ c.request = q
  <2>1. Go(w, "executing", Null)
    BY DEF Reserve, Begin
  <2> QED BY <1>1, <2>1, Going
<1>3. /\ ~Reserved(q.op) /\ UNCHANGED <<owned, effects>>
      /\ receipts' = With(receipts, <<q.op, "pending">>, [request |-> q, result |-> Null])
  BY <1>1 DEF Reserve, Begin, Save
<1>4. worker'[w] = c
  BY <1>2, Moved
<1>5. Reservation(w)'
  BY <1>2, <1>3, <1>4 DEF Reservation, With
<1>6. q.kind = "external" => effects[q] = 0
  BY <1>3 DEF IInv, EffectInv, Keeps, Reserved
<1>7. StageInv(w)'
  BY <1>2, <1>3, <1>4, <1>6 DEF StageInv
<1> QED BY <1>2, <1>3, <1>5, <1>7, Storing DEF State

\* What a worker that executes has in hand.
LEMMA Executes ==
    ASSUME IInv, NEW w \in Worker, Busy(w)
    PROVE  /\ worker[w].request \in Request
           /\ Keeps(worker[w].request)
           /\ StageInv(w) /\ Reservation(w)
BY DEF IInv, TypeOK, StageInv, Reservation, Busy, Keeps, Has, State

LEMMA Adopting ==
    ASSUME IInv, NEW w \in Worker, Adopt(w)
    PROVE  IInv'
<1>1. Busy(w) /\ worker[w].at = "adopting"
  BY DEF Adopt, At, Busy
<1>2. PICK q \in Request : q = worker[w].request
  BY <1>1, Executes
<1>3. q.kind = "reconcile" /\ Keeps(q.of) /\ q.of.kind = "native" /\ Owned(q.of)
  BY <1>1, <1>2, Executes DEF StageInv
<1>4. PICK r \in Request : r = q.of
  BY <1>3, Requests
<1>5. PICK c \in WorkerState : Move(w, c) /\ c.at = "completing" /\ c.request = q
  <2>1. Go(w, "completing", "first") /\ "first" \in Result \cup {Null}
    BY DEF Adopt, Result
  <2> QED BY <1>2, <2>1, Going
<1>6. worker'[w] = c
  BY <1>5, Moved
<1>7. StageInv(w)'
  BY <1>3, <1>5, <1>6 DEF StageInv
<1>8. CASE Has(r.op, "complete")
  <2>1. UNCHANGED <<receipts, owned, effects>>
    BY <1>2, <1>4, <1>8 DEF Adopt
  <2> QED BY <1>1, <1>2, <1>5, <1>7, <2>1, Moving
<1>9. CASE ~Has(r.op, "complete")
  <2>1. /\ UNCHANGED <<owned, effects>>
        /\ receipts' = With(receipts, <<r.op, "complete">>, [request |-> r, result |-> "duplicate"])
    BY <1>2, <1>4, <1>9 DEF Adopt
  <2>2. effects[r] = 1
    BY <1>3, <1>4 DEF IInv, EffectInv
  <2>3. Reservation(w) /\ <<q.op, "pending">> \in DOMAIN receipts
    BY <1>1, <1>2, Executes DEF Reservation
  <2>4. Reservation(w)'
    BY <1>1, <1>2, <1>5, <1>6, <2>1, <2>3 DEF Reservation, With
  <2> QED BY <1>1, <1>2, <1>3, <1>4, <1>5, <1>7, <2>1, <2>2, <2>4, Storing DEF State, Result
<1> QED BY <1>8, <1>9

LEMMA Ending ==
    ASSUME IInv, NEW w \in Worker, Complete(w) \/ Fail(w)
    PROVE  IInv'
<1>1. Busy(w) /\ Return(w) /\ UNCHANGED <<owned, effects>>
  BY DEF Complete, Fail, At, Busy
<1>2. CASE UNCHANGED receipts
  BY <1>1, <1>2, Returning
<1>3. CASE \E s \in {"complete", "failed"}, res \in Result \cup {Null} :
             Save(w, s, res) /\ (s = "complete" => worker[w].at = "completing")
  <2>1. PICK q \in Request : q = worker[w].request
    BY <1>1, Executes
  <2>2. PICK s \in {"complete", "failed"}, res \in Result \cup {Null} :
           /\ receipts' = With(receipts, <<q.op, s>>, [request |-> q, result |-> res])
           /\ s = "complete" => worker[w].at = "completing"
    BY <1>3, <2>1 DEF Save
  <2>3. s = "complete" /\ q.kind # "reconcile" => effects[q] = 1
    BY <1>1, <2>1, <2>2, Executes DEF StageInv
  <2>4. Move(w, Idle) /\ worker'[w] = Idle /\ Idle \in WorkerState /\ Idle.at = "idle"
    BY <1>1, Moved, Idling DEF Return
  <2>5. Reservation(w)' /\ StageInv(w)'
    BY <2>4 DEF Reservation, Busy, StageInv
  <2>6. Keeps(q)
    BY <1>1, <2>1, Executes
  <2> QED BY <1>1, <2>2, <2>3, <2>4, <2>5, <2>6, Storing DEF State
<1>4. worker[w].result \in Result \cup {Null}
  BY DEF IInv, TypeOK, WorkerState
<1> QED BY <1>2, <1>3, <1>4 DEF Complete, Fail, At

LEMMA Natively ==
    ASSUME IInv, NEW w \in Worker, ExecuteNative(w)
    PROVE  IInv'
<1>1. Busy(w) /\ worker[w].request.kind = "native" /\ UNCHANGED receipts
  BY DEF ExecuteNative, Executing, At, Busy
<1>2. PICK q \in Request : q = worker[w].request
  BY <1>1, Executes
<1>3. PICK at \in {"completing", "failing"}, res \in Result \cup {Null} :
         /\ Go(w, at, res)
         /\ \/ OwnerTransact(q)
            \/ UNCHANGED <<owned, effects>> /\ (at = "completing" => Owned(q))
  BY <1>2 DEF ExecuteNative, Result, Owned
<1>4. PICK c \in WorkerState : Move(w, c) /\ c.at = at /\ c.request = q
  BY <1>2, <1>3, Going
<1>5. CASE OwnerTransact(q)
  BY <1>1, <1>2, <1>4, <1>5, Owning
<1>6. CASE UNCHANGED <<owned, effects>> /\ (at = "completing" => Owned(q))
  <2>1. worker'[w] = c
    BY <1>4, Moved
  <2>2. at = "completing" => effects[q] = 1
    BY <1>1, <1>2, <1>6 DEF IInv, EffectInv
  <2>3. StageInv(w)'
    BY <1>4, <1>6, <2>1, <2>2 DEF StageInv
  <2> QED BY <1>1, <1>2, <1>4, <1>6, <2>3, Moving
<1> QED BY <1>3, <1>5, <1>6

LEMMA Directly ==
    ASSUME IInv, NEW w \in Worker, CallOwner(w)
    PROVE  IInv'
<1>1. PICK q \in Request : q = worker[w].request /\ q.kind = "native"
  BY DEF CallOwner, At, IInv, StageInv
<1>2. Return(w) /\ UNCHANGED receipts
  BY DEF CallOwner
<1>3. CASE OwnerTransact(q)
  BY <1>1, <1>2, <1>3, Idling, Owning DEF Return
<1>4. CASE UNCHANGED <<owned, effects>>
  BY <1>2, <1>4, Returning
<1> QED BY <1>1, <1>3, <1>4 DEF CallOwner

------------------------------------------------------------------------------
LEMMA Initially == Init => IInv
<1> SUFFICES ASSUME Init PROVE IInv
  OBVIOUS
<1>1. TypeOK
  BY Idling DEF Init, TypeOK, ReceiptsOK, OwnersOK, Reservation, Busy, Idle
<1>2. Book /\ \A o \in Operation : TrueReceipt(o)
  BY DEF Init, Book, Filed, Agreed, TrueReceipt, Has
<1>3. SoleExecutor /\ \A w \in Worker : StageInv(w)
  BY DEF Init, SoleExecutor, StageInv, Busy, Idle
<1>4. \A q \in Request : EffectInv(q)
  BY DEF Init, EffectInv, Owned
<1> QED BY <1>1, <1>2, <1>3, <1>4 DEF IInv

LEMMA Inductive == IInv /\ [Next]_vars => IInv'
<1> SUFFICES ASSUME IInv, [Next]_vars PROVE IInv'
  OBVIOUS
<1>1. ASSUME NEW w \in Worker, NEW via \in {"command", "owner"}, NEW q \in Request,
             Call(w, via, q)
      PROVE  IInv'
  BY <1>1, Calling
<1>2. ASSUME NEW w \in Worker, Replay(w) \/ Refuse(w) \/ Stop(w) PROVE IInv'
  BY <1>2, Returning DEF Replay, Refuse, Stop
<1>3. ASSUME NEW w \in Worker, Transact(w) PROVE IInv'
  BY <1>3, Transacting
<1>4. ASSUME NEW w \in Worker, Reserve(w) PROVE IInv'
  BY <1>4, Reserving
<1>5. ASSUME NEW w \in Worker, Raise(w) \/ Inspect(w) \/ Verify(w) PROVE IInv'
  BY <1>5, Deciding
<1>6. ASSUME NEW w \in Worker, ExecuteNative(w) PROVE IInv'
  BY <1>6, Natively
<1>7. ASSUME NEW w \in Worker, CallOwner(w) PROVE IInv'
  BY <1>7, Directly
<1>8. ASSUME NEW w \in Worker, ExecuteExternal(w) PROVE IInv'
  BY <1>8, External
<1>9. ASSUME NEW w \in Worker, Adopt(w) PROVE IInv'
  BY <1>9, Adopting
<1>10. ASSUME NEW w \in Worker, Complete(w) \/ Fail(w) PROVE IInv'
  BY <1>10, Ending
<1>11. CASE UNCHANGED vars
  <2>1. UNCHANGED <<receipts, owned, effects, worker>>
    BY <1>11 DEF vars
  <2>2. TypeOK'
    BY <2>1 DEF IInv, TypeOK, ReceiptsOK, OwnersOK, Reservation, Busy
  <2>3. Book' /\ SoleExecutor'
    BY <2>1 DEF IInv, Book, Filed, Agreed, SoleExecutor, Busy
  <2>4. \A w \in Worker : StageInv(w)'
    BY <2>1 DEF IInv, StageInv, Keeps, Owned, Has
  <2>5. \A q \in Request : EffectInv(q)'
    BY <2>1 DEF IInv, EffectInv, Keeps, Owned, Has
  <2>6. \A o \in Operation : TrueReceipt(o)'
    BY <2>1 DEF IInv, TrueReceipt, Has
  <2> QED BY <2>2, <2>3, <2>4, <2>5, <2>6 DEF IInv
<1> QED BY <1>1, <1>2, <1>3, <1>4, <1>5, <1>6, <1>7, <1>8, <1>9, <1>10, <1>11
         DEF Next, Step

LEMMA Invariantly == Spec => []IInv
BY Initially, Inductive, PTL DEF Spec

\* Nobody executes without the reservation of its request, and receipts and
\* workers hold what the code puts there.
THEOREM WorkersAreReserved == Spec => []TypeOK
<1>1. IInv => TypeOK
  BY DEF IInv
<1> QED BY <1>1, Invariantly, PTL

\* However often, by whichever door and by however many workers a request is
\* sent, and whoever is killed or reconciles, it takes effect once at most.
THEOREM EffectsHappenOnce == Spec => []EffectOnce
<1>1. IInv => EffectOnce
  BY DEF IInv, EffectInv, EffectOnce
<1> QED BY <1>1, Invariantly, PTL

\* A complete receipt is never given for something that did not happen.
THEOREM CompleteReceiptsAreTrue == Spec => []CompleteMeansDone
<1>1. IInv => CompleteMeansDone
  BY DEF IInv, TrueReceipt, CompleteMeansDone, Standing, Has
<1> QED BY <1>1, Invariantly, PTL

\* No effect is without a receipt that leads to it.
THEOREM EffectsAreRecorded == Spec => []EffectIsRecorded
<1>1. IInv => EffectIsRecorded
  <2> SUFFICES ASSUME IInv, NEW q \in Request, effects[q] > 0
               PROVE  \/ Reserved(q.op) /\ Standing(q.op).request = q
                      \/ q.op \in DOMAIN owned /\ owned[q.op] = q
    BY DEF EffectIsRecorded
  <2>1. effects[q] = 1
    BY DEF IInv, EffectInv
  <2>2. Owned(q) \/ Keeps(q)
    BY <2>1, Requests DEF IInv, EffectInv
  <2>3. CASE Keeps(q)
    <3>1. Reserved(q.op)
      BY <2>3 DEF Keeps, Reserved
    <3>2. PICK s \in State : <<q.op, s>> \in DOMAIN receipts /\ receipts[<<q.op, s>>].request = q
      BY <2>3 DEF Keeps, Has
    <3>3. PICK u \in State : <<q.op, u>> \in DOMAIN receipts /\ Standing(q.op) = receipts[<<q.op, u>>]
      BY <3>1 DEF Standing, Reserved, Has, State
    <3>4. <<q.op, s>>[1] = <<q.op, u>>[1]
      OBVIOUS
    <3>5. receipts[<<q.op, u>>].request = q
      BY <3>2, <3>3, <3>4 DEF IInv, Book, Agreed
    <3> QED BY <3>1, <3>3, <3>5
  <2> QED BY <2>2, <2>3 DEF Owned
<1> QED BY <1>1, Invariantly, PTL

\* An identifier belongs to the first request that was reserved under it.
THEOREM IdentifiersAreNotShared == Spec => []OneRequestPerIdentifier
<1>1. IInv => OneRequestPerIdentifier
  <2> SUFFICES ASSUME IInv, NEW o \in Operation, NEW s \in State, NEW u \in State,
                      Has(o, s), Has(o, u)
               PROVE  receipts[<<o, s>>].request = receipts[<<o, u>>].request
    BY DEF OneRequestPerIdentifier
  <2>1. <<o, s>>[1] = <<o, u>>[1]
    OBVIOUS
  <2> QED BY <2>1 DEF IInv, Book, Agreed, Has
<1> QED BY <1>1, Invariantly, PTL

(***************************************************************************)
(* Bindings: the inductive invariant                                        *)
(***************************************************************************)

PassStages == {"idle", "policy", "sent", "open", "close", "closed", "files", "done"}
InFlight(p) == run[p].stage # "idle"
\* The owner has not changed the binding since the pass read it.
UpToDate(p) == InFlight(p) /\ run[p].config.id = book.id
IsBound == book # NoBook

BookShapes ==
    /\ book \in {NoBook} \cup Configuration
    /\ checkpoint \in [Place -> [device : Nat, base : Nat, uploads : SUBSET Upload, exists : BOOLEAN]]
    /\ policy \in [Remote -> BOOLEAN]
    /\ transfer \in [Upload -> [state : {"absent", "receiving", "committed", "aborted"}, base : Nat]]
    /\ run \in [Process -> [stage : PassStages, config : {NoBook} \cup Configuration]]
    /\ choice \in [by : {"nobody", "owner", "browser"}, offline : BOOLEAN]
    /\ tenure \in [begun : SUBSET Upload, base : Nat]
    /\ bookCount \in [saves : Nat, toggles : Nat, transfers : Nat, config : Nat, device : Nat, tenures : Nat]
    /\ \A p \in Process : InFlight(p) => IsBound /\ run[p].config \in Configuration
    /\ IsBound => book.id <= bookCount.config
    /\ \A p \in Process : InFlight(p) => run[p].config.id <= bookCount.config

ReporterFits ==
    /\ ~IsBound => bookCount.tenures = 0 /\ \A x \in Place : ~checkpoint[x].exists
    /\ bookCount.tenures = 0 => ~IsBound
    /\ IsBound /\ bookCount.tenures = 1 =>
          /\ \A x \in Place : checkpoint[x].exists => checkpoint[x].device = book.device
          /\ \A p \in Process : InFlight(p) => run[p].config.device = book.device

\* The latest choice of the owner is in the book, and at the server once it is sent.
OwnersChoice ==
    IsBound /\ choice.by = "owner" =>
        book.offline = choice.offline /\ (book.sending \/ policy[book.remote] = choice.offline)

\* A stale pass has something new to wait for; a fresh one carries the book's choice.
PassCarries(p) ==
    /\ InFlight(p) /\ ~UpToDate(p) => book.sending
    /\ UpToDate(p) =>
          /\ run[p].config.remote = book.remote
          /\ run[p].stage \in {"policy", "sent"} =>
                book.sending = run[p].config.sending /\ run[p].config.offline = book.offline
          /\ run[p].stage \notin {"policy", "sent"} => ~book.sending
          /\ run[p].stage = "sent" /\ choice.by = "owner" /\ run[p].config.sending =>
                policy[book.remote] = choice.offline
          /\ run[p].stage = "done" /\ choice.by = "owner" => run[p].config.offline = choice.offline

OfflineFits == OwnersChoice /\ \A p \in Process : PassCarries(p)

\* A checkpoint holds one upload at most, and none before it is saved.
PendingFits ==
    \A x \in Place : \/ checkpoint[x].uploads = {}
                     \/ checkpoint[x].exists /\ \E t \in Upload : checkpoint[x].uploads = {t}

\* A pass works in the book's directory, on the ledger of the book as it was read.
PassMeets(p) ==
    /\ InFlight(p) => run[p].config.root = book.root
    /\ run[p].stage \in {"close", "closed", "files", "done"} => checkpoint[PassPlace(p)].exists
    /\ UpToDate(p) /\ run[p].stage \in {"policy", "sent", "open", "close", "closed"} =>
          book.retired = run[p].config.retired
    /\ run[p].stage = "closed" => \A t \in run[p].config.retired : transfer[t].state # "receiving"

\* An unsettled upload of the present remote is in the ledger or the checkpoint.
UploadsAreKnown ==
    IsBound => \A t \in tenure.begun :
        transfer[t].state = "receiving" => t \in book.retired \cup checkpoint[BoundPlace].uploads

UploadsFit ==
    /\ PendingFits
    /\ tenure.begun \subseteq 1 .. bookCount.transfers
    /\ \A p \in Process : PassMeets(p)
    /\ UploadsAreKnown

BookIInv == BookShapes /\ ReporterFits /\ OfflineFits /\ UploadsFit

(***************************************************************************)
(* Bindings: proofs                                                         *)
(***************************************************************************)

LEMMA BoundIsSaved == BookShapes => (IsBound <=> book \in Configuration)
BY BookAssumption DEF BookShapes, IsBound

LEMMA PassPlaces ==
    ASSUME BookShapes
    PROVE  /\ IsBound => BoundPlace \in Place
           /\ \A p \in Process : InFlight(p) => PassPlace(p) \in Place
BY BoundIsSaved DEF BookShapes, BoundPlace, PassPlace, Place, Configuration

LEMMA StageFacts ==
    ASSUME BookShapes, NEW p \in Process, NEW stage \in PassStages, PassStage(p, stage)
    PROVE  /\ run' \in [Process -> [stage : PassStages, config : {NoBook} \cup Configuration]]
           /\ run'[p].stage = stage /\ run'[p].config = run[p].config
           /\ \A q \in Process \ {p} : run'[q] = run[q]
BY DEF BookShapes, PassStage

LEMMA WriteBackFacts ==
    ASSUME NEW p \in Process, InFlight(p), NEW new, WriteBack(p, new)
    PROVE  (UpToDate(p) => book' = new) /\ (~UpToDate(p) => book' = book)
BY DEF WriteBack, UpToDate

\* What saving a configuration does.
LEMMA SaveFacts ==
    ASSUME BookShapes, NEW p \in Process, NEW m \in Remote, NEW r \in Root, NEW on \in BOOLEAN,
           SaveBook(p, m, r, on)
    PROVE  /\ book' \in Configuration /\ book'.id = bookCount.config + 1
           /\ book'.remote = m /\ book'.root = r /\ book'.offline = on /\ book'.sending
           /\ IsBound /\ book.remote = m =>
                 /\ book'.device = book.device /\ tenure' = tenure /\ bookCount'.tenures = bookCount.tenures
                 /\ book'.retired = book.retired \cup (IF book.root # r THEN checkpoint[BoundPlace].uploads ELSE {})
           /\ ~(IsBound /\ book.remote = m) =>
                 tenure' = [begun |-> {}, base |-> 0] /\ bookCount'.tenures = bookCount.tenures + 1
           /\ IsBound /\ book.root # r => ~InFlight(p)
           /\ choice' = [by |-> "owner", offline |-> on]
           /\ bookCount'.config = bookCount.config + 1 /\ bookCount'.transfers = bookCount.transfers
           /\ bookCount' \in [saves : Nat, toggles : Nat, transfers : Nat, config : Nat, device : Nat, tenures : Nat]
           /\ tenure' \in [begun : SUBSET Upload, base : Nat]
           /\ UNCHANGED <<checkpoint, policy, transfer, run>>
<1> DEFINE same == book # NoBook /\ book.remote = m
           moved == same /\ book.root # r
           old == IF moved THEN checkpoint[BoundPlace] ELSE NoCheckpoint
<1>1. /\ IsBound /\ book.root # r => run[p].stage = "idle"
      /\ bookCount' = [bookCount EXCEPT !.saves = @ + 1, !.config = @ + 1,
                                        !.device = Newer(@, Device(same, moved)),
                                        !.tenures = IF same THEN @ ELSE @ + 1]
      /\ book' = [id |-> Touch, remote |-> m, root |-> r,
                  device |-> Device(same, moved),
                  offline |-> on, sending |-> TRUE,
                  bases |-> Bases(same, old), retired |-> Retired(same, old)]
      /\ choice' = [by |-> "owner", offline |-> on]
      /\ tenure' = IF same THEN tenure ELSE [begun |-> {}, base |-> 0]
      /\ UNCHANGED <<checkpoint, policy, transfer, run>>
  BY DEF SaveBook, IsBound
<1>2. same <=> IsBound /\ book.remote = m
  BY DEF IsBound
<1>3. same => book \in Configuration /\ BoundPlace \in Place
  BY <1>2, BoundIsSaved, PassPlaces
<1>4. old \in [device : Nat, base : Nat, uploads : SUBSET Upload, exists : BOOLEAN]
  BY <1>3 DEF BookShapes, NoCheckpoint
<1>5. old.uploads = (IF moved THEN checkpoint[BoundPlace].uploads ELSE {}) /\ (~same => old.base = 0)
  BY DEF NoCheckpoint
<1>6. bookCount = [saves |-> bookCount.saves, toggles |-> bookCount.toggles, transfers |-> bookCount.transfers,
                   config |-> bookCount.config, device |-> bookCount.device, tenures |-> bookCount.tenures]
      /\ bookCount.saves \in Nat /\ bookCount.toggles \in Nat /\ bookCount.transfers \in Nat
      /\ bookCount.config \in Nat /\ bookCount.device \in Nat /\ bookCount.tenures \in Nat
  BY DEF BookShapes
<1> HIDE DEF same, old
<1>7. Device(same, moved) \in Nat /\ (same => Device(same, moved) = book.device)
  BY <1>3, <1>6 DEF Device, Configuration
<1>8. Bases(same, old) \in Nat
  <2>1. CASE ~same
    BY <1>5, <2>1 DEF Bases
  <2>2. CASE same /\ old.base # 0
    BY <1>4, <2>2 DEF Bases
  <2>3. CASE same /\ old.base = 0
    BY <1>3, <2>3 DEF Bases, Configuration
  <2> QED
    BY <2>1, <2>2, <2>3
<1>9. Retired(same, old) \in SUBSET Upload /\ (same => Retired(same, old) = book.retired \cup old.uploads)
  BY <1>3, <1>4 DEF Retired, Configuration
<1>10. bookCount' = [saves |-> bookCount.saves + 1, toggles |-> bookCount.toggles,
                     transfers |-> bookCount.transfers, config |-> bookCount.config + 1,
                     device |-> Newer(bookCount.device, Device(same, moved)),
                     tenures |-> IF same THEN bookCount.tenures ELSE bookCount.tenures + 1]
  BY <1>1, <1>6
<1>11. Newer(bookCount.device, Device(same, moved)) \in Nat
  BY <1>6, <1>7 DEF Newer
<1>12. bookCount' \in [saves : Nat, toggles : Nat, transfers : Nat, config : Nat, device : Nat, tenures : Nat]
  BY <1>6, <1>10, <1>11
<1>13. book' \in Configuration
  BY <1>1, <1>6, <1>7, <1>8, <1>9 DEF Configuration, Touch
<1>14. tenure' \in [begun : SUBSET Upload, base : Nat]
  BY <1>1 DEF BookShapes
<1> QED
  BY <1>1, <1>2, <1>5, <1>7, <1>9, <1>10, <1>12, <1>13, <1>14 DEF InFlight, Touch, same

\* What the owner's offline switch does.
LEMMA ToggleFacts ==
    ASSUME BookShapes, NEW on \in BOOLEAN, Toggle(on)
    PROVE  /\ IsBound /\ book' \in Configuration /\ book'.id = bookCount.config + 1
           /\ book'.remote = book.remote /\ book'.root = book.root /\ book'.device = book.device
           /\ book'.retired = book.retired /\ book'.offline = on /\ book'.sending
           /\ choice' = [by |-> "owner", offline |-> on]
           /\ bookCount'.config = bookCount.config + 1 /\ bookCount'.transfers = bookCount.transfers
           /\ bookCount'.tenures = bookCount.tenures
           /\ bookCount' \in [saves : Nat, toggles : Nat, transfers : Nat, config : Nat, device : Nat, tenures : Nat]
           /\ UNCHANGED <<checkpoint, policy, transfer, run, tenure>>
<1>1. /\ IsBound
      /\ book' = [book EXCEPT !.offline = on, !.sending = TRUE, !.id = Touch]
      /\ bookCount' = [bookCount EXCEPT !.toggles = @ + 1, !.config = @ + 1]
      /\ choice' = [by |-> "owner", offline |-> on]
      /\ UNCHANGED <<checkpoint, policy, transfer, run, tenure>>
  BY DEF Toggle, IsBound
<1>2. bookCount = [saves |-> bookCount.saves, toggles |-> bookCount.toggles, transfers |-> bookCount.transfers,
                   config |-> bookCount.config, device |-> bookCount.device, tenures |-> bookCount.tenures]
      /\ bookCount.saves \in Nat /\ bookCount.toggles \in Nat /\ bookCount.transfers \in Nat
      /\ bookCount.config \in Nat /\ bookCount.device \in Nat /\ bookCount.tenures \in Nat
  BY DEF BookShapes
<1>3. bookCount' = [saves |-> bookCount.saves, toggles |-> bookCount.toggles + 1, transfers |-> bookCount.transfers,
                   config |-> bookCount.config + 1, device |-> bookCount.device, tenures |-> bookCount.tenures]
  BY <1>1, <1>2
<1>4. /\ book = [id |-> book.id, remote |-> book.remote, root |-> book.root, device |-> book.device,
                 offline |-> book.offline, sending |-> book.sending, bases |-> book.bases, retired |-> book.retired]
      /\ book.remote \in Remote /\ book.root \in Root /\ book.device \in Nat /\ book.bases \in Nat
      /\ book.retired \in SUBSET Upload
  BY <1>1, BoundIsSaved DEF Configuration
<1>5. book' = [id |-> Touch, remote |-> book.remote, root |-> book.root, device |-> book.device,
               offline |-> on, sending |-> TRUE, bases |-> book.bases, retired |-> book.retired]
  BY <1>1, <1>4
<1>6. Touch = bookCount.config + 1
  BY DEF Touch
<1>7. book' \in Configuration
  BY <1>2, <1>4, <1>5, <1>6 DEF Configuration
<1> QED
  BY <1>1, <1>2, <1>3, <1>5, <1>6, <1>7

\* What a result a pass writes back changes of the book.
LEMMA WrittenBack ==
    ASSUME BookShapes, NEW p \in Process, InFlight(p),
           NEW on \in BOOLEAN, NEW sends \in BOOLEAN, NEW bases \in Nat, NEW ledger \in SUBSET Upload,
           WriteBack(p, [book EXCEPT !.sending = sends])
           \/ WriteBack(p, book)
           \/ WriteBack(p, [book EXCEPT !.retired = ledger])
           \/ WriteBack(p, [book EXCEPT !.bases = bases, !.offline = on])
    PROVE  /\ IsBound /\ book' \in Configuration /\ book'.id = book.id
           /\ book'.remote = book.remote /\ book'.root = book.root /\ book'.device = book.device
<1>1. IsBound /\ book \in Configuration
  BY BoundIsSaved DEF BookShapes
<1>2. /\ book = [id |-> book.id, remote |-> book.remote, root |-> book.root, device |-> book.device,
                 offline |-> book.offline, sending |-> book.sending, bases |-> book.bases, retired |-> book.retired]
      /\ book.id \in Nat /\ book.remote \in Remote /\ book.root \in Root /\ book.device \in Nat /\ book.bases \in Nat
      /\ book.retired \in SUBSET Upload /\ book.offline \in BOOLEAN /\ book.sending \in BOOLEAN
  BY <1>1 DEF Configuration
<1>3. ASSUME NEW new \in Configuration, new.id = book.id, new.remote = book.remote, new.root = book.root,
             new.device = book.device, WriteBack(p, new)
      PROVE  /\ IsBound /\ book' \in Configuration /\ book'.id = book.id
             /\ book'.remote = book.remote /\ book'.root = book.root /\ book'.device = book.device
  BY <1>1, <1>3, WriteBackFacts
<1>4. CASE WriteBack(p, [book EXCEPT !.sending = sends])
  <2> DEFINE new == [book EXCEPT !.sending = sends]
  <2>1. new \in Configuration /\ new.id = book.id /\ new.remote = book.remote /\ new.root = book.root
        /\ new.device = book.device
    BY <1>1, <1>2 DEF Configuration
  <2> HIDE DEF new
  <2> QED
    BY <1>3, <1>4, <2>1 DEF new
<1>5. CASE WriteBack(p, book)
  BY <1>1, <1>3, <1>5
<1>6. CASE WriteBack(p, [book EXCEPT !.retired = ledger])
  <2> DEFINE new == [book EXCEPT !.retired = ledger]
  <2>1. new \in Configuration /\ new.id = book.id /\ new.remote = book.remote /\ new.root = book.root
        /\ new.device = book.device
    BY <1>1, <1>2 DEF Configuration
  <2> HIDE DEF new
  <2> QED
    BY <1>3, <1>6, <2>1 DEF new
<1>7. CASE WriteBack(p, [book EXCEPT !.bases = bases, !.offline = on])
  <2>1. PICK new : new = [book EXCEPT !.bases = bases, !.offline = on]
    OBVIOUS
  <2>2. new = [id |-> book.id, remote |-> book.remote, root |-> book.root, device |-> book.device,
               offline |-> on, sending |-> book.sending, bases |-> bases, retired |-> book.retired]
    BY <1>2, <2>1
  <2>3. new \in Configuration /\ new.id = book.id /\ new.remote = book.remote /\ new.root = book.root
        /\ new.device = book.device
    BY <1>2, <2>2 DEF Configuration
  <2>4. WriteBack(p, new)
    BY <1>7, <2>1
  <2> QED
    BY <1>3, <2>3, <2>4
<1> QED
  BY <1>4, <1>5, <1>6, <1>7

\* The snapshot of a pass.
LEMMA ConfigTyped ==
    ASSUME BookShapes, NEW p \in Process, InFlight(p)
    PROVE  /\ IsBound /\ run[p].config \in Configuration /\ run[p].config.remote \in Remote
           /\ run[p].config.root \in Root /\ run[p].config.device \in Nat /\ run[p].config.id \in Nat
           /\ run[p].config.bases \in Nat /\ run[p].config.retired \subseteq Upload
           /\ run[p].config.offline \in BOOLEAN /\ run[p].config.sending \in BOOLEAN
           /\ book \in Configuration /\ PassPlace(p) \in Place /\ BoundPlace \in Place
BY BoundIsSaved, PassPlaces DEF BookShapes, Configuration

\* What the steps of a pass leave alone, and what they do to the book and the snapshot.
LEMMA PassKeeps ==
    ASSUME BookShapes, NEW p \in Process, PassOf(p) \/ GiveUp(p)
    PROVE  /\ IsBound /\ book' \in Configuration /\ book'.id = book.id
           /\ book'.remote = book.remote /\ book'.root = book.root /\ book'.device = book.device
           /\ run' \in [Process -> [stage : PassStages, config : {NoBook} \cup Configuration]]
           /\ \A q \in Process \ {p} : run'[q] = run[q]
           /\ InFlight(p)' => run'[p].config \in Configuration /\ run'[p].config.id <= bookCount.config
           /\ InFlight(p)' /\ InFlight(p) =>
                 /\ run'[p].config.id = run[p].config.id /\ run'[p].config.remote = run[p].config.remote
                 /\ run'[p].config.root = run[p].config.root /\ run'[p].config.device = run[p].config.device
                 /\ run'[p].config.retired = run[p].config.retired
                 /\ run'[p].config.sending = run[p].config.sending
           /\ InFlight(p)' /\ ~InFlight(p) => BeginPass(p) /\ run'[p] = [stage |-> "policy", config |-> book]
           /\ choice' = choice
           /\ bookCount' \in [saves : Nat, toggles : Nat, transfers : Nat, config : Nat, device : Nat, tenures : Nat]
           /\ bookCount'.config = bookCount.config /\ bookCount'.tenures = bookCount.tenures
           /\ bookCount'.transfers \in {bookCount.transfers, bookCount.transfers + 1}
<1>1. run \in [Process -> [stage : PassStages, config : {NoBook} \cup Configuration]] /\ bookCount.transfers \in Nat
      /\ bookCount \in [saves : Nat, toggles : Nat, transfers : Nat, config : Nat, device : Nat, tenures : Nat]
  BY DEF BookShapes
<1>2. CASE BeginPass(p)
  <2>1. run' = [run EXCEPT ![p] = [stage |-> "policy", config |-> book]] /\ IsBound /\ ~InFlight(p)
        /\ UNCHANGED <<book, choice, bookCount>>
    BY <1>2 DEF BeginPass, IsBound, InFlight
  <2>2. book \in Configuration /\ book.id <= bookCount.config
    BY <2>1, BoundIsSaved DEF BookShapes
  <2>3. [stage |-> "policy", config |-> book] \in [stage : PassStages, config : {NoBook} \cup Configuration]
    BY <2>2 DEF PassStages
  <2> QED
    BY <1>1, <1>2, <2>1, <2>2, <2>3
<1>3. ASSUME InFlight(p), NEW stage \in PassStages, PassStage(p, stage), UNCHANGED <<choice, bookCount>>,
             book' \in Configuration, book'.id = book.id, book'.remote = book.remote, book'.root = book.root,
             book'.device = book.device
      PROVE  /\ run' \in [Process -> [stage : PassStages, config : {NoBook} \cup Configuration]]
             /\ \A q \in Process \ {p} : run'[q] = run[q]
             /\ run'[p].config = run[p].config /\ run[p].config \in Configuration
             /\ run[p].config.id <= bookCount.config /\ IsBound
  BY <1>3, StageFacts, ConfigTyped DEF BookShapes
<1>4. CASE PutPolicy(p) \/ Open(p) \/ CloseRetired(p)
  <2>1. InFlight(p) /\ UNCHANGED <<book, choice, bookCount>>
        /\ (PassStage(p, "sent") \/ PassStage(p, "close") \/ PassStage(p, "closed"))
    BY <1>4 DEF PutPolicy, Open, CloseRetired, InFlight
  <2>2. book' \in Configuration /\ "sent" \in PassStages /\ "close" \in PassStages /\ "closed" \in PassStages
    BY <2>1, ConfigTyped DEF PassStages
  <2> QED
    BY <1>1, <1>3, <2>1, <2>2
<1>5. CASE AcknowledgeUpload(p)
  <2>1. InFlight(p) /\ UNCHANGED <<choice, bookCount>> /\ PassStage(p, "open") /\ "open" \in PassStages
        /\ WriteBack(p, [book EXCEPT !.sending = book.sending /\ ~run[p].config.sending])
    BY <1>5 DEF AcknowledgeUpload, InFlight, PassStages
  <2>2. (book.sending /\ ~run[p].config.sending) \in BOOLEAN /\ FALSE \in BOOLEAN /\ 0 \in Nat /\ {} \in SUBSET Upload
    OBVIOUS
  <2>3. /\ book' \in Configuration /\ book'.id = book.id
        /\ book'.remote = book.remote /\ book'.root = book.root /\ book'.device = book.device
    BY <2>1, <2>2, WrittenBack
  <2> QED
    BY <1>1, <1>3, <2>1, <2>3
<1>6. CASE ClearLedger(p)
  <2>1. InFlight(p) /\ UNCHANGED <<choice, bookCount>> /\ PassStage(p, "files") /\ "files" \in PassStages
        /\ (WriteBack(p, book) \/ WriteBack(p, [book EXCEPT !.retired = {}]))
    BY <1>6 DEF ClearLedger, InFlight, PassStages
  <2>2. FALSE \in BOOLEAN /\ 0 \in Nat /\ {} \in SUBSET Upload
    OBVIOUS
  <2>3. /\ book' \in Configuration /\ book'.id = book.id
        /\ book'.remote = book.remote /\ book'.root = book.root /\ book'.device = book.device
    BY <2>1, <2>2, WrittenBack
  <2> QED
    BY <1>1, <1>3, <2>1, <2>3
<1>7. CASE StartTransfer(p)
  <2>1. InFlight(p) /\ UNCHANGED <<book, run, choice>>
        /\ bookCount' = [bookCount EXCEPT !.transfers = bookCount.transfers + 1]
    BY <1>7 DEF StartTransfer, InFlight
  <2>2. bookCount' \in [saves : Nat, toggles : Nat, transfers : Nat, config : Nat, device : Nat, tenures : Nat]
        /\ bookCount'.config = bookCount.config /\ bookCount'.tenures = bookCount.tenures
        /\ bookCount'.transfers = bookCount.transfers + 1
    BY <1>1, <2>1
  <2> QED
    BY <1>1, <2>1, <2>2, ConfigTyped DEF BookShapes, InFlight
<1>8. CASE CommitTransfer(p) \/ Remember(p)
  <2>1. InFlight(p) /\ UNCHANGED <<book, run, choice, bookCount>>
    BY <1>8 DEF CommitTransfer, Remember, InFlight
  <2> QED
    BY <1>1, <2>1, ConfigTyped DEF BookShapes, InFlight
<1>9. CASE ReadStatus(p)
  <2>1. InFlight(p) /\ UNCHANGED <<book, choice, bookCount>>
        /\ run' = [run EXCEPT ![p].stage = "done", ![p].config.offline = policy[run[p].config.remote]]
    BY <1>9 DEF ReadStatus, InFlight
  <2>2. run[p].config \in Configuration /\ policy[run[p].config.remote] \in BOOLEAN /\ book \in Configuration /\ IsBound
        /\ run[p].config.id <= bookCount.config
    BY <2>1, ConfigTyped DEF BookShapes
  <2>3. run'[p] = [stage |-> "done", config |-> [run[p].config EXCEPT !.offline = policy[run[p].config.remote]]]
        /\ \A q \in Process \ {p} : run'[q] = run[q]
    BY <1>1, <2>1
  <2>4. [run[p].config EXCEPT !.offline = policy[run[p].config.remote]] \in Configuration
    BY <2>2 DEF Configuration
  <2>5. run' \in [Process -> [stage : PassStages, config : {NoBook} \cup Configuration]]
    <3>1. run'[p] \in [stage : PassStages, config : {NoBook} \cup Configuration]
      BY <2>3, <2>4 DEF PassStages
    <3>2. run' = [q \in Process |-> run'[q]]
      BY <1>1, <2>1
    <3> QED
      BY <1>1, <2>3, <3>1, <3>2
  <2>6. LET c == run'[p].config
        IN /\ c.id = run[p].config.id /\ c.remote = run[p].config.remote /\ c.root = run[p].config.root
           /\ c.device = run[p].config.device /\ c.retired = run[p].config.retired
           /\ c.sending = run[p].config.sending
    BY <2>2, <2>3 DEF Configuration
  <2> QED
    BY <1>1, <2>1, <2>2, <2>3, <2>4, <2>5, <2>6
<1>10. CASE Finish(p)
  <2>1. InFlight(p) /\ UNCHANGED <<choice, bookCount>> /\ run' = [run EXCEPT ![p] = NoPass]
        /\ WriteBack(p, [book EXCEPT !.bases = 0, !.offline = run[p].config.offline])
    BY <1>10 DEF Finish, InFlight
  <2>2. run[p].config.offline \in BOOLEAN /\ FALSE \in BOOLEAN /\ 0 \in Nat /\ {} \in SUBSET Upload /\ IsBound
    BY <2>1, ConfigTyped
  <2>3. /\ book' \in Configuration /\ book'.id = book.id
        /\ book'.remote = book.remote /\ book'.root = book.root /\ book'.device = book.device
    BY <2>1, <2>2, WrittenBack
  <2>4. NoPass \in [stage : PassStages, config : {NoBook} \cup Configuration] /\ NoPass.stage = "idle"
    BY DEF NoPass, PassStages
  <2> QED
    BY <1>1, <2>1, <2>2, <2>3, <2>4 DEF InFlight
<1>11. CASE GiveUp(p)
  <2>1. InFlight(p) /\ UNCHANGED <<book, choice, bookCount>> /\ run' = [run EXCEPT ![p] = NoPass]
    BY <1>11 DEF GiveUp, InFlight
  <2>2. NoPass \in [stage : PassStages, config : {NoBook} \cup Configuration] /\ NoPass.stage = "idle"
    BY DEF NoPass, PassStages
  <2> QED
    BY <1>1, <2>1, <2>2, ConfigTyped DEF InFlight
<1> QED
  BY <1>2, <1>4, <1>5, <1>6, <1>7, <1>8, <1>9, <1>10, <1>11 DEF PassOf

\* What the steps of a pass do to the checkpoints: those that exist keep their device.
LEMMA CheckpointsKept ==
    ASSUME BookShapes, NEW p \in Process, PassOf(p) \/ GiveUp(p)
    PROVE  /\ checkpoint' \in [Place -> [device : Nat, base : Nat, uploads : SUBSET Upload, exists : BOOLEAN]]
           /\ \A x \in Place : checkpoint[x].exists => checkpoint'[x].exists /\ checkpoint'[x].device = checkpoint[x].device
           /\ \A x \in Place : checkpoint'[x].exists /\ ~checkpoint[x].exists =>
                 InFlight(p) /\ checkpoint'[x].device = run[p].config.device
<1> DEFINE Checkpoint == [device : Nat, base : Nat, uploads : SUBSET Upload, exists : BOOLEAN]
<1>1. checkpoint \in [Place -> Checkpoint] /\ Upload \subseteq Nat
  BY BookAssumption DEF BookShapes, Upload
<1>2. CASE UNCHANGED checkpoint
  BY <1>1, <1>2
<1>3. CASE Open(p)
  <2>1. InFlight(p)
    BY <1>3 DEF Open, InFlight
  <2>2. PassPlace(p) \in Place /\ run[p].config.device \in Nat /\ run[p].config.bases \in Nat
    BY <2>1, ConfigTyped
  <2> DEFINE fresh == [device |-> run[p].config.device, base |-> run[p].config.bases, uploads |-> {}, exists |-> TRUE]
  <2>3. fresh \in Checkpoint
    BY <2>2
  <2>4. checkpoint' = IF checkpoint[PassPlace(p)].exists THEN checkpoint
                      ELSE [checkpoint EXCEPT ![PassPlace(p)] = fresh]
    BY <1>3 DEF Open
  <2>5. fresh.device = run[p].config.device
    OBVIOUS
  <2> HIDE DEF fresh
  <2> QED
    BY <1>1, <2>1, <2>2, <2>3, <2>4, <2>5
<1>4. ASSUME InFlight(p), NEW new \in Checkpoint, new.exists = checkpoint[PassPlace(p)].exists,
             new.device = checkpoint[PassPlace(p)].device, checkpoint' = [checkpoint EXCEPT ![PassPlace(p)] = new]
      PROVE  /\ checkpoint' \in [Place -> Checkpoint]
             /\ \A x \in Place : checkpoint'[x].exists = checkpoint[x].exists /\ checkpoint'[x].device = checkpoint[x].device
  BY <1>1, <1>4, ConfigTyped
<1>5. CASE CloseRetired(p)
  <2> DEFINE mine == checkpoint[PassPlace(p)]
             carried == {t \in run[p].config.retired : transfer[t].state = "committed" /\ mine.base \in {0, transfer[t].base}}
  <2>1. InFlight(p) /\ checkpoint' = IF carried = {} THEN checkpoint
                                     ELSE [checkpoint EXCEPT ![PassPlace(p)].base = CHOOSE t \in carried : TRUE]
    BY <1>5 DEF CloseRetired, InFlight
  <2>2. CASE carried # {}
    <3>1. PICK b : b = CHOOSE t \in carried : TRUE
      OBVIOUS
    <3>2. b \in carried /\ carried \subseteq Upload
      BY <2>1, <2>2, <3>1, ConfigTyped
    <3>3. mine \in Checkpoint /\ b \in Nat
      BY <1>1, <2>1, <3>2, ConfigTyped
    <3>4. [mine EXCEPT !.base = b] \in Checkpoint /\ [mine EXCEPT !.base = b].exists = mine.exists
          /\ [mine EXCEPT !.base = b].device = mine.device
      BY <3>3
    <3>5. checkpoint' = [checkpoint EXCEPT ![PassPlace(p)] = [mine EXCEPT !.base = b]]
      BY <2>1, <2>2, <3>1
    <3> QED
      BY <1>4, <2>1, <3>4, <3>5
  <2> QED
    BY <1>1, <2>1, <2>2
<1>6. CASE StartTransfer(p)
  <2>1. InFlight(p) /\ bookCount.transfers + 1 \in Upload
        /\ checkpoint' = [checkpoint EXCEPT ![PassPlace(p)].uploads = {bookCount.transfers + 1}]
    BY <1>6 DEF StartTransfer, InFlight
  <2> DEFINE mine == checkpoint[PassPlace(p)]
             new == [mine EXCEPT !.uploads = {bookCount.transfers + 1}]
  <2>2. mine \in Checkpoint
    BY <1>1, <2>1, ConfigTyped
  <2>3. new \in Checkpoint /\ new.exists = mine.exists /\ new.device = mine.device
    BY <2>1, <2>2
  <2>4. checkpoint' = [checkpoint EXCEPT ![PassPlace(p)] = new]
    BY <2>1
  <2> QED
    BY <1>4, <2>1, <2>3, <2>4
<1>7. CASE Remember(p)
  <2>1. InFlight(p)
    BY <1>7 DEF Remember, InFlight
  <2>2. PICK t \in checkpoint[PassPlace(p)].uploads :
            checkpoint' = [checkpoint EXCEPT ![PassPlace(p)].uploads = {},
                              ![PassPlace(p)].base = IF transfer[t].state = "committed" THEN t ELSE @]
    BY <1>7 DEF Remember
  <2>3. PICK mine : mine = checkpoint[PassPlace(p)]
    OBVIOUS
  <2>4. mine \in Checkpoint /\ t \in Nat
    BY <1>1, <2>1, <2>2, <2>3, ConfigTyped
  <2>5. mine = [device |-> mine.device, base |-> mine.base, uploads |-> mine.uploads, exists |-> mine.exists]
    BY <2>4
  <2>6. PICK b : b = IF transfer[t].state = "committed" THEN t ELSE mine.base
    OBVIOUS
  <2>7. PICK new : new = [device |-> mine.device, base |-> b, uploads |-> {}, exists |-> mine.exists]
    OBVIOUS
  <2>8. new \in Checkpoint /\ new.exists = mine.exists /\ new.device = mine.device
    BY <2>4, <2>6, <2>7
  <2>9. checkpoint' = [checkpoint EXCEPT ![PassPlace(p)] = new]
    <3>1. checkpoint' = [checkpoint EXCEPT ![PassPlace(p)] = [[mine EXCEPT !.uploads = {}] EXCEPT !.base = b]]
      BY <1>1, <2>1, <2>2, <2>3, <2>6, ConfigTyped
    <3>2. PICK first : first = [mine EXCEPT !.uploads = {}]
      OBVIOUS
    <3>3. first = [device |-> mine.device, base |-> mine.base, uploads |-> {}, exists |-> mine.exists]
      BY <2>5, <3>2
    <3>4. PICK second : second = [first EXCEPT !.base = b]
      OBVIOUS
    <3>5. second = new
      BY <2>7, <3>3, <3>4
    <3> QED
      BY <3>1, <3>2, <3>4, <3>5
  <2> QED
    BY <1>4, <2>1, <2>3, <2>8, <2>9
<1> QED
  BY <1>2, <1>3, <1>5, <1>6, <1>7
     DEF PassOf, GiveUp, BeginPass, PutPolicy, AcknowledgeUpload, ClearLedger, CommitTransfer, ReadStatus, Finish

LEMMA NewerIsNatural ==
    ASSUME NEW a \in Nat, NEW b \in Nat
    PROVE  Newer(a, b) \in Nat
BY DEF Newer

\* The transfers, the policy and the tenure stay well-formed in a pass.
LEMMA LedgersKept ==
    ASSUME BookShapes, NEW p \in Process, PassOf(p) \/ GiveUp(p)
    PROVE  /\ policy' \in [Remote -> BOOLEAN]
           /\ transfer' \in [Upload -> [state : {"absent", "receiving", "committed", "aborted"}, base : Nat]]
           /\ tenure' \in [begun : SUBSET Upload, base : Nat]
<1>1. /\ policy \in [Remote -> BOOLEAN]
      /\ transfer \in [Upload -> [state : {"absent", "receiving", "committed", "aborted"}, base : Nat]]
      /\ tenure \in [begun : SUBSET Upload, base : Nat]
  BY DEF BookShapes
<1>2. CASE UNCHANGED <<policy, transfer, tenure>>
  BY <1>1, <1>2
<1>3. CASE PutPolicy(p)
  <2>1. InFlight(p) /\ UNCHANGED <<transfer, tenure>>
        /\ policy' = IF run[p].config.sending THEN [policy EXCEPT ![run[p].config.remote] = run[p].config.offline] ELSE policy
    BY <1>3 DEF PutPolicy, InFlight
  <2> QED
    BY <1>1, <2>1, ConfigTyped
<1>4. CASE CloseRetired(p)
  <2>1. UNCHANGED <<policy, tenure>>
        /\ transfer' = [t \in Upload |-> IF t \in run[p].config.retired THEN Terminal(t) ELSE transfer[t]]
    BY <1>4 DEF CloseRetired
  <2>2. \A t \in Upload : Terminal(t) \in [state : {"absent", "receiving", "committed", "aborted"}, base : Nat]
    BY <1>1 DEF Terminal
  <2> QED
    BY <1>1, <2>1, <2>2
<1>5. CASE StartTransfer(p)
  <2>1. InFlight(p) /\ UNCHANGED policy /\ bookCount.transfers + 1 \in Upload
        /\ transfer' = [transfer EXCEPT ![bookCount.transfers + 1] =
                            [state |-> "receiving", base |-> checkpoint[PassPlace(p)].base]]
        /\ tenure' \in {tenure, [tenure EXCEPT !.begun = tenure.begun \cup {bookCount.transfers + 1}]}
    BY <1>5 DEF StartTransfer, InFlight
  <2>2. checkpoint[PassPlace(p)].base \in Nat
    BY <2>1, ConfigTyped DEF BookShapes
  <2>3. tenure' \in [begun : SUBSET Upload, base : Nat]
    BY <1>1, <2>1
  <2>4. [state |-> "receiving", base |-> checkpoint[PassPlace(p)].base]
            \in [state : {"absent", "receiving", "committed", "aborted"}, base : Nat]
    BY <2>2
  <2> QED
    BY <1>1, <2>1, <2>3, <2>4
<1>6. CASE CommitTransfer(p)
  <2>1. InFlight(p) /\ UNCHANGED <<policy, tenure>>
    BY <1>6 DEF CommitTransfer, InFlight
  <2>2. PICK t \in checkpoint[PassPlace(p)].uploads : transfer' = [transfer EXCEPT ![t].state = "committed"]
    BY <1>6 DEF CommitTransfer
  <2>3. t \in Upload
    BY <2>1, ConfigTyped DEF BookShapes
  <2>4. [transfer[t] EXCEPT !.state = "committed"] \in [state : {"absent", "receiving", "committed", "aborted"}, base : Nat]
    BY <1>1, <2>3
  <2> QED
    BY <1>1, <2>1, <2>2, <2>3, <2>4
<1>7. CASE Remember(p)
  <2>1. InFlight(p) /\ UNCHANGED <<policy, transfer>>
        /\ tenure' = IF run[p].config.remote = book.remote
                     THEN [tenure EXCEPT !.base = Newer(tenure.base, checkpoint'[PassPlace(p)].base)] ELSE tenure
    BY <1>7 DEF Remember, InFlight
  <2>2. checkpoint'[PassPlace(p)].base \in Nat
    BY <2>1, ConfigTyped, CheckpointsKept
  <2>3. Newer(tenure.base, checkpoint'[PassPlace(p)].base) \in Nat
    BY <1>1, <2>2, NewerIsNatural
  <2> QED
    BY <1>1, <2>1, <2>3
<1> QED
  BY <1>2, <1>3, <1>4, <1>5, <1>6, <1>7
     DEF PassOf, GiveUp, BeginPass, AcknowledgeUpload, Open, ClearLedger, ReadStatus, Finish

LEMMA ShapesAtFirst == BookInit => BookShapes /\ ReporterFits
<1> SUFFICES ASSUME BookInit
             PROVE  BookShapes /\ ReporterFits
  OBVIOUS
<1>1. ~IsBound /\ \A p \in Process : ~InFlight(p)
  BY DEF BookInit, IsBound, InFlight, NoPass
<1>2. BookShapes
  BY <1>1 DEF BookShapes, BookInit, NoCheckpoint, NoPass, PassStages
<1>3. bookCount.tenures = 0 /\ \A x \in Place : ~checkpoint[x].exists
  BY DEF BookInit, NoCheckpoint
<1> QED
  BY <1>1, <1>2, <1>3 DEF ReporterFits

\* What the owner and the browser do leaves the passes in flight as they are.
LEMMA ShapesKeptByTheOwner ==
    ASSUME BookShapes, UNCHANGED <<checkpoint, transfer, run>>, book' \in Configuration,
           book'.id <= bookCount'.config, bookCount.config <= bookCount'.config,
           policy' \in [Remote -> BOOLEAN], choice' \in [by : {"nobody", "owner", "browser"}, offline : BOOLEAN],
           tenure' \in [begun : SUBSET Upload, base : Nat],
           bookCount' \in [saves : Nat, toggles : Nat, transfers : Nat, config : Nat, device : Nat, tenures : Nat]
    PROVE  BookShapes'
<1>1. /\ checkpoint \in [Place -> [device : Nat, base : Nat, uploads : SUBSET Upload, exists : BOOLEAN]]
      /\ transfer \in [Upload -> [state : {"absent", "receiving", "committed", "aborted"}, base : Nat]]
      /\ run \in [Process -> [stage : PassStages, config : {NoBook} \cup Configuration]]
  BY DEF BookShapes
<1>2. IsBound'
  BY BookAssumption DEF IsBound
<1>3. \A p \in Process : InFlight(p)' <=> InFlight(p)
  BY DEF InFlight
<1>4. \A p \in Process : InFlight(p) => run[p].config \in Configuration /\ run[p].config.id <= bookCount'.config
  <2>1. ASSUME NEW p \in Process, InFlight(p)
        PROVE  run[p].config \in Configuration /\ run[p].config.id <= bookCount'.config
    <3>1. run[p].config \in Configuration /\ run[p].config.id <= bookCount.config /\ run[p].config.id \in Nat
      BY <2>1, ConfigTyped DEF BookShapes
    <3>2. bookCount.config \in Nat /\ bookCount'.config \in Nat
      BY DEF BookShapes
    <3> QED
      BY <3>1, <3>2
  <2> QED
    BY <2>1
<1> QED
  BY <1>1, <1>2, <1>3, <1>4 DEF BookShapes

LEMMA ShapesKeptByPasses ==
    ASSUME BookShapes, NEW p \in Process, PassOf(p) \/ GiveUp(p)
    PROVE  BookShapes'
<1>1. /\ book' \in Configuration /\ book'.id = book.id /\ choice' = choice /\ bookCount'.config = bookCount.config
      /\ bookCount' \in [saves : Nat, toggles : Nat, transfers : Nat, config : Nat, device : Nat, tenures : Nat]
      /\ run' \in [Process -> [stage : PassStages, config : {NoBook} \cup Configuration]]
      /\ IsBound
  BY PassKeeps
<1>2. IsBound' /\ IsBound
  BY <1>1, BookAssumption DEF IsBound
<1>3. ASSUME NEW q \in Process, InFlight(q)'
      PROVE  run'[q].config \in Configuration /\ run'[q].config.id <= bookCount.config
  <2>1. CASE q = p
    BY <1>3, <2>1, PassKeeps
  <2>2. CASE q # p
    <3>1. run'[q] = run[q]
      BY <2>2, PassKeeps
    <3> QED
      BY <1>3, <3>1 DEF BookShapes, InFlight
  <2> QED
    BY <2>1, <2>2
<1>4. /\ choice \in [by : {"nobody", "owner", "browser"}, offline : BOOLEAN]
      /\ book.id <= bookCount.config
  BY <1>2 DEF BookShapes
<1> QED
  BY <1>1, <1>2, <1>3, <1>4, CheckpointsKept, LedgersKept DEF BookShapes

LEMMA BrowseFacts ==
    ASSUME BookShapes, NEW on \in BOOLEAN, Browse(on)
    PROVE  /\ IsBound /\ book \in Configuration /\ policy' \in [Remote -> BOOLEAN]
           /\ choice' = [by |-> "browser", offline |-> on]
           /\ bookCount'.config = bookCount.config /\ bookCount'.transfers = bookCount.transfers
           /\ bookCount'.tenures = bookCount.tenures
           /\ bookCount' \in [saves : Nat, toggles : Nat, transfers : Nat, config : Nat, device : Nat, tenures : Nat]
           /\ UNCHANGED <<book, checkpoint, transfer, run, tenure>>
<1>1. IsBound /\ bookCount' = [bookCount EXCEPT !.toggles = bookCount.toggles + 1]
      /\ policy' = [policy EXCEPT ![book.remote] = on] /\ choice' = [by |-> "browser", offline |-> on]
      /\ UNCHANGED <<book, checkpoint, transfer, run, tenure>>
  BY DEF Browse, IsBound
<1>2. bookCount \in [saves : Nat, toggles : Nat, transfers : Nat, config : Nat, device : Nat, tenures : Nat]
      /\ policy \in [Remote -> BOOLEAN]
  BY DEF BookShapes
<1>3. book \in Configuration
  BY <1>1, BoundIsSaved
<1>4. /\ bookCount'.config = bookCount.config /\ bookCount'.transfers = bookCount.transfers
      /\ bookCount'.tenures = bookCount.tenures
      /\ bookCount' \in [saves : Nat, toggles : Nat, transfers : Nat, config : Nat, device : Nat, tenures : Nat]
  BY <1>1, <1>2
<1>5. policy' \in [Remote -> BOOLEAN]
  BY <1>1, <1>2
<1> QED
  BY <1>1, <1>3, <1>4, <1>5

LEMMA BookShapesKept == BookShapes /\ [BookNext]_bookVars => BookShapes'
<1> SUFFICES ASSUME BookShapes, [BookNext]_bookVars
             PROVE  BookShapes'
  OBVIOUS
<1>1. bookCount.config \in Nat
  BY DEF BookShapes
<1>2. ASSUME NEW p \in Process, PassOf(p) \/ GiveUp(p)
      PROVE  BookShapes'
  BY <1>2, ShapesKeptByPasses
<1>3. ASSUME NEW p \in Process, NEW m \in Remote, NEW r \in Root, NEW on \in BOOLEAN, SaveBook(p, m, r, on)
      PROVE  BookShapes'
  <2>1. /\ book' \in Configuration /\ book'.id = bookCount'.config /\ bookCount'.config = bookCount.config + 1
        /\ choice' = [by |-> "owner", offline |-> on] /\ UNCHANGED <<checkpoint, policy, transfer, run>>
        /\ bookCount' \in [saves : Nat, toggles : Nat, transfers : Nat, config : Nat, device : Nat, tenures : Nat]
        /\ tenure' \in [begun : SUBSET Upload, base : Nat]
    BY <1>3, SaveFacts
  <2>2. policy \in [Remote -> BOOLEAN] /\ choice' \in [by : {"nobody", "owner", "browser"}, offline : BOOLEAN]
        /\ book'.id <= bookCount'.config /\ bookCount.config <= bookCount'.config
    BY <1>1, <2>1 DEF BookShapes
  <2> QED
    BY <2>1, <2>2, ShapesKeptByTheOwner
<1>4. ASSUME NEW on \in BOOLEAN, Toggle(on)
      PROVE  BookShapes'
  <2>1. /\ book' \in Configuration /\ book'.id = bookCount'.config /\ bookCount'.config = bookCount.config + 1
        /\ choice' = [by |-> "owner", offline |-> on] /\ UNCHANGED <<checkpoint, policy, transfer, run, tenure>>
        /\ bookCount' \in [saves : Nat, toggles : Nat, transfers : Nat, config : Nat, device : Nat, tenures : Nat]
    BY <1>4, ToggleFacts
  <2>2. policy \in [Remote -> BOOLEAN] /\ choice' \in [by : {"nobody", "owner", "browser"}, offline : BOOLEAN]
        /\ book'.id <= bookCount'.config /\ bookCount.config <= bookCount'.config
        /\ tenure' \in [begun : SUBSET Upload, base : Nat]
    BY <1>1, <2>1 DEF BookShapes
  <2> QED
    BY <2>1, <2>2, ShapesKeptByTheOwner
<1>5. ASSUME NEW on \in BOOLEAN, Browse(on)
      PROVE  BookShapes'
  <2>1. /\ IsBound /\ book' \in Configuration /\ book' = book /\ bookCount'.config = bookCount.config
        /\ choice' = [by |-> "browser", offline |-> on] /\ UNCHANGED <<checkpoint, transfer, run, tenure>>
        /\ policy' \in [Remote -> BOOLEAN]
        /\ bookCount' \in [saves : Nat, toggles : Nat, transfers : Nat, config : Nat, device : Nat, tenures : Nat]
    BY <1>5, BrowseFacts
  <2>2. choice' \in [by : {"nobody", "owner", "browser"}, offline : BOOLEAN]
        /\ book'.id <= bookCount'.config /\ bookCount.config <= bookCount'.config
        /\ tenure' \in [begun : SUBSET Upload, base : Nat]
    BY <1>1, <2>1 DEF BookShapes
  <2> QED
    BY <2>1, <2>2, ShapesKeptByTheOwner
<1>6. CASE UNCHANGED bookVars
  BY <1>6 DEF bookVars, BookShapes, IsBound, InFlight
<1> QED
  BY <1>2, <1>3, <1>4, <1>5, <1>6 DEF BookNext

LEMMA ReporterKept == BookShapes /\ ReporterFits /\ [BookNext]_bookVars => ReporterFits'
<1> SUFFICES ASSUME BookShapes, ReporterFits, [BookNext]_bookVars
             PROVE  ReporterFits'
  OBVIOUS
<1>1. bookCount.tenures \in Nat
  BY DEF BookShapes
<1>2. \A p \in Process : InFlight(p) => IsBound
  BY DEF BookShapes
<1>3. ASSUME NEW p \in Process, NEW m \in Remote, NEW r \in Root, NEW on \in BOOLEAN, SaveBook(p, m, r, on)
      PROVE  ReporterFits'
  <2>1. /\ book' \in Configuration /\ UNCHANGED <<checkpoint, run>>
        /\ IsBound /\ book.remote = m => book'.device = book.device /\ bookCount'.tenures = bookCount.tenures
        /\ ~(IsBound /\ book.remote = m) => bookCount'.tenures = bookCount.tenures + 1
    BY <1>3, SaveFacts
  <2>2. IsBound'
    BY <2>1, BookAssumption DEF IsBound
  <2>3. bookCount'.tenures # 0
    BY <1>1, <2>1 DEF ReporterFits
  <2>4. ASSUME bookCount'.tenures = 1
        PROVE  /\ \A x \in Place : checkpoint[x].exists => checkpoint[x].device = book'.device
               /\ \A q \in Process : InFlight(q) => run[q].config.device = book'.device
    <3>1. CASE IsBound /\ book.remote = m
      BY <2>1, <2>4, <3>1 DEF ReporterFits
    <3>2. CASE ~(IsBound /\ book.remote = m)
      <4>1. ~IsBound
        BY <1>1, <2>1, <2>4, <3>2 DEF ReporterFits
      <4> QED
        BY <1>2, <4>1 DEF ReporterFits
    <3> QED
      BY <3>1, <3>2
  <2> QED
    BY <2>1, <2>2, <2>3, <2>4 DEF ReporterFits, InFlight
<1>4. ASSUME NEW on \in BOOLEAN, Toggle(on) \/ Browse(on)
      PROVE  ReporterFits'
  <2>1. /\ IsBound /\ book' \in Configuration /\ book'.device = book.device /\ bookCount'.tenures = bookCount.tenures
        /\ UNCHANGED <<checkpoint, run>>
    BY <1>4, ToggleFacts, BrowseFacts
  <2>2. IsBound'
    BY <2>1, BookAssumption DEF IsBound
  <2> QED
    BY <2>1, <2>2 DEF ReporterFits, InFlight
<1>5. ASSUME NEW p \in Process, PassOf(p) \/ GiveUp(p)
      PROVE  ReporterFits'
  <2>1. /\ IsBound /\ book' \in Configuration /\ book'.device = book.device /\ bookCount'.tenures = bookCount.tenures
    BY <1>5, PassKeeps
  <2>2. IsBound'
    BY <2>1, BookAssumption DEF IsBound
  <2>3. ASSUME bookCount.tenures = 1, NEW x \in Place, checkpoint'[x].exists
        PROVE  checkpoint'[x].device = book.device
    <3>1. CASE checkpoint[x].exists
      BY <1>5, <2>1, <2>3, <3>1, CheckpointsKept DEF ReporterFits
    <3>2. CASE ~checkpoint[x].exists
      BY <1>5, <2>1, <2>3, <3>2, CheckpointsKept DEF ReporterFits
    <3> QED
      BY <3>1, <3>2
  <2>4. ASSUME bookCount.tenures = 1, NEW q \in Process, InFlight(q)'
        PROVE  run'[q].config.device = book.device
    <3>1. CASE q # p
      <4>1. run'[q] = run[q]
        BY <1>5, <3>1, PassKeeps
      <4> QED
        BY <2>1, <2>4, <4>1 DEF ReporterFits, InFlight
    <3>2. CASE q = p /\ InFlight(p)
      <4>1. run'[p].config.device = run[p].config.device
        BY <1>5, <2>4, <3>2, PassKeeps
      <4> QED
        BY <2>1, <2>4, <3>2, <4>1 DEF ReporterFits
    <3>3. CASE q = p /\ ~InFlight(p)
      <4>1. run'[p] = [stage |-> "policy", config |-> book]
        BY <1>5, <2>4, <3>3, PassKeeps
      <4> QED
        BY <3>3, <4>1
    <3> QED
      BY <3>1, <3>2, <3>3
  <2> QED
    BY <2>1, <2>2, <2>3, <2>4 DEF ReporterFits
<1>6. CASE UNCHANGED bookVars
  BY <1>6 DEF bookVars, ReporterFits, IsBound, InFlight
<1> QED
  BY <1>3, <1>4, <1>5, <1>6 DEF BookNext

\* The remote knows one reporter for the binding, in whatever directory it is,
\* however many programs run passes: save keeps the device of the same remote
\* (BindingBook.save), and a checkpoint of another device is refused (identity.py).
THEOREM OneDeviceReports == BookSpec => []OneReporter
<1>1. BookShapes /\ ReporterFits /\ [BookNext]_bookVars => (BookShapes /\ ReporterFits)'
  BY BookShapesKept, ReporterKept
<1>2. BookShapes /\ ReporterFits => OneReporter
  BY DEF ReporterFits, OneReporter, IsBound
<1> QED
  BY ShapesAtFirst, <1>1, <1>2, PTL DEF BookSpec

\* What each result a pass writes back changes.
LEMMA BookWritten ==
    ASSUME BookShapes, NEW p \in Process
    PROVE  /\ AcknowledgeUpload(p) =>
                 /\ book'.offline = book.offline /\ book'.retired = book.retired
                 /\ UpToDate(p) => (book'.sending <=> (book.sending /\ ~run[p].config.sending))
                 /\ ~UpToDate(p) => book' = book
           /\ ClearLedger(p) =>
                 /\ book'.offline = book.offline /\ book'.sending = book.sending
                 /\ UpToDate(p) => (book'.retired = {} \/ (book'.retired = book.retired /\ run[p].config.retired = {}))
                 /\ ~UpToDate(p) => book' = book
           /\ Finish(p) =>
                 /\ book'.sending = book.sending /\ book'.retired = book.retired
                 /\ UpToDate(p) => book'.offline = run[p].config.offline
                 /\ ~UpToDate(p) => book' = book
<1>1. ASSUME AcknowledgeUpload(p)
      PROVE  /\ book'.offline = book.offline /\ book'.retired = book.retired
             /\ UpToDate(p) => (book'.sending <=> (book.sending /\ ~run[p].config.sending))
             /\ ~UpToDate(p) => book' = book
  <2>1. InFlight(p) /\ WriteBack(p, [book EXCEPT !.sending = book.sending /\ ~run[p].config.sending])
    BY <1>1 DEF AcknowledgeUpload, InFlight
  <2>2. book \in Configuration
    BY <2>1, ConfigTyped
  <2>3. PICK on \in BOOLEAN : on <=> (book.sending /\ ~run[p].config.sending)
    OBVIOUS
  <2>4. (book.sending /\ ~run[p].config.sending) = on
    BY <2>3
  <2>5. WriteBack(p, [book EXCEPT !.sending = on])
    BY <2>1, <2>4
  <2>6. CASE UpToDate(p)
    <3>1. book' = [book EXCEPT !.sending = on]
      BY <2>1, <2>5, <2>6, WriteBackFacts
    <3>2. book'.sending = on /\ book'.offline = book.offline /\ book'.retired = book.retired
      BY <2>2, <3>1 DEF Configuration
    <3> QED
      BY <2>3, <2>6, <3>2
  <2>7. CASE ~UpToDate(p)
    BY <2>1, <2>5, <2>7, WriteBackFacts
  <2> QED
    BY <2>6, <2>7
<1>2. ASSUME ClearLedger(p)
      PROVE  /\ book'.offline = book.offline /\ book'.sending = book.sending
             /\ UpToDate(p) => (book'.retired = {} \/ (book'.retired = book.retired /\ run[p].config.retired = {}))
             /\ ~UpToDate(p) => book' = book
  <2>1. InFlight(p) /\ WriteBack(p, IF run[p].config.retired = {} THEN book ELSE [book EXCEPT !.retired = {}])
    BY <1>2 DEF ClearLedger, InFlight
  <2>2. book \in Configuration
    BY <2>1, ConfigTyped
  <2>3. CASE UpToDate(p)
    <3>1. book' = IF run[p].config.retired = {} THEN book ELSE [book EXCEPT !.retired = {}]
      BY <2>1, <2>3, WriteBackFacts
    <3> QED
      BY <2>2, <2>3, <3>1 DEF Configuration
  <2>4. CASE ~UpToDate(p)
    BY <2>1, <2>4, WriteBackFacts
  <2> QED
    BY <2>3, <2>4
<1>3. ASSUME Finish(p)
      PROVE  /\ book'.sending = book.sending /\ book'.retired = book.retired
             /\ UpToDate(p) => book'.offline = run[p].config.offline
             /\ ~UpToDate(p) => book' = book
  <2>1. InFlight(p) /\ WriteBack(p, [book EXCEPT !.bases = 0, !.offline = run[p].config.offline])
    BY <1>3 DEF Finish, InFlight
  <2>2. /\ book = [id |-> book.id, remote |-> book.remote, root |-> book.root, device |-> book.device,
                   offline |-> book.offline, sending |-> book.sending, bases |-> book.bases, retired |-> book.retired]
      /\ book.id \in Nat /\ book.remote \in Remote /\ book.root \in Root /\ book.device \in Nat
      /\ book.retired \in SUBSET Upload /\ book.offline \in BOOLEAN /\ book.sending \in BOOLEAN
    <3>1. book \in Configuration
      BY <2>1, ConfigTyped
    <3> QED
      BY <3>1 DEF Configuration
  <2>3. CASE UpToDate(p)
    <3>1. PICK on : on = run[p].config.offline
      OBVIOUS
    <3>2. book' = [book EXCEPT !.bases = 0, !.offline = on]
      BY <2>1, <2>3, <3>1, WriteBackFacts
    <3>3. book' = [id |-> book.id, remote |-> book.remote, root |-> book.root, device |-> book.device,
                   offline |-> on, sending |-> book.sending, bases |-> 0, retired |-> book.retired]
      BY <2>2, <3>2
    <3>4. book'.sending = book.sending /\ book'.retired = book.retired /\ book'.offline = on
      BY <3>3
    <3> QED
      BY <2>3, <3>1, <3>4
  <2>4. CASE ~UpToDate(p)
    BY <2>1, <2>4, WriteBackFacts
  <2> QED
    BY <2>3, <2>4
<1> QED
  BY <1>1, <1>2, <1>3

\* A pass that is neither begun nor ended by a step is as fresh after it as before.
LEMMA FreshKept ==
    ASSUME BookShapes, NEW p \in Process, PassOf(p) \/ GiveUp(p), InFlight(p), InFlight(p)'
    PROVE  UpToDate(p)' <=> UpToDate(p)
<1>1. book'.id = book.id /\ run'[p].config.id = run[p].config.id
  BY PassKeeps
<1> QED
  BY <1>1 DEF UpToDate

\* The owner's saves make every pass in flight stale.
LEMMA StaleAfterSaving ==
    ASSUME BookShapes, NEW p \in Process, UNCHANGED run, book'.id = bookCount.config + 1
    PROVE  ~UpToDate(p)' /\ (InFlight(p)' <=> InFlight(p))
<1>1. InFlight(p)' <=> InFlight(p)
  BY DEF InFlight
<1>2. ASSUME InFlight(p)
      PROVE  run[p].config.id # book'.id
  <2>1. run[p].config.id \in Nat /\ run[p].config.id <= bookCount.config /\ bookCount.config \in Nat
    BY <1>2, ConfigTyped DEF BookShapes
  <2> QED
    BY <2>1
<1> QED
  BY <1>1, <1>2 DEF UpToDate

LEMMA OfflineKept ==
    ASSUME BookShapes, OfflineFits, NEW p \in Process, Process = {p}, [BookNext]_bookVars
    PROVE  OfflineFits'
<1> SUFFICES OwnersChoice' /\ PassCarries(p)'
  BY DEF OfflineFits
<1>1. OwnersChoice /\ PassCarries(p)
  BY DEF OfflineFits
<1>2. ASSUME NEW on, book' \in Configuration, book'.offline = on, book'.sending, UNCHANGED run,
             choice' = [by |-> "owner", offline |-> on], book'.id = bookCount.config + 1
      PROVE  OwnersChoice' /\ PassCarries(p)'
  <2>1. ~UpToDate(p)'
    BY <1>2, StaleAfterSaving
  <2> QED
    BY <1>2, <2>1 DEF OwnersChoice, PassCarries
<1>3. ASSUME NEW q \in Process, NEW m \in Remote, NEW r \in Root, NEW on \in BOOLEAN, SaveBook(q, m, r, on)
      PROVE  OwnersChoice' /\ PassCarries(p)'
  <2>1. /\ book' \in Configuration /\ book'.offline = on /\ book'.sending /\ UNCHANGED run
        /\ choice' = [by |-> "owner", offline |-> on] /\ book'.id = bookCount.config + 1
    BY <1>3, SaveFacts
  <2> QED
    BY <1>2, <2>1
<1>4. ASSUME NEW on \in BOOLEAN, Toggle(on)
      PROVE  OwnersChoice' /\ PassCarries(p)'
  <2>1. /\ book' \in Configuration /\ book'.offline = on /\ book'.sending /\ UNCHANGED run
        /\ choice' = [by |-> "owner", offline |-> on] /\ book'.id = bookCount.config + 1
    BY <1>4, ToggleFacts
  <2> QED
    BY <1>2, <2>1
<1>5. ASSUME NEW on \in BOOLEAN, Browse(on)
      PROVE  OwnersChoice' /\ PassCarries(p)'
  <2>1. choice' = [by |-> "browser", offline |-> on] /\ UNCHANGED <<book, run>>
    BY <1>5, BrowseFacts
  <2> QED
    BY <1>1, <2>1 DEF OwnersChoice, PassCarries, UpToDate, InFlight
<1>6. CASE BeginPass(p)
  <2>1. UNCHANGED <<book, policy, choice>> /\ ~InFlight(p)
    BY <1>6 DEF BeginPass, InFlight
  <2>2. run'[p] = [stage |-> "policy", config |-> book]
    BY <1>6 DEF BeginPass, BookShapes
  <2> QED
    BY <1>1, <2>1, <2>2 DEF OwnersChoice, PassCarries, UpToDate, InFlight, IsBound
<1>7. CASE GiveUp(p)
  <2>1. UNCHANGED <<book, policy, choice>> /\ ~InFlight(p)'
    BY <1>7 DEF GiveUp, InFlight, NoPass, BookShapes
  <2> QED
    BY <1>1, <2>1 DEF OwnersChoice, PassCarries, UpToDate, IsBound
<1>8. ASSUME NEW stage \in PassStages, InFlight(p), PassStage(p, stage), stage # "idle", PassOf(p)
      PROVE  /\ run'[p].stage = stage /\ run'[p].config = run[p].config /\ InFlight(p)'
             /\ (UpToDate(p)' <=> UpToDate(p)) /\ choice' = choice /\ book'.remote = book.remote /\ IsBound /\ IsBound'
  <2>1. run'[p].stage = stage /\ run'[p].config = run[p].config
    BY <1>8, StageFacts
  <2>2. InFlight(p)'
    BY <1>8, <2>1 DEF InFlight
  <2>3. choice' = choice /\ book'.remote = book.remote /\ IsBound /\ book' \in Configuration
    BY <1>8, PassKeeps
  <2>4. UpToDate(p)' <=> UpToDate(p)
    BY <1>8, <2>2, FreshKept
  <2> QED
    BY <2>1, <2>2, <2>3, <2>4, BookAssumption DEF IsBound
<1>9. CASE PutPolicy(p)
  <2>1. /\ InFlight(p) /\ run[p].stage = "policy" /\ PassStage(p, "sent") /\ UNCHANGED <<book, choice>>
        /\ policy' = IF run[p].config.sending THEN [policy EXCEPT ![run[p].config.remote] = run[p].config.offline]
                                              ELSE policy
    BY <1>9 DEF PutPolicy, InFlight
  <2>2. run'[p].stage = "sent" /\ run'[p].config = run[p].config /\ (UpToDate(p)' <=> UpToDate(p)) /\ IsBound /\ InFlight(p)'
    BY <1>8, <1>9, <2>1 DEF PassOf, PassStages
  <2>3. policy \in [Remote -> BOOLEAN] /\ book \in Configuration /\ book.remote \in Remote
    BY <2>1, ConfigTyped DEF BookShapes, Configuration
  <2>4. CASE UpToDate(p)
    <3>1. /\ run[p].config.remote = book.remote /\ book.sending = run[p].config.sending
          /\ run[p].config.offline = book.offline
          /\ choice.by = "owner" => book.offline = choice.offline
      BY <1>1, <2>1, <2>2, <2>4 DEF OwnersChoice, PassCarries
    <3>2. run[p].config.sending => policy'[book.remote] = book.offline
      BY <2>1, <2>3, <3>1
    <3>3. OwnersChoice'
      BY <1>1, <2>1, <2>2, <3>1, <3>2 DEF OwnersChoice, IsBound
    <3> QED
      BY <2>1, <2>2, <2>4, <3>1, <3>2, <3>3 DEF PassCarries
  <2>5. CASE ~UpToDate(p)
    BY <1>1, <2>1, <2>2, <2>5 DEF OwnersChoice, PassCarries, IsBound
  <2> QED
    BY <2>4, <2>5
<1>10. CASE AcknowledgeUpload(p)
  <2>1. /\ InFlight(p) /\ run[p].stage = "sent" /\ PassStage(p, "open") /\ UNCHANGED <<policy, choice>>
    BY <1>10 DEF AcknowledgeUpload, InFlight
  <2>2. /\ run'[p].stage = "open" /\ run'[p].config = run[p].config /\ (UpToDate(p)' <=> UpToDate(p)) /\ InFlight(p)'
        /\ book'.remote = book.remote /\ IsBound
    BY <1>8, <1>10, <2>1 DEF PassOf, PassStages
  <2>3. /\ book'.offline = book.offline
        /\ UpToDate(p) => (book'.sending <=> (book.sending /\ ~run[p].config.sending))
        /\ ~UpToDate(p) => book' = book
    BY <1>10, BookWritten
  <2>4. CASE UpToDate(p)
    <3>1. /\ run[p].config.remote = book.remote /\ book.sending = run[p].config.sending
          /\ run[p].config.offline = book.offline
          /\ choice.by = "owner" => book.offline = choice.offline
          /\ choice.by = "owner" /\ run[p].config.sending => policy[book.remote] = choice.offline
          /\ choice.by = "owner" /\ ~book.sending => policy[book.remote] = choice.offline
      BY <1>1, <2>1, <2>2, <2>4 DEF OwnersChoice, PassCarries
    <3>2. ~book'.sending
      BY <2>3, <2>4, <3>1
    <3> QED
      BY <2>1, <2>2, <2>3, <2>4, <3>1, <3>2 DEF OwnersChoice, PassCarries
  <2>5. CASE ~UpToDate(p)
    BY <1>1, <2>1, <2>2, <2>3, <2>5 DEF OwnersChoice, PassCarries
  <2> QED
    BY <2>4, <2>5
<1>11. CASE Open(p) \/ CloseRetired(p)
  <2>1. /\ InFlight(p) /\ UNCHANGED <<book, policy, choice>> /\ run[p].stage \in {"open", "close"}
        /\ (PassStage(p, "close") \/ PassStage(p, "closed"))
    BY <1>11 DEF Open, CloseRetired, InFlight
  <2>2. /\ run'[p].stage \in {"close", "closed"} /\ run'[p].config = run[p].config /\ (UpToDate(p)' <=> UpToDate(p))
        /\ InFlight(p)' /\ IsBound
    BY <1>8, <1>11, <2>1 DEF PassOf, PassStages
  <2> QED
    BY <1>1, <2>1, <2>2 DEF OwnersChoice, PassCarries
<1>12. CASE ClearLedger(p)
  <2>1. /\ InFlight(p) /\ UNCHANGED <<policy, choice>> /\ run[p].stage = "closed" /\ PassStage(p, "files")
    BY <1>12 DEF ClearLedger, InFlight
  <2>2. /\ run'[p].stage = "files" /\ run'[p].config = run[p].config /\ (UpToDate(p)' <=> UpToDate(p))
        /\ InFlight(p)' /\ IsBound /\ book'.remote = book.remote
    BY <1>8, <1>12, <2>1 DEF PassOf, PassStages
  <2>3. book'.offline = book.offline /\ book'.sending = book.sending
    BY <1>12, BookWritten
  <2> QED
    BY <1>1, <2>1, <2>2, <2>3 DEF OwnersChoice, PassCarries
<1>13. CASE StartTransfer(p) \/ CommitTransfer(p) \/ Remember(p) \/ UNCHANGED bookVars
  <2>1. UNCHANGED <<book, policy, choice, run>>
    BY <1>13 DEF StartTransfer, CommitTransfer, Remember, bookVars
  <2> QED
    BY <1>1, <2>1 DEF OwnersChoice, PassCarries, UpToDate, InFlight, IsBound
<1>14. CASE ReadStatus(p)
  <2>1. /\ InFlight(p) /\ UNCHANGED <<book, policy, choice>> /\ run[p].stage = "files"
        /\ run' = [run EXCEPT ![p].stage = "done", ![p].config.offline = policy[run[p].config.remote]]
    BY <1>14 DEF ReadStatus, InFlight
  <2>2. run[p].config \in Configuration
    BY <2>1, ConfigTyped
  <2>3. run'[p] = [stage |-> "done", config |-> [run[p].config EXCEPT !.offline = policy[run[p].config.remote]]]
    BY <2>1 DEF BookShapes
  <2>4. /\ run'[p].stage = "done" /\ run'[p].config.remote = run[p].config.remote
        /\ run'[p].config.offline = policy[run[p].config.remote]
    BY <2>2, <2>3 DEF Configuration
  <2>5. InFlight(p)'
    BY <2>4 DEF InFlight
  <2>6. (UpToDate(p)' <=> UpToDate(p)) /\ IsBound
    BY <1>14, <2>1, <2>5, FreshKept, PassKeeps DEF PassOf
  <2>7. CASE UpToDate(p)
    <3>1. run[p].config.remote = book.remote /\ ~book.sending
      BY <1>1, <2>1, <2>7 DEF PassCarries
    <3>2. choice.by = "owner" => policy[book.remote] = choice.offline
      BY <1>1, <2>6, <3>1 DEF OwnersChoice
    <3> QED
      BY <1>1, <2>1, <2>4, <2>6, <2>7, <3>1, <3>2 DEF OwnersChoice, PassCarries, IsBound
  <2>8. CASE ~UpToDate(p)
    BY <1>1, <2>1, <2>6, <2>8 DEF OwnersChoice, PassCarries, IsBound
  <2> QED
    BY <2>7, <2>8
<1>15. CASE Finish(p)
  <2>1. /\ InFlight(p) /\ UNCHANGED <<policy, choice>> /\ run[p].stage = "done" /\ run' = [run EXCEPT ![p] = NoPass]
    BY <1>15 DEF Finish, InFlight
  <2>2. ~InFlight(p)' /\ ~UpToDate(p)'
    BY <2>1 DEF InFlight, UpToDate, NoPass, BookShapes
  <2>3. IsBound /\ book'.remote = book.remote
    BY <1>15, PassKeeps DEF PassOf
  <2>4. /\ book'.sending = book.sending
        /\ UpToDate(p) => book'.offline = run[p].config.offline
        /\ ~UpToDate(p) => book' = book
    BY <1>15, BookWritten
  <2>5. CASE UpToDate(p)
    <3>1. ~book.sending /\ (choice.by = "owner" => run[p].config.offline = choice.offline)
      BY <1>1, <2>1, <2>5 DEF PassCarries
    <3> QED
      BY <1>1, <2>1, <2>2, <2>3, <2>4, <2>5, <3>1 DEF OwnersChoice, PassCarries
  <2>6. CASE ~UpToDate(p)
    BY <1>1, <2>1, <2>2, <2>3, <2>4, <2>6 DEF OwnersChoice, PassCarries
  <2> QED
    BY <2>5, <2>6
<1>16. ASSUME NEW q \in Process, PassOf(q) \/ GiveUp(q)
       PROVE  OwnersChoice' /\ PassCarries(p)'
  <2>1. q = p
    OBVIOUS
  <2> QED
    BY <1>6, <1>7, <1>9, <1>10, <1>11, <1>12, <1>13, <1>14, <1>15, <1>16, <2>1 DEF PassOf
<1> QED
  BY <1>3, <1>4, <1>5, <1>13, <1>16 DEF BookNext

LEMMA UploadsKeptBySaving ==
    ASSUME BookShapes, UploadsFit, NEW p \in Process, Process = {p},
           NEW m \in Remote, NEW r \in Root, NEW on \in BOOLEAN, SaveBook(p, m, r, on)
    PROVE  UploadsFit'
<1>1. PendingFits /\ tenure.begun \subseteq 1 .. bookCount.transfers /\ PassMeets(p) /\ UploadsAreKnown
  BY DEF UploadsFit
<1>2. /\ book'.remote = m /\ book'.root = r /\ book'.id = bookCount.config + 1
      /\ UNCHANGED <<checkpoint, policy, transfer, run>> /\ bookCount'.transfers = bookCount.transfers
      /\ IsBound /\ book.remote = m => tenure' = tenure /\
            book'.retired = book.retired \cup (IF book.root # r THEN checkpoint[BoundPlace].uploads ELSE {})
      /\ ~(IsBound /\ book.remote = m) => tenure' = [begun |-> {}, base |-> 0]
      /\ IsBound /\ book.root # r => ~InFlight(p)
  BY SaveFacts
<1>3. PendingFits' /\ tenure'.begun \subseteq 1 .. bookCount'.transfers
  BY <1>1, <1>2 DEF PendingFits
<1>4. ~UpToDate(p)' /\ (InFlight(p)' <=> InFlight(p)) /\ (InFlight(p) => IsBound)
  BY <1>2, StaleAfterSaving, ConfigTyped
<1>5. PassMeets(p)'
  BY <1>1, <1>2, <1>4 DEF PassMeets, PassPlace
<1>6. UploadsAreKnown'
  <2>1. CASE IsBound /\ book.remote = m
    <3>1. BoundPlace = <<book.remote, book.root>> /\ BoundPlace' = <<m, r>>
      BY <1>2 DEF BoundPlace
    <3>2. ASSUME NEW t \in tenure'.begun, transfer'[t].state = "receiving"
          PROVE  t \in book'.retired \cup checkpoint'[BoundPlace'].uploads
      <4>1. t \in book.retired \cup checkpoint[BoundPlace].uploads
        BY <1>1, <1>2, <2>1, <3>2 DEF UploadsAreKnown
      <4>2. CASE book.root = r
        <5>1. BoundPlace' = BoundPlace
          BY <2>1, <3>1, <4>2
        <5> QED
          BY <1>2, <2>1, <4>1, <5>1
      <4>3. CASE book.root # r
        BY <1>2, <2>1, <4>1, <4>3
      <4> QED
        BY <4>2, <4>3
    <3> QED
      BY <3>2 DEF UploadsAreKnown
  <2>2. CASE ~(IsBound /\ book.remote = m)
    BY <1>2, <2>2 DEF UploadsAreKnown
  <2> QED
    BY <2>1, <2>2
<1> QED
  BY <1>3, <1>5, <1>6 DEF UploadsFit

\* Steps that leave the uploads and the ledgers as they are.
LEMMA UploadsKeptWhenResting ==
    ASSUME BookShapes, UploadsFit, NEW p \in Process, Process = {p},
           UNCHANGED <<checkpoint, transfer, tenure>>, bookCount'.transfers = bookCount.transfers, IsBound,
           book'.remote = book.remote, book'.root = book.root, book'.retired = book.retired, PassMeets(p)'
    PROVE  UploadsFit'
<1>1. PendingFits /\ tenure.begun \subseteq 1 .. bookCount.transfers /\ UploadsAreKnown
  BY DEF UploadsFit
<1>2. PendingFits' /\ tenure'.begun \subseteq 1 .. bookCount'.transfers
  BY <1>1 DEF PendingFits
<1>3. BoundPlace' = BoundPlace
  BY DEF BoundPlace
<1>4. UploadsAreKnown'
  BY <1>1, <1>3 DEF UploadsAreKnown
<1> QED
  BY <1>2, <1>4 DEF UploadsFit

\* Steps of a pass that stay with the directory of the pass.
LEMMA UploadsKeptInThePass ==
    ASSUME BookShapes, UploadsFit, NEW p \in Process, Process = {p}, PassOf(p),
           BeginPass(p) \/ PutPolicy(p) \/ AcknowledgeUpload(p) \/ ClearLedger(p) \/ ReadStatus(p) \/ Finish(p)
    PROVE  UploadsFit'
<1>1. PendingFits /\ tenure.begun \subseteq 1 .. bookCount.transfers /\ PassMeets(p) /\ UploadsAreKnown
  BY DEF UploadsFit
<1>2. UNCHANGED <<checkpoint, transfer, tenure, bookCount>>
  BY DEF BeginPass, PutPolicy, AcknowledgeUpload, ClearLedger, ReadStatus, Finish
<1>3. /\ IsBound /\ book' \in Configuration /\ book'.id = book.id /\ book'.remote = book.remote /\ book'.root = book.root
      /\ InFlight(p)' /\ InFlight(p) =>
            /\ run'[p].config.remote = run[p].config.remote /\ run'[p].config.root = run[p].config.root
            /\ run'[p].config.retired = run[p].config.retired
  BY PassKeeps
<1>4. ASSUME InFlight(p), InFlight(p)'
      PROVE  PassPlace(p)' = PassPlace(p) /\ (UpToDate(p)' <=> UpToDate(p))
  BY <1>3, <1>4, FreshKept DEF PassPlace
<1>5. CASE BeginPass(p)
  <2>1. run'[p] = [stage |-> "policy", config |-> book] /\ UNCHANGED book
    BY <1>5 DEF BeginPass, BookShapes
  <2>2. PassMeets(p)'
    BY <2>1 DEF PassMeets
  <2> QED
    BY <1>2, <1>3, <2>1, <2>2, UploadsKeptWhenResting
<1>6. CASE PutPolicy(p) \/ AcknowledgeUpload(p)
  <2>1. /\ InFlight(p) /\ run[p].stage \in {"policy", "sent"}
        /\ (PassStage(p, "sent") \/ PassStage(p, "open"))
    BY <1>6 DEF PutPolicy, AcknowledgeUpload, InFlight
  <2>2. run'[p].stage \in {"sent", "open"} /\ InFlight(p)'
    BY <2>1, StageFacts DEF PassStages, InFlight
  <2>3. book'.retired = book.retired
    BY <1>6, BookWritten DEF PutPolicy
  <2>4. PassMeets(p)'
    BY <1>1, <1>2, <1>3, <1>4, <2>1, <2>2, <2>3 DEF PassMeets
  <2> QED
    BY <1>2, <1>3, <2>3, <2>4, UploadsKeptWhenResting
<1>7. CASE ClearLedger(p)
  <2>1. InFlight(p) /\ run[p].stage = "closed" /\ PassStage(p, "files")
    BY <1>7 DEF ClearLedger, InFlight
  <2>2. run'[p].stage = "files" /\ InFlight(p)'
    BY <2>1, StageFacts DEF PassStages, InFlight
  <2>3. PassMeets(p)'
    BY <1>1, <1>2, <1>3, <1>4, <2>1, <2>2 DEF PassMeets
  <2>4. \/ book'.retired = book.retired
        \/ UpToDate(p) /\ book.retired = run[p].config.retired
    BY <1>1, <1>7, <2>1, BookWritten DEF PassMeets
  <2>5. ASSUME UpToDate(p), book.retired = run[p].config.retired
        PROVE  UploadsFit'
    <3>1. \A t \in book.retired : transfer[t].state # "receiving"
      BY <1>1, <2>1, <2>5 DEF PassMeets
    <3>2. BoundPlace' = BoundPlace
      BY <1>3 DEF BoundPlace
    <3>3. UploadsAreKnown'
      BY <1>1, <1>2, <1>3, <3>1, <3>2 DEF UploadsAreKnown
    <3>4. PendingFits'
      BY <1>1, <1>2 DEF PendingFits
    <3> QED
      BY <1>1, <1>2, <2>3, <3>3, <3>4 DEF UploadsFit
  <2> QED
    BY <1>2, <1>3, <2>3, <2>4, <2>5, UploadsKeptWhenResting
<1>8. CASE ReadStatus(p)
  <2>1. /\ InFlight(p) /\ run[p].stage = "files" /\ UNCHANGED book
        /\ run' = [run EXCEPT ![p].stage = "done", ![p].config.offline = policy[run[p].config.remote]]
    BY <1>8 DEF ReadStatus, InFlight
  <2>2. run'[p] = [stage |-> "done", config |-> [run[p].config EXCEPT !.offline = policy[run[p].config.remote]]]
    BY <2>1 DEF BookShapes
  <2>3. run'[p].stage = "done" /\ InFlight(p)'
    BY <2>2 DEF InFlight
  <2>4. PassMeets(p)'
    BY <1>1, <1>2, <1>3, <1>4, <2>1, <2>3 DEF PassMeets
  <2> QED
    BY <1>2, <1>3, <2>1, <2>4, UploadsKeptWhenResting
<1>9. CASE Finish(p)
  <2>1. run' = [run EXCEPT ![p] = NoPass]
    BY <1>9 DEF Finish
  <2>2. run'[p].stage = "idle"
    BY <2>1 DEF NoPass, BookShapes
  <2>3. PassMeets(p)'
    BY <2>2 DEF PassMeets, InFlight, UpToDate
  <2>4. book'.retired = book.retired
    BY <1>9, BookWritten
  <2> QED
    BY <1>2, <1>3, <2>3, <2>4, UploadsKeptWhenResting
<1> QED
  BY <1>5, <1>6, <1>7, <1>8, <1>9

LEMMA UploadsKeptByOpening ==
    ASSUME BookShapes, UploadsFit, NEW p \in Process, Process = {p}, Open(p)
    PROVE  UploadsFit'
<1>1. PendingFits /\ tenure.begun \subseteq 1 .. bookCount.transfers /\ PassMeets(p) /\ UploadsAreKnown
  BY DEF UploadsFit
<1>2. InFlight(p) /\ run[p].stage = "open" /\ PassStage(p, "close") /\ UNCHANGED <<book, transfer, tenure, bookCount>>
  BY DEF Open, InFlight
<1>3. PassPlace(p) \in Place /\ BoundPlace \in Place /\ BoundPlace' = BoundPlace
  BY <1>2, ConfigTyped DEF BoundPlace
<1>4. run'[p].stage = "close" /\ run'[p].config = run[p].config /\ InFlight(p)'
  BY <1>2, StageFacts DEF PassStages, InFlight
<1>5. PassPlace(p)' = PassPlace(p) /\ (UpToDate(p)' <=> UpToDate(p))
  BY <1>2, <1>4 DEF PassPlace, UpToDate
<1>6. /\ checkpoint'[PassPlace(p)].exists
      /\ \A x \in Place : checkpoint'[x] = checkpoint[x] \/ (~checkpoint[x].exists /\ checkpoint'[x].uploads = {})
  BY <1>3 DEF Open, BookShapes
<1>7. \A x \in Place : checkpoint'[x].uploads = checkpoint[x].uploads
                     /\ (checkpoint[x].exists => checkpoint'[x].exists)
  BY <1>1, <1>6 DEF PendingFits
<1>8. PendingFits'
  BY <1>1, <1>7 DEF PendingFits
<1>9. PassMeets(p)'
  BY <1>1, <1>2, <1>4, <1>5, <1>6 DEF PassMeets
<1>10. UploadsAreKnown'
  BY <1>1, <1>2, <1>3, <1>7 DEF UploadsAreKnown, IsBound
<1> QED
  BY <1>1, <1>2, <1>8, <1>9, <1>10 DEF UploadsFit

LEMMA UploadsKeptByClosing ==
    ASSUME BookShapes, UploadsFit, NEW p \in Process, Process = {p}, CloseRetired(p)
    PROVE  UploadsFit'
<1>1. PendingFits /\ tenure.begun \subseteq 1 .. bookCount.transfers /\ PassMeets(p) /\ UploadsAreKnown
  BY DEF UploadsFit
<1>2. /\ InFlight(p) /\ run[p].stage = "close" /\ PassStage(p, "closed") /\ UNCHANGED <<book, tenure, bookCount>>
      /\ transfer' = [t \in Upload |-> IF t \in run[p].config.retired THEN Terminal(t) ELSE transfer[t]]
  BY DEF CloseRetired, InFlight
<1>3. PassPlace(p) \in Place /\ BoundPlace \in Place /\ BoundPlace' = BoundPlace /\ run[p].config.retired \subseteq Upload
  BY <1>2, ConfigTyped DEF BoundPlace
<1>4. run'[p].stage = "closed" /\ run'[p].config = run[p].config /\ InFlight(p)'
  BY <1>2, StageFacts DEF PassStages, InFlight
<1>5. PassPlace(p)' = PassPlace(p) /\ (UpToDate(p)' <=> UpToDate(p))
  BY <1>2, <1>4 DEF PassPlace, UpToDate
<1>6. PICK b : \/ checkpoint' = checkpoint
               \/ checkpoint' = [checkpoint EXCEPT ![PassPlace(p)].base = b]
  BY DEF CloseRetired
<1>7. \A x \in Place : checkpoint'[x].uploads = checkpoint[x].uploads /\ checkpoint'[x].exists = checkpoint[x].exists
  BY <1>3, <1>6 DEF BookShapes
<1>8. \A t \in Upload : Terminal(t).state # "receiving"
  <2>1. \A t \in Upload : transfer[t] \in [state : {"absent", "receiving", "committed", "aborted"}, base : Nat]
    BY DEF BookShapes
  <2> QED
    BY <2>1 DEF Terminal
<1>9. \A t \in Upload : transfer'[t].state = "receiving" => transfer[t].state = "receiving"
  BY <1>2, <1>8
<1>10. \A t \in run[p].config.retired : transfer'[t].state # "receiving"
  BY <1>2, <1>3, <1>8
<1>11. PendingFits'
  BY <1>1, <1>7 DEF PendingFits
<1>12. PassMeets(p)'
  BY <1>1, <1>2, <1>3, <1>4, <1>5, <1>7, <1>10 DEF PassMeets
<1>13. tenure.begun \subseteq Upload
  BY DEF BookShapes
<1>14. UploadsAreKnown'
  BY <1>1, <1>2, <1>3, <1>7, <1>9, <1>13 DEF UploadsAreKnown, IsBound
<1> QED
  BY <1>1, <1>2, <1>11, <1>12, <1>14 DEF UploadsFit

LEMMA UploadsKeptByStarting ==
    ASSUME BookShapes, UploadsFit, NEW p \in Process, Process = {p}, StartTransfer(p)
    PROVE  UploadsFit'
<1> DEFINE t == bookCount.transfers + 1
<1>1. PendingFits /\ tenure.begun \subseteq 1 .. bookCount.transfers /\ PassMeets(p) /\ UploadsAreKnown
  BY DEF UploadsFit
<1>2. /\ InFlight(p) /\ run[p].stage = "files" /\ UNCHANGED <<book, run>> /\ t \in Upload
      /\ checkpoint[PassPlace(p)].uploads = {}
      /\ bookCount' = [bookCount EXCEPT !.transfers = t]
      /\ transfer' = [transfer EXCEPT ![t] = [state |-> "receiving", base |-> checkpoint[PassPlace(p)].base]]
      /\ checkpoint' = [checkpoint EXCEPT ![PassPlace(p)].uploads = {t}]
      /\ tenure' = IF run[p].config.remote = book.remote THEN [tenure EXCEPT !.begun = @ \cup {t}] ELSE tenure
  BY DEF StartTransfer, InFlight
<1>3. /\ PassPlace(p) \in Place /\ BoundPlace \in Place /\ BoundPlace' = BoundPlace /\ PassPlace(p)' = PassPlace(p)
      /\ (UpToDate(p)' <=> UpToDate(p)) /\ (InFlight(p)' <=> InFlight(p))
  BY <1>2, ConfigTyped DEF BoundPlace, PassPlace, UpToDate, InFlight
<1>4. bookCount.transfers \in Nat /\ bookCount'.transfers = t /\ t \notin tenure.begun
  BY <1>1, <1>2 DEF BookShapes
<1>5. /\ checkpoint'[PassPlace(p)].uploads = {t}
      /\ \A x \in Place : /\ x # PassPlace(p) => checkpoint'[x].uploads = checkpoint[x].uploads
                          /\ checkpoint'[x].exists = checkpoint[x].exists
  BY <1>2, <1>3 DEF BookShapes
<1>6. /\ checkpoint[PassPlace(p)].exists
  BY <1>1, <1>2 DEF PassMeets
<1> HIDE DEF t
<1>7. PendingFits'
  BY <1>1, <1>2, <1>3, <1>5, <1>6 DEF PendingFits
<1>8. tenure'.begun = (IF run[p].config.remote = book.remote THEN tenure.begun \cup {t} ELSE tenure.begun)
  BY <1>2 DEF BookShapes
<1>9. tenure'.begun \subseteq 1 .. bookCount'.transfers
  BY <1>1, <1>4, <1>8 DEF t
<1>10. PassMeets(p)'
  <2>1. \A u \in Upload : u # t => transfer'[u] = transfer[u]
    BY <1>2 DEF BookShapes
  <2> QED
    BY <1>1, <1>2, <1>3, <1>5, <1>6 DEF PassMeets
<1>11. UploadsAreKnown'
  <2>1. \A u \in tenure.begun : transfer'[u] = transfer[u]
    BY <1>2, <1>4 DEF BookShapes
  <2>2. ASSUME NEW u \in tenure.begun, transfer'[u].state = "receiving"
        PROVE  u \in book.retired \cup checkpoint'[BoundPlace].uploads
    <3>1. u \in book.retired \cup checkpoint[BoundPlace].uploads
      BY <1>1, <1>2, <2>1, <2>2, ConfigTyped DEF UploadsAreKnown
    <3> QED
      BY <1>2, <1>3, <1>5, <3>1
  <2>3. run[p].config.remote = book.remote => PassPlace(p) = BoundPlace
    BY <1>1, <1>2 DEF PassMeets, PassPlace, BoundPlace
  <2> QED
    BY <1>2, <1>3, <1>5, <1>8, <2>2, <2>3 DEF UploadsAreKnown
<1> QED
  BY <1>7, <1>9, <1>10, <1>11 DEF UploadsFit

LEMMA UploadsKeptBySettling ==
    ASSUME BookShapes, UploadsFit, NEW p \in Process, Process = {p}, CommitTransfer(p) \/ Remember(p)
    PROVE  UploadsFit'
<1>1. PendingFits /\ tenure.begun \subseteq 1 .. bookCount.transfers /\ PassMeets(p) /\ UploadsAreKnown
  BY DEF UploadsFit
<1>2. InFlight(p) /\ run[p].stage = "files" /\ UNCHANGED <<book, run, bookCount>>
  BY DEF CommitTransfer, Remember, InFlight
<1>3. /\ PassPlace(p) \in Place /\ BoundPlace \in Place /\ BoundPlace' = BoundPlace /\ PassPlace(p)' = PassPlace(p)
      /\ (UpToDate(p)' <=> UpToDate(p)) /\ (InFlight(p)' <=> InFlight(p))
  BY <1>2, ConfigTyped DEF BoundPlace, PassPlace, UpToDate, InFlight
<1>4. checkpoint[PassPlace(p)].exists /\ tenure.begun \subseteq Upload
  BY <1>1, <1>2 DEF PassMeets, BookShapes
<1>5. CASE CommitTransfer(p)
  <2>1. PICK t \in checkpoint[PassPlace(p)].uploads : transfer' = [transfer EXCEPT ![t].state = "committed"]
    BY <1>5 DEF CommitTransfer
  <2>2. UNCHANGED <<checkpoint, tenure>>
    BY <1>5 DEF CommitTransfer
  <2>3. \A u \in Upload : transfer'[u].state = "receiving" => transfer[u].state = "receiving"
    BY <2>1 DEF BookShapes
  <2>4. PendingFits'
    BY <1>1, <2>2 DEF PendingFits
  <2>5. PassMeets(p)'
    BY <1>1, <1>2, <1>3, <1>4, <2>2 DEF PassMeets
  <2>6. UploadsAreKnown'
    BY <1>1, <1>2, <1>3, <1>4, <2>2, <2>3 DEF UploadsAreKnown, IsBound
  <2> QED
    BY <1>1, <1>2, <2>2, <2>4, <2>5, <2>6 DEF UploadsFit
<1>6. CASE Remember(p)
  <2>1. PICK t \in checkpoint[PassPlace(p)].uploads :
            /\ transfer[t].state # "receiving"
            /\ checkpoint' = [checkpoint EXCEPT ![PassPlace(p)].uploads = {},
                                  ![PassPlace(p)].base = IF transfer[t].state = "committed" THEN t ELSE @]
    BY <1>6 DEF Remember
  <2>2. UNCHANGED transfer
    BY <1>6 DEF Remember
  <2>3. tenure'.begun = tenure.begun
    BY <1>6 DEF Remember, BookShapes
  <2>4. /\ checkpoint'[PassPlace(p)].uploads = {}
        /\ \A x \in Place : /\ x # PassPlace(p) => checkpoint'[x] = checkpoint[x]
                            /\ checkpoint'[x].exists = checkpoint[x].exists
    BY <1>3, <2>1 DEF BookShapes
  <2>5. checkpoint[PassPlace(p)].uploads = {t}
    BY <1>1, <1>3, <2>1 DEF PendingFits
  <2>6. PendingFits'
    BY <1>1, <2>4 DEF PendingFits
  <2>7. PassMeets(p)'
    BY <1>1, <1>2, <1>3, <1>4, <2>2, <2>4 DEF PassMeets
  <2>8. \A u : u \in checkpoint[BoundPlace].uploads /\ transfer[u].state = "receiving" => u \in checkpoint'[BoundPlace].uploads
    BY <1>3, <2>1, <2>4, <2>5
  <2>9. UploadsAreKnown'
    BY <1>1, <1>2, <1>3, <2>2, <2>3, <2>8 DEF UploadsAreKnown, IsBound
  <2> QED
    BY <1>1, <1>2, <2>3, <2>6, <2>7, <2>9 DEF UploadsFit
<1> QED
  BY <1>5, <1>6

LEMMA UploadsKept ==
    ASSUME BookShapes, UploadsFit, NEW p \in Process, Process = {p}, [BookNext]_bookVars
    PROVE  UploadsFit'
<1>1. PassMeets(p)
  BY DEF UploadsFit
<1>2. ASSUME NEW on \in BOOLEAN, Toggle(on)
      PROVE  UploadsFit'
  <2>1. /\ IsBound /\ book'.id = bookCount.config + 1 /\ book'.remote = book.remote /\ book'.root = book.root
        /\ book'.retired = book.retired /\ bookCount'.transfers = bookCount.transfers
        /\ UNCHANGED <<checkpoint, transfer, run, tenure>>
    BY <1>2, ToggleFacts
  <2>2. ~UpToDate(p)' /\ (InFlight(p)' <=> InFlight(p)) /\ PassPlace(p)' = PassPlace(p)
    BY <2>1, StaleAfterSaving DEF PassPlace
  <2>3. PassMeets(p)'
    BY <1>1, <2>1, <2>2 DEF PassMeets
  <2> QED
    BY <2>1, <2>3, UploadsKeptWhenResting
<1>3. ASSUME NEW on \in BOOLEAN, Browse(on)
      PROVE  UploadsFit'
  <2>1. /\ IsBound /\ bookCount'.transfers = bookCount.transfers
        /\ UNCHANGED <<book, checkpoint, transfer, run, tenure>>
    BY <1>3, BrowseFacts
  <2>2. PassMeets(p)'
    BY <1>1, <2>1 DEF PassMeets, PassPlace, UpToDate, InFlight
  <2> QED
    BY <2>1, <2>2, UploadsKeptWhenResting
<1>4. CASE GiveUp(p)
  <2>1. /\ IsBound /\ book' = book /\ bookCount' = bookCount /\ UNCHANGED <<checkpoint, transfer, tenure>>
    BY <1>4, PassKeeps DEF GiveUp
  <2>2. run'[p].stage = "idle"
    BY <1>4 DEF GiveUp, NoPass, BookShapes
  <2>3. PassMeets(p)'
    BY <2>2 DEF PassMeets, InFlight, UpToDate
  <2> QED
    BY <2>1, <2>3, UploadsKeptWhenResting
<1>5. CASE PassOf(p)
  <2>1. CASE BeginPass(p) \/ PutPolicy(p) \/ AcknowledgeUpload(p) \/ ClearLedger(p) \/ ReadStatus(p) \/ Finish(p)
    BY <1>5, <2>1, UploadsKeptInThePass
  <2>2. CASE Open(p) \/ CloseRetired(p) \/ StartTransfer(p) \/ CommitTransfer(p) \/ Remember(p)
    BY <2>2, UploadsKeptByOpening, UploadsKeptByClosing, UploadsKeptByStarting, UploadsKeptBySettling
  <2> QED
    BY <1>5, <2>1, <2>2 DEF PassOf
<1>6. ASSUME NEW q \in Process, NEW m \in Remote, NEW r \in Root, NEW on \in BOOLEAN, SaveBook(q, m, r, on)
      PROVE  UploadsFit'
  <2>1. SaveBook(p, m, r, on)
    BY <1>6
  <2> QED
    BY <2>1, UploadsKeptBySaving
<1>7. ASSUME NEW q \in Process, PassOf(q) \/ GiveUp(q)
      PROVE  UploadsFit'
  BY <1>4, <1>5, <1>7
<1>8. CASE UNCHANGED bookVars
  BY <1>8 DEF bookVars, UploadsFit, PendingFits, PassMeets, UploadsAreKnown, IsBound, BoundPlace, PassPlace, UpToDate, InFlight
<1> QED
  BY <1>2, <1>3, <1>6, <1>7, <1>8 DEF BookNext

LEMMA BookIInvAtFirst == BookInit => BookIInv
<1> SUFFICES ASSUME BookInit
             PROVE  OfflineFits /\ UploadsFit
  BY ShapesAtFirst DEF BookIInv
<1>1. ~IsBound /\ \A p \in Process : run[p].stage = "idle"
  BY DEF BookInit, IsBound, NoPass
<1>2. OfflineFits
  BY <1>1 DEF OfflineFits, OwnersChoice, PassCarries, InFlight, UpToDate
<1>3. PendingFits /\ tenure.begun = {}
  BY DEF BookInit, PendingFits, NoCheckpoint
<1> QED
  BY <1>1, <1>2, <1>3 DEF UploadsFit, PassMeets, UploadsAreKnown, InFlight, UpToDate

LEMMA BookIInvImplies == BookIInv => BookInv
<1> SUFFICES ASSUME BookIInv
             PROVE  BookInv
  OBVIOUS
<1>1. OfflineChoiceStands
  BY DEF BookIInv, OfflineFits, OwnersChoice, OfflineChoiceStands, AtRest, IsBound
<1>2. NoUploadForgotten
  BY DEF BookIInv, UploadsFit, UploadsAreKnown, NoUploadForgotten, AtRest, IsBound
<1>3. OneReporter
  BY DEF BookIInv, ReporterFits, OneReporter, IsBound
<1> QED
  BY <1>1, <1>2, <1>3 DEF BookInv

\* Whenever the owner moves or pauses a binding in the middle of a pass of one
\* program, his latest offline choice stands, no unsettled upload of the present
\* remote is forgotten, and one device reports (BindingBook.save and update,
\* DesktopSyncManager.run_once, SyncClient.close_retired_transfers).
THEOREM ChoicesAndUploadsStand ==
    ASSUME NEW p, Process = {p}
    PROVE  BookSpec => []BookInv
<1>1. BookIInv /\ [BookNext]_bookVars => BookIInv'
  <2> SUFFICES ASSUME BookIInv, [BookNext]_bookVars
               PROVE  BookIInv'
    OBVIOUS
  <2>1. BookShapes /\ ReporterFits /\ OfflineFits /\ UploadsFit /\ p \in Process
    BY DEF BookIInv
  <2>2. BookShapes' /\ ReporterFits'
    BY <2>1, BookShapesKept, ReporterKept
  <2>3. OfflineFits'
    BY <2>1, OfflineKept
  <2>4. UploadsFit'
    BY <2>1, UploadsKept
  <2> QED
    BY <2>2, <2>3, <2>4 DEF BookIInv
<1> QED
  BY BookIInvAtFirst, <1>1, BookIInvImplies, PTL DEF BookSpec
==============================================================================
