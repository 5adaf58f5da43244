------------------------------ MODULE RpcService ------------------------------
(***************************************************************************)
(* The RPC proxy of src/services/rpc.service.ts over the health monitor:   *)
(* choice of endpoints, failover to a second one, the slots that bound     *)
(* concurrent upstream calls, and the cache of invariant results.          *)
(*                                                                         *)
(* A request identifier stands for one executeRPC call at a time and is    *)
(* used again afterwards.  Every slot reserves RPC_MAX_RESPONSE_BYTES, so  *)
(* the reserved bytes are a multiple of the calls and MaxConcurrent stands *)
(* for the tighter of RPC_MAX_CONCURRENT and RPC_MAX_INFLIGHT_BYTES.       *)
(***************************************************************************)
EXTENDS HealthMonitor, Sequences

CONSTANTS
  Requests,                \* executeRPC calls at one time
  Clients,                 \* client keys
  Client,                  \* the client of each request
  Primary,                 \* RPC_ENDPOINTS[network][0]
  MaxConcurrent,           \* RPC_MAX_CONCURRENT
  MaxConcurrentPerClient   \* RPC_MAX_CONCURRENT_PER_CLIENT

ASSUME RpcAssumption ==
  /\ IsFiniteSet(Requests)
  /\ Client \in [Requests -> Clients] /\ Primary \in Endpoints
  /\ MaxConcurrent \in Nat \ {0} /\ MaxConcurrentPerClient \in Nat \ {0}

VARIABLES
  requests,                 \* the executeRPC call of each request, or None
  activeRpcCalls,           \* upstream calls that hold a slot
  activeRpcCallsByClient,   \* the same, per client
  cached                    \* whether the cache holds the invariant result

rpcVars == <<requests, activeRpcCalls, activeRpcCallsByClient, cached>>
allVars == <<healthVars, rpcVars>>

\* CACHEABLE_METHODS, PRIMARY_ONLY_PREFIXES, and all the others.
Methods == {"cacheable", "primaryOnly", "other"}

\* order is the rest of the attempt order; its head is being called, or, between a
\* failure and the next attempt, is about to be.
Request ==
  [method : Methods, order : UNION {[1 .. n -> Endpoints] : n \in 1 .. 2}, calling : BOOLEAN]

ASSUME NoneIsNoRequest == None \notin Request

RpcInit ==
  /\ HealthInit
  /\ requests = [r \in Requests |-> None]
  /\ activeRpcCalls = 0
  /\ activeRpcCallsByClient = [k \in Clients |-> 0]
  /\ cached = FALSE

-----------------------------------------------------------------------------
(* acquireRpcCallSlot *)

SlotFree(r) ==
  /\ activeRpcCallsByClient[Client[r]] < MaxConcurrentPerClient
  /\ activeRpcCalls < MaxConcurrent

AcquireSlot(r) ==
  /\ activeRpcCalls' = activeRpcCalls + 1
  /\ activeRpcCallsByClient' = [activeRpcCallsByClient EXCEPT ![Client[r]] = @ + 1]

ReleaseSlot_KeepsClient(r) ==
  /\ activeRpcCalls' = activeRpcCalls - 1
  /\ UNCHANGED activeRpcCallsByClient

ReleaseSlot(r) ==
  /\ activeRpcCalls' = activeRpcCalls - 1
  /\ activeRpcCallsByClient' = [activeRpcCallsByClient EXCEPT ![Client[r]] = @ - 1]

\* makeRPCCall up to its fetch: a call, or the refusal (429, 503) that ends the
\* request.
Attempt(r, method, order) ==
  \/ /\ SlotFree(r)
     /\ AcquireSlot(r)
     /\ requests' = [requests EXCEPT ![r] =
          [method |-> method, order |-> order, calling |-> TRUE]]
  \/ /\ ~SlotFree(r)
     /\ requests' = [requests EXCEPT ![r] = None]
     /\ UNCHANGED <<activeRpcCalls, activeRpcCallsByClient>>

-----------------------------------------------------------------------------
Orders_PrimaryUnchecked(method) ==
  IF method = "primaryOnly" THEN {<<Primary>>}
  ELSE IF Cardinality(ReadyEndpoints) = 1 THEN {<<e>> : e \in ReadyEndpoints}
  ELSE {<<e, f>> : e, f \in ReadyEndpoints} \ {<<e, e>> : e \in ReadyEndpoints}

\* The attempt orders of a request: the primary alone, or the first two of the
\* ready endpoints in some order of latency.
Orders(method) ==
  IF method = "primaryOnly" THEN {<<e>> : e \in ReadyEndpoints \cap {Primary}}
  ELSE IF Cardinality(ReadyEndpoints) = 1 THEN {<<e>> : e \in ReadyEndpoints}
  ELSE {<<e, f>> : e, f \in ReadyEndpoints} \ {<<e, e>> : e \in ReadyEndpoints}

\* executeRPC up to its first await.  A request that no endpoint is ready for, or
\* that the cache answers, changes nothing.
StartRequest(r, method) ==
  /\ requests[r] = None
  /\ ~(method = "cacheable" /\ cached)
  /\ \E order \in Orders(method) : Attempt(r, method, order)
  /\ UNCHANGED <<healthVars, cached>>

\* The upstream answered; hasResult: the envelope is not an error.
CallSucceeds(r, hasResult) ==
  /\ requests[r] # None /\ requests[r].calling
  /\ ReleaseSlot(r)
  /\ cached' = (cached \/ (hasResult /\ requests[r].method = "cacheable"))
  /\ requests' = [requests EXCEPT ![r] = None]
  /\ UNCHANGED healthVars

Failed_RetriesSame(q) == [q EXCEPT !.calling = FALSE]

Failed_NeverGivesUp(q) == [q EXCEPT !.order = Tail(@), !.calling = FALSE]

\* What is left of the request after a failed call.
Failed(q) ==
  IF Len(q.order) = 1 THEN None ELSE [q EXCEPT !.order = Tail(@), !.calling = FALSE]

\* No answer in time, an HTTP error or an unusable body.
CallFails(r) ==
  /\ requests[r] # None /\ requests[r].calling
  /\ ReleaseSlot(r)
  /\ requests' = [requests EXCEPT ![r] = Failed(@)]
  /\ UNCHANGED <<healthVars, cached>>

\* The loop of executeRPC goes on to the next endpoint of the order it has read
\* before the first attempt.
NextAttempt(r) ==
  /\ requests[r] # None /\ ~requests[r].calling
  /\ Attempt(r, requests[r].method, requests[r].order)
  /\ UNCHANGED <<healthVars, cached>>

\* node-cache drops the entry after CACHE_TTL.
CacheExpires ==
  /\ cached /\ cached' = FALSE
  /\ UNCHANGED <<healthVars, requests, activeRpcCalls, activeRpcCallsByClient>>

\* The continuation of a failed call is a microtask: it runs before the next timer or
\* answer the monitor gets.  (That other requests are not held up here adds
\* behaviours and takes none away.)
Monitor ==
  /\ \A r \in Requests : requests[r] # None => requests[r].calling
  /\ HealthNext
  /\ UNCHANGED rpcVars

RpcNext ==
  \/ \E r \in Requests, method \in Methods : StartRequest(r, method)
  \/ \E r \in Requests, hasResult \in BOOLEAN : CallSucceeds(r, hasResult)
  \/ \E r \in Requests : CallFails(r)
  \/ \E r \in Requests : NextAttempt(r)
  \/ CacheExpires
  \/ Monitor

RpcSpec == RpcInit /\ [][RpcNext]_allVars

\* REQUEST_TIMEOUT_MS aborts a call that gets no answer, and the continuation of a
\* settled promise runs: whichever of the two a request waits for happens.
RpcFairness == \A r \in Requests : WF_allVars(CallFails(r) \/ NextAttempt(r))

-----------------------------------------------------------------------------
(* Properties *)

\* Every variable of the proxy holds a value of its type: above all, a request in
\* progress has an endpoint left to call, and never more than two.
RpcTypeOK ==
  /\ HealthTypeOK
  /\ requests \in [Requests -> Request \cup {None}]
  /\ activeRpcCalls \in Nat
  /\ activeRpcCallsByClient \in [Clients -> Nat]
  /\ cached \in BOOLEAN

Calling == {r \in Requests : requests[r] # None /\ requests[r].calling}

\* The slot counters are exactly the upstream calls in flight, in total and per
\* client, and within both limits: answers, failures, refusals and the slot a
\* failover gives up and takes again neither leak a slot nor return one twice.
SlotsAreExact ==
  /\ activeRpcCalls = Cardinality(Calling) /\ activeRpcCalls <= MaxConcurrent
  /\ \A k \in Clients :
       /\ activeRpcCallsByClient[k] = Cardinality({r \in Calling : Client[r] = k})
       /\ activeRpcCallsByClient[k] <= MaxConcurrentPerClient

\* An upstream call of request r begins in this step; it goes to Callee(r).
BeginsCall(r) ==
  /\ requests'[r] # None /\ requests'[r].calling
  /\ requests[r] # None => ~requests[r].calling
Callee(r) == Head(requests'[r].order)

\* executeRPC reads the ready endpoints once.  When the first call of a request
\* begins, every endpoint of its order is ready, and none that is bound to an
\* identity has failed its last poll, however many failures the progress state
\* tolerates: a failed poll takes it from all later requests at once.
\* A second call, which goes to an endpoint the request has read but perhaps a poll
\* has revoked since, begins only after the first failed, goes to another endpoint
\* than the first, and is the last.  One request therefore makes at most one call on
\* a reading that is out of date, however long its first call took and whatever the
\* polls found meanwhile.
OnlyFailoverIsStale ==
  [][\A r \in Requests :
       LET before == requests[r]
           after == requests'[r]
       IN  /\ BeginsCall(r) /\ before = None =>
                \A i \in DOMAIN after.order :
                  /\ after.order[i] \in ReadyEndpoints
                  /\ Pinned => endpoints[after.order[i]].consecutiveFailures = 0
           /\ BeginsCall(r) /\ before # None =>
                after.order = before.order /\ Len(after.order) = 1
           /\ before # None /\ before.calling /\ after # None /\ ~after.calling =>
                after.order = Tail(before.order) /\ Head(after.order) # Head(before.order)
    ]_allVars

\* A failed poll immediately revokes the endpoint: no call goes to an identity-bound
\* endpoint between a failed poll and the next complete one (README.md).  The code
\* fails over to the endpoint it read before its first call.
RevokedEndpointsAreNotCalled ==
  [][Pinned => \A r \in Requests :
       BeginsCall(r) => endpoints[Callee(r)].verifiedIdentity]_allVars

\* Every request is answered or refused.
RequestsEnd == \A r \in Requests : []<>(requests[r] = None)

=============================================================================
