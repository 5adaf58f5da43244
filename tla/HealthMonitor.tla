---------------------------- MODULE HealthMonitor ----------------------------
(***************************************************************************)
(* The HealthMonitor class of src/services/rpc/healthMonitor.ts, for one   *)
(* network: the poll loop, the state of each upstream endpoint, and the    *)
(* choice of the endpoints requests may go to.                             *)
(*                                                                         *)
(* An upstream node may answer anything, so every answer is chosen from    *)
(* the values the poll accepts, and every other outcome (no connection, an *)
(* HTTP or JSON error, the wrong chain, the abort timer) is a failure.     *)
(***************************************************************************)
EXTENDS Integers, FiniteSets

CONSTANTS
  Endpoints,          \* configured URLs
  None,               \* null
  Pinned,             \* whether RPC_EXPECTED_IDENTITIES names an identity
  Heights,            \* block heights a node may report
  HeadAges,           \* ages of the head block a node may report; < 0: in the future
  PollInterval,       \* POLL_INTERVAL_MS
  PollTimeout,        \* POLL_TIMEOUT_MS
  DownAfterFailures,  \* DOWN_AFTER_FAILURES
  UpAfterSuccesses,   \* UP_AFTER_SUCCESSES
  StallAfter,         \* STALL_AFTER_MS
  MaxHeadAge,         \* MAX_HEAD_AGE_MS
  MaxHeadFuture,      \* MAX_HEAD_FUTURE_MS
  MaxLagBlocks,       \* MAX_LAG_BLOCKS
  MaxClock            \* bound: the clock stops here

\* init keeps no network without endpoints.
ASSUME HealthAssumption ==
  /\ Endpoints # {}
  /\ None \notin Endpoints \cup Int \cup BOOLEAN
  /\ IsFiniteSet(Endpoints) /\ Pinned \in BOOLEAN
  /\ Heights \subseteq Nat /\ HeadAges \subseteq Int
  /\ {PollInterval, PollTimeout, DownAfterFailures, UpAfterSuccesses} \subseteq Nat \ {0}
  /\ {StallAfter, MaxHeadAge, MaxHeadFuture} \subseteq Nat
  /\ MaxLagBlocks \in Nat /\ MaxClock \in Nat

VARIABLES
  now,        \* Date.now()
  endpoints,  \* networks.get(network): the record of each endpoint
  polls,      \* the pollOne calls in progress
  polling,    \* the re-entrancy guard
  nextTick    \* when the interval timer is due

healthVars == <<now, endpoints, polls, polling, nextTick>>

States == {"up", "down", "stalled", "unknown"}

\* verifiedIdentity is TRUE when it holds the expected identity, FALSE when null.
\* The counters are only compared with their thresholds and stop there.
EndpointRecord ==
  [state : States,
   consecutiveFailures : 0 .. DownAfterFailures,
   consecutiveSuccesses : 0 .. UpAfterSuccesses,
   lastHeight : Heights \cup {None},
   lastHeightChangeAt : Nat,
   lastVerifiedPollAt : Nat \cup {None},
   headTimestamp : Int \cup {None},
   syncing : BOOLEAN \cup {None},
   verifiedIdentity : BOOLEAN]

\* height is None until qrl_blockNumber has been answered.
Poll == [endpoint : Endpoints, startedAt : Nat, height : Heights \cup {None}]

NewRecord ==
  [state |-> "unknown", consecutiveFailures |-> 0, consecutiveSuccesses |-> 0,
   lastHeight |-> None, lastHeightChangeAt |-> 0, lastVerifiedPollAt |-> None,
   headTimestamp |-> None, syncing |-> None, verifiedIdentity |-> FALSE]

PollOfAll(time) == {[endpoint |-> e, startedAt |-> time, height |-> None] : e \in Endpoints}

\* init, and start with its immediate poll.
HealthInit ==
  /\ now = 0
  /\ endpoints = [e \in Endpoints |-> NewRecord]
  /\ polls = PollOfAll(0)
  /\ polling = TRUE
  /\ nextTick = PollInterval

AtMost(n, limit) == IF n < limit THEN n ELSE limit
Larger(a, b) == IF a > b THEN a ELSE b

-----------------------------------------------------------------------------
(* The outcome of a poll *)

\* Operators named Definition_Mistake, here and below, are faulty variants of the
\* definition that follows them.  The specification never uses one; each shows
\* that some property notices the mistake.

NextState_IgnoresStall(ep, advanced, successes, stalledFor) ==
  CASE ep.state = "unknown" -> "up"
    [] ep.state = "stalled" /\ advanced -> "up"
    [] ep.state = "down" /\ successes >= UpAfterSuccesses -> "up"
    [] OTHER -> ep.state

\* The state after a successful poll; stalledFor is the time without an advance.
NextState(ep, advanced, successes, stalledFor) ==
  CASE stalledFor > StallAfter -> "stalled"
    [] stalledFor <= StallAfter /\ ep.state = "unknown" -> "up"
    [] stalledFor <= StallAfter /\ ep.state = "stalled" /\ advanced -> "up"
    [] /\ stalledFor <= StallAfter /\ ep.state = "down"
       /\ successes >= UpAfterSuccesses -> "up"
    [] OTHER -> ep.state

\* applyPollSuccess.  A lower height is kept too, so that a later climb counts as
\* an advance, but only an advance restarts the stall timer.
ApplyPollSuccess(ep, height, time) ==
  LET advanced == ep.lastHeight = None \/ height > ep.lastHeight
      changed == IF advanced THEN time ELSE ep.lastHeightChangeAt
      successes == AtMost(ep.consecutiveSuccesses + 1, UpAfterSuccesses)
  IN  [ep EXCEPT !.lastHeight = height, !.lastHeightChangeAt = changed,
                 !.consecutiveSuccesses = successes, !.consecutiveFailures = 0,
                 !.state = NextState(ep, advanced, successes, time - changed)]

ApplyFailure_KeepsIdentity(ep) ==
  LET failures == AtMost(ep.consecutiveFailures + 1, DownAfterFailures)
  IN  [ep EXCEPT !.consecutiveFailures = failures, !.consecutiveSuccesses = 0,
                 !.state = IF failures >= DownAfterFailures THEN "down" ELSE @]

\* applyFailure
ApplyFailure(ep) ==
  LET failures == AtMost(ep.consecutiveFailures + 1, DownAfterFailures)
  IN  [ep EXCEPT !.verifiedIdentity = FALSE,
                 !.consecutiveFailures = failures, !.consecutiveSuccesses = 0,
                 !.state = IF failures >= DownAfterFailures THEN "down" ELSE @]

-----------------------------------------------------------------------------
(* Readiness *)

MaxPollAge == Larger(3 * PollInterval, 2 * PollTimeout)

HasFreshHead(e) ==
  LET ep == endpoints[e]
  IN  /\ ep.state = "up" /\ ep.syncing = FALSE
      /\ ep.lastHeight # None /\ ep.headTimestamp # None /\ ep.lastVerifiedPollAt # None
      /\ now - ep.lastVerifiedPollAt <= MaxPollAge
      /\ now - ep.headTimestamp <= MaxHeadAge
      /\ ep.headTimestamp - now <= MaxHeadFuture

FreshEndpoints ==
  {e \in Endpoints : HasFreshHead(e) /\ (Pinned => endpoints[e].verifiedIdentity)}

\* Behind no fresh endpoint by more than the allowed lag.
WithinLag_OfAnyEndpoint(e) ==
  \A f \in {g \in Endpoints : endpoints[g].lastHeight # None} :
    endpoints[f].lastHeight - endpoints[e].lastHeight <= MaxLagBlocks

WithinLag(e) ==
  \A f \in FreshEndpoints : endpoints[f].lastHeight - endpoints[e].lastHeight <= MaxLagBlocks

\* readyEndpointsForAttempt, as a set: all of them are up, and their order is by
\* latency, which is not modelled.
ReadyEndpoints == {e \in FreshEndpoints : WithinLag(e)}

-----------------------------------------------------------------------------
(* The poll loop.  The queries of one poll follow each other; only the first *)
(* and the last answer are steps, as the poll shows nothing in between.      *)

IntervalFires_Reentrant ==
  /\ now >= nextTick
  /\ nextTick' = now + PollInterval
  /\ polling' = TRUE
  /\ polls' = polls \cup PollOfAll(now)
  /\ UNCHANGED <<now, endpoints>>

IntervalFires ==
  /\ now >= nextTick
  /\ nextTick' = now + PollInterval
  /\ \/ polling /\ UNCHANGED <<polling, polls>>
     \/ ~polling /\ polling' = TRUE /\ polls' = PollOfAll(now)
  /\ UNCHANGED <<now, endpoints>>

\* The answer to qrl_blockNumber.
HeightAnswered(p) ==
  /\ p.height = None
  /\ \E h \in Heights : polls' = (polls \ {p}) \cup {[p EXCEPT !.height = h]}
  /\ UNCHANGED <<now, endpoints, polling, nextTick>>

Settled_KeepsGuard(p) ==
  /\ polls' = polls \ {p}
  /\ UNCHANGED polling

\* p settles, and with the last poll of the round the guard is reset.
Settled(p) ==
  /\ polls' = polls \ {p}
  /\ polling' = (polls' # {})

\* The chain id and genesis (when pinned) matched, qrl_syncing and the head block
\* were answered.
PollSucceeds(p) ==
  /\ p.height # None
  /\ \E syncing \in BOOLEAN, age \in HeadAges :
       LET ep == [endpoints[p.endpoint] EXCEPT
                    !.syncing = syncing, !.headTimestamp = now - age,
                    !.lastVerifiedPollAt = now, !.verifiedIdentity = Pinned]
       IN  endpoints' = [endpoints EXCEPT ![p.endpoint] = ApplyPollSuccess(ep, p.height, now)]
  /\ Settled(p)
  /\ UNCHANGED <<now, nextTick>>

\* Any query of the poll failed or the abort timer fired.
PollFails(p) ==
  /\ endpoints' = [endpoints EXCEPT ![p.endpoint] = ApplyFailure(@)]
  /\ Settled(p)
  /\ UNCHANGED <<now, nextTick>>

HealthTick ==
  /\ now < MaxClock
  /\ now' = now + 1
  /\ UNCHANGED <<endpoints, polls, polling, nextTick>>

HealthNext ==
  \/ IntervalFires
  \/ \E p \in polls : HeightAnswered(p)
  \/ \E p \in polls : PollSucceeds(p)
  \/ \E p \in polls : PollFails(p)
  \/ HealthTick

HealthSpec == HealthInit /\ [][HealthNext]_healthVars

-----------------------------------------------------------------------------
(* Properties *)

\* Every variable of the monitor holds a value of its type, and the re-entrancy
\* guard is set exactly while a round of polls is in progress: a round whose every
\* poll failed does not stop the poll loop for good.
HealthTypeOK ==
  /\ now \in 0 .. MaxClock
  /\ endpoints \in [Endpoints -> EndpointRecord]
  /\ polls \subseteq Poll
  /\ polling = (polls # {})
  /\ nextTick \in Nat

\* Polls of one endpoint never overlap, however slow its node is, so an older
\* answer is never applied after a newer one.
OnePollPerEndpoint ==
  \A p, q \in polls : p.endpoint = q.endpoint => p = q

\* An endpoint is up only if its last successful poll found its head advanced
\* within STALL_AFTER_MS: neither a regression, nor a recovery from down or
\* unknown, makes a standing head count as progress.
UpMeansProgress ==
  \A e \in Endpoints : endpoints[e].state = "up" =>
    endpoints[e].lastVerifiedPollAt - endpoints[e].lastHeightChangeAt <= StallAfter

\* Requests go to the highest fresh head and its near peers, and to some endpoint
\* as long as one is fresh: an endpoint that is down, stale or on a foreign chain
\* cannot shut the others out with a higher head.
BestHeadIsReady ==
  /\ FreshEndpoints # {} => ReadyEndpoints # {}
  /\ \A e, f \in ReadyEndpoints :
       endpoints[e].lastHeight - endpoints[f].lastHeight <= MaxLagBlocks
  /\ \A e \in FreshEndpoints :
       (\A f \in FreshEndpoints : endpoints[f].lastHeight <= endpoints[e].lastHeight)
         => e \in ReadyEndpoints

=============================================================================
