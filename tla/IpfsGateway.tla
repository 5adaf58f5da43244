----------------------------- MODULE IpfsGateway -----------------------------
(***************************************************************************)
(* The IPFS proxy of src/routes/ipfs.routes.ts: a request tries the        *)
(* configured gateways in order under one deadline, an attempt leaves time *)
(* for the gateways after it, and all requests share the gateways'         *)
(* cooldowns, the window of their failing contents and the fetch slots.    *)
(*                                                                         *)
(* A request identifier stands for one ipfsHandler call at a time.  Each   *)
(* slot reserves IPFS_MAX_SIZE_BYTES, so MaxFetches stands for the tighter *)
(* of IPFS_MAX_CONCURRENT and IPFS_MAX_INFLIGHT_BYTES.  performance.now()  *)
(* and Date.now() are one clock.                                           *)
(***************************************************************************)
EXTENDS Integers, FiniteSets

CONSTANTS
  Fetches,             \* ipfsHandler calls at one time
  GatewayCount,        \* IPFS_GATEWAYS.length
  Cids,                \* root CIDs, as requests spell them
  Content,             \* the content each one names: base32 ignores letter case
  Nothing,             \* undefined
  MaxFetches,          \* IPFS_MAX_CONCURRENT
  FetchTimeout,        \* IPFS_FETCH_TIMEOUT_MS
  MinAttempt,          \* MIN_ATTEMPT_MS
  FallbackReserve,     \* IPFS_FALLBACK_RESERVE_MS
  RetryAfters,         \* what retryAfterMs returns, at most IPFS_MAX_COOLDOWN_MS
  ServerErrorCooldown, \* SERVER_ERROR_COOLDOWN_MS
  ServerErrorWindow,   \* IPFS_SERVER_ERROR_WINDOW_MS
  ServerErrorMinCids,  \* IPFS_SERVER_ERROR_MIN_CIDS
  MaxAsked,            \* bound: requests in all
  LastInstant          \* bound: the clock stops here, after every deadline

Gateways == 1 .. GatewayCount

\* fetching: waiting for the headers or the first bytes.  streaming: bytes have been
\* sent to the client.  counted is history: the later gateways whose reserve has been
\* set aside since the request began.
FetchRecord ==
  [cid : Cids, gateway : Gateways, phase : {"fetching", "streaming"},
   deadline : Nat, attemptEnd : Nat, counted : SUBSET Gateways]

ASSUME IpfsAssumption ==
  /\ IsFiniteSet(Fetches) /\ IsFiniteSet(Cids) /\ Content \in [Cids -> Cids]
  /\ Nothing \notin Nat \cup FetchRecord
  /\ {GatewayCount, MaxFetches, FetchTimeout, MinAttempt, FallbackReserve} \subseteq Nat \ {0}
  /\ RetryAfters \subseteq Nat
  /\ {ServerErrorCooldown, ServerErrorWindow, ServerErrorMinCids} \subseteq Nat \ {0}
  /\ MaxAsked \in Nat /\ LastInstant \in Nat

VARIABLES
  fetches,          \* the ipfsHandler call of each identifier, or Nothing
  activeFetches,    \* fetch slots taken
  cooldownUntil,    \* of each gateway
  serverErrorCids,  \* of each gateway: when each content last failed
  instant,          \* now
  failing,          \* history, of each gateway: the failures since it last cooled for them
  asked             \* requests so far, for the bound

ipfsVars == <<fetches, activeFetches, cooldownUntil, serverErrorCids, instant, failing, asked>>

IpfsInit ==
  /\ fetches = [r \in Fetches |-> Nothing]
  /\ activeFetches = 0
  /\ cooldownUntil = [g \in Gateways |-> 0]
  /\ serverErrorCids = [g \in Gateways |-> [k \in Cids |-> Nothing]]
  /\ instant = 0
  /\ failing = [g \in Gateways |-> {}]
  /\ asked = 0

InProgress == {r \in Fetches : fetches[r] # Nothing}

-----------------------------------------------------------------------------
(* The loop over the gateways *)

\* Gateways that are not cooling down, from g on.
EligibleFrom(g) == {h \in Gateways : h >= g /\ cooldownUntil[h] <= instant}

Nearest(gateways) == CHOOSE g \in gateways : \A h \in gateways : g <= h

SmallerOf(a, b) == IF a < b THEN a ELSE b
LargerOf(a, b) == IF a > b THEN a ELSE b

AttemptWindow_ReservesOne(remaining, later) ==
  IF later = 0 THEN remaining
  ELSE SmallerOf(remaining, LargerOf(MinAttempt, remaining - FallbackReserve))

\* The time an attempt gets, with this many eligible gateways after it.
AttemptWindow(remaining, later) ==
  SmallerOf(remaining, LargerOf(MinAttempt, remaining - later * FallbackReserve))

\* The request q, about to try gateway g.  A gateway that has only just come out of its
\* cooldown takes its time from the reserves of those after it.
BeginAttempt(q, g) ==
  [q EXCEPT !.gateway = g, !.phase = "fetching",
            !.counted = IF g \in @ THEN @ \cap EligibleFrom(g) ELSE {},
            !.attemptEnd = instant + AttemptWindow(q.deadline - instant,
                                                   Cardinality(EligibleFrom(g + 1)))]

\* q after the gateways before g have been tried or skipped: the next attempt, or
\* the answer that ends the request.
Continue(q, g) ==
  IF instant >= q.deadline \/ EligibleFrom(g) = {} THEN Nothing
  ELSE BeginAttempt(q, Nearest(EligibleFrom(g)))

Finish_KeepsSlot(r) ==
  /\ fetches' = [fetches EXCEPT ![r] = Nothing]
  /\ UNCHANGED activeFetches

\* The handler's finally.
Finish(r) ==
  /\ fetches' = [fetches EXCEPT ![r] = Nothing]
  /\ activeFetches' = activeFetches - 1

\* The attempt of r has failed and may be followed by another.
TryNext(r) ==
  LET next == Continue(fetches[r], fetches[r].gateway + 1)
  IN  /\ fetches' = [fetches EXCEPT ![r] = next]
      /\ activeFetches' = IF next = Nothing THEN activeFetches - 1 ELSE activeFetches

NewFetch(cid) ==
  [cid |-> cid, gateway |-> 1, phase |-> "fetching", deadline |-> instant + FetchTimeout,
   attemptEnd |-> instant, counted |-> EligibleFrom(1)]

\* ipfsHandler up to its first await; a request without a slot is refused.
StartFetch(r, cid) ==
  LET q == Continue(NewFetch(cid), 1)
  IN  /\ fetches[r] = Nothing
      /\ activeFetches < MaxFetches
      /\ instant + FetchTimeout < LastInstant
      /\ asked < MaxAsked /\ asked' = asked + 1
      /\ fetches' = [fetches EXCEPT ![r] = q]
      /\ activeFetches' = IF q = Nothing THEN activeFetches ELSE activeFetches + 1
      /\ UNCHANGED <<cooldownUntil, serverErrorCids, instant, failing>>

-----------------------------------------------------------------------------
(* What a gateway answers *)

In(r, phase) == fetches[r] # Nothing /\ fetches[r].phase = phase

CoolDown_Overwrites(g, until) == [cooldownUntil EXCEPT ![g] = until]

CoolDown(g, until) == [cooldownUntil EXCEPT ![g] = LargerOf(@, until)]

\* 429
RateLimited(r) ==
  LET g == fetches[r].gateway
  IN  /\ In(r, "fetching")
      /\ \E wait \in RetryAfters : cooldownUntil' = CoolDown(g, instant + wait)
      /\ TryNext(r)
      /\ UNCHANGED <<serverErrorCids, instant, failing, asked>>

\* The lower-case form of a base32 CID.
Key(cid) == Content[cid]

Observed_KeepsFirst(g, key) ==
  [k \in Cids |-> IF serverErrorCids[g][k] # Nothing
                     /\ instant - serverErrorCids[g][k] < ServerErrorWindow
                  THEN serverErrorCids[g][k] ELSE IF k = key THEN instant ELSE Nothing]

\* The contents an error of g is counted with: those whose last failure is inside
\* the window, and the new one.
Observed(g, key) ==
  [k \in Cids |-> IF k = key THEN instant
                  ELSE IF serverErrorCids[g][k] # Nothing
                          /\ instant - serverErrorCids[g][k] < ServerErrorWindow
                  THEN serverErrorCids[g][k] ELSE Nothing]

Known(observed) == {k \in Cids : observed[k] # Nothing}

\* The contents that failed at g inside the window, by the history.
FailingContents(failures) ==
  {f.content : f \in {x \in failures : instant - x.at < ServerErrorWindow}}

\* 502, 503 or 504
BadGateway(r) ==
  LET g == fetches[r].gateway
      observed == Observed(g, Key(fetches[r].cid))
      cool == Cardinality(Known(observed)) >= ServerErrorMinCids
      failures == failing[g] \cup {[content |-> Content[fetches[r].cid], at |-> instant]}
  IN  /\ In(r, "fetching")
      /\ serverErrorCids' = [serverErrorCids EXCEPT ![g] =
           IF cool THEN [k \in Cids |-> Nothing] ELSE observed]
      /\ cooldownUntil' = IF cool THEN CoolDown(g, instant + ServerErrorCooldown)
                          ELSE cooldownUntil
      /\ failing' = [failing EXCEPT ![g] =
           IF Cardinality(FailingContents(failures)) >= ServerErrorMinCids THEN {} ELSE failures]
      /\ TryNext(r)
      /\ UNCHANGED <<instant, asked>>

AttemptFails_EvenStreaming(r) == fetches[r] # Nothing /\ TryNext(r)

\* The attempt fails before the first byte: another 5xx, no connection, a redirect,
\* a broken stream, or its timer.
AttemptFails(r) == In(r, "fetching") /\ TryNext(r)

\* An answer that ends the search or cannot be used: another status, an oversized,
\* empty or unreadable body, the end of the stream or its failure after the first
\* byte.
Answered(r) == fetches[r] # Nothing /\ Finish(r)

\* The attempt's timer is cleared; the one of the deadline goes on.
FirstChunk(r) ==
  /\ In(r, "fetching")
  /\ fetches' = [fetches EXCEPT ![r].phase = "streaming", ![r].attemptEnd = fetches[r].deadline]
  /\ UNCHANGED activeFetches

\* The client has gone.
Disconnected(r) == fetches[r] # Nothing /\ Finish(r)

Due_NotWhileStreaming(r) == In(r, "fetching") /\ instant >= fetches[r].attemptEnd

\* The timer of r's attempt, or of its deadline, is due.
Due(r) == fetches[r] # Nothing /\ instant >= fetches[r].attemptEnd

\* It fires: a stream that has begun is cut, any other attempt fails.
TimerFires(r) ==
  /\ Due(r)
  /\ IF fetches[r].phase = "streaming" THEN Finish(r) ELSE TryNext(r)

GatewayAlone(r) ==
  \/ AttemptFails(r) \/ Answered(r) \/ FirstChunk(r) \/ Disconnected(r)
  \/ TimerFires(r)

\* Timers are punctual.
TimePasses ==
  /\ instant < LastInstant
  /\ \A r \in Fetches : ~Due(r)
  /\ instant' = instant + 1
  /\ failing' = [g \in Gateways |->
       {f \in failing[g] : (instant + 1) - f.at < ServerErrorWindow}]
  /\ UNCHANGED <<fetches, activeFetches, cooldownUntil, serverErrorCids, asked>>

IpfsNext ==
  \/ \E r \in Fetches, cid \in Cids : StartFetch(r, cid)
  \/ \E r \in Fetches : RateLimited(r) \/ BadGateway(r)
  \/ /\ \E r \in Fetches : GatewayAlone(r)
     /\ UNCHANGED <<cooldownUntil, serverErrorCids, instant, failing, asked>>
  \/ TimePasses

IpfsSpec == IpfsInit /\ [][IpfsNext]_ipfsVars

-----------------------------------------------------------------------------
(* Properties *)

\* Every variable holds a value of its type, and activeFetches counts exactly the requests in progress, within its
\* limit, whichever way each of them ends.
IpfsTypeOK ==
  /\ fetches \in [Fetches -> FetchRecord \cup {Nothing}]
  /\ activeFetches = Cardinality(InProgress) /\ activeFetches <= MaxFetches
  /\ cooldownUntil \in [Gateways -> Nat]
  /\ serverErrorCids \in [Gateways -> [Cids -> Nat \cup {Nothing}]]
  /\ instant \in 0 .. LastInstant

\* No request outlives its deadline: whichever gateway it has come to, and even if that
\* one sends its body byte by byte, a timer that is not later than the deadline is left
\* to end it.
DeadlineIsKept ==
  \A r \in InProgress : instant <= fetches[r].attemptEnd /\ fetches[r].attemptEnd <= fetches[r].deadline

\* The contents an error is counted with are exactly the distinct contents that failed
\* at the gateway inside the window since the last cooldown they caused, however the
\* failures of concurrent requests, repeated and differently spelled CIDs interleave;
\* so one broken content never cools a gateway, and enough broken contents do so at once.
ErrorWindowIsExact ==
  \A g \in Gateways :
    LET recent == {k \in Cids : /\ serverErrorCids[g][k] # Nothing
                                /\ instant - serverErrorCids[g][k] < ServerErrorWindow}
    IN  recent = FailingContents(failing[g]) /\ Cardinality(recent) < ServerErrorMinCids

\* r begins an attempt in this step.
Begins(r) ==
  /\ fetches'[r] # Nothing
  /\ IF fetches[r] = Nothing THEN TRUE ELSE fetches'[r].gateway # fetches[r].gateway

\* No gateway is asked before the latest instant any answer of its own or its failing
\* contents have put it off to: a shorter Retry-After that another request is given
\* later does not take a longer wait back.
CooldownsAreKept ==
  [][/\ \A g \in Gateways : cooldownUntil'[g] >= cooldownUntil[g]
     /\ \A r \in Fetches : Begins(r) => cooldownUntil'[fetches'[r].gateway] <= instant]_ipfsVars

\* The timeout has room for every gateway, and a reserve for a whole attempt, as by
\* default.  (The code accepts a reserve below MIN_ATTEMPT_MS.)
ReservesFit ==
  /\ FallbackReserve >= MinAttempt
  /\ FetchTimeout >= MinAttempt + (GatewayCount - 1) * FallbackReserve

\* An attempt ends early enough to leave every gateway after it that is not cooling
\* its reserve before the deadline, whatever the earlier attempts have used, unless it,
\* one of them or one tried before has come out of a cooldown since the request began:
\* no reserve was set aside for that one.
FallbackKeepsReserve ==
  [][\A r \in Fetches :
       LET q == fetches'[r]
           later == EligibleFrom(q.gateway + 1)
       IN  ReservesFit /\ Begins(r) /\ {q.gateway} \cup later \subseteq q.counted
             => q.attemptEnd + Cardinality(later) * FallbackReserve <= q.deadline]_ipfsVars

\* The bytes a client receives are those of one gateway: once the first have been sent,
\* the request stays with that gateway until it ends.
OneSourcePerResponse ==
  [][\A r \in Fetches :
       In(r, "streaming") => fetches'[r] \in {fetches[r], Nothing}]_ipfsVars

=============================================================================
