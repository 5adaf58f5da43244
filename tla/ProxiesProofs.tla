--------------------------- MODULE ProxiesProofs ----------------------------
(***************************************************************************)
(* Proofs about the HTTP side: the IPFS proxy, the configuration of the    *)
(* networks, the request chain of the RPC proxy, the health monitor and    *)
(* the proxy over it.  For every number of gateways, requests, contents,   *)
(* endpoints and clients; every timeout, reserve, cooldown, threshold and  *)
(* range; every environment and every set of spellings; and whatever       *)
(* clients write and nodes report.                                         *)
(***************************************************************************)
EXTENDS RpcService, IpfsGateway, NetworkConfig, RpcRequests, QueuesProofs

-----------------------------------------------------------------------------
(* The IPFS proxy *)

\* The constants of the gateway proxy are numbers.
LEMMA Numbers ==
  /\ GatewayCount \in Nat /\ MaxFetches \in Nat /\ FetchTimeout \in Nat /\ MinAttempt \in Nat
  /\ FallbackReserve \in Nat /\ ServerErrorCooldown \in Nat /\ ServerErrorWindow \in Nat
  /\ ServerErrorMinCids \in Nat /\ LastInstant \in Nat
  /\ FallbackReserve > 0 /\ MinAttempt > 0 /\ FetchTimeout > 0 /\ ServerErrorMinCids > 0
BY IpfsAssumption

\* The gateways are finitely many.
LEMMA FiniteGateways ==
  ASSUME NEW G \in SUBSET Gateways
  PROVE  IsFiniteSet(G) /\ Cardinality(G) \in Nat
<1>1. IsFiniteSet(Gateways) BY Numbers, FS_Interval DEF Gateways
<1> QED BY <1>1, FS_Subset, FS_CardinalityType

\* A product with the reserve, which the SMT backend then treats as a number.
LEMMA Reserves ==
  ASSUME NEW m \in Nat, NEW n \in Nat
  PROVE  /\ m * FallbackReserve \in Nat
         /\ m <= n => m * FallbackReserve <= n * FallbackReserve
         /\ m + 1 <= n => m * FallbackReserve + FallbackReserve <= n * FallbackReserve
<1>1. FallbackReserve \in Nat BY Numbers
<1>2. \A a, b \in Nat : a * b \in Nat OBVIOUS
<1>3. ASSUME NEW d \in Nat, n = m + d PROVE m * FallbackReserve + d * FallbackReserve = n * FallbackReserve
  BY <1>1, <1>3
<1>4. ASSUME m <= n PROVE m * FallbackReserve <= n * FallbackReserve
  <2>1. n - m \in Nat /\ n = m + (n - m) BY <1>4
  <2>2. m * FallbackReserve + (n - m) * FallbackReserve = n * FallbackReserve BY <1>3, <2>1
  <2>3. m * FallbackReserve \in Nat /\ n * FallbackReserve \in Nat
        /\ (n - m) * FallbackReserve \in Nat BY <1>1, <1>2, <2>1
  <2> QED BY <2>2, <2>3
<1>5. ASSUME m + 1 <= n PROVE m * FallbackReserve + FallbackReserve <= n * FallbackReserve
  <2>1. n - m - 1 \in Nat /\ n = m + 1 + (n - m - 1) BY <1>5
  <2>2. m * FallbackReserve + FallbackReserve + (n - m - 1) * FallbackReserve = n * FallbackReserve
    BY <1>1, <2>1
  <2>3. m * FallbackReserve \in Nat /\ n * FallbackReserve \in Nat
        /\ (n - m - 1) * FallbackReserve \in Nat BY <1>1, <1>2, <2>1
  <2> QED BY <1>1, <2>2, <2>3
<1> QED BY <1>1, <1>2, <1>4, <1>5

-----------------------------------------------------------------------------
(* The loop over the gateways *)

\* What the handler's loop reads of the gateways and the clock.
Readable == cooldownUntil \in [Gateways -> Nat] /\ instant \in Nat

\* The nearest eligible gateway is eligible, and none before it is.
LEMMA NearestIsFirst ==
  ASSUME NEW g \in Nat, EligibleFrom(g) # {}
  PROVE  /\ Nearest(EligibleFrom(g)) \in EligibleFrom(g)
         /\ \A h \in EligibleFrom(g) : Nearest(EligibleFrom(g)) <= h
<1>1. EligibleFrom(g) \subseteq Nat BY Numbers DEF EligibleFrom, Gateways
<1>2. \E n \in EligibleFrom(g) : \A k \in EligibleFrom(g) : n <= k BY <1>1, LeastElement
<1> QED BY <1>2 DEF Nearest

\* A window lies inside what remains; it is a MIN_ATTEMPT_MS or all that remains, or
\* leaves the reserves of the later gateways.
LEMMA Windows ==
  ASSUME NEW remaining \in Nat, NEW later \in Nat
  PROVE  /\ AttemptWindow(remaining, later) \in 0 .. remaining
         /\ \/ AttemptWindow(remaining, later) + later * FallbackReserve <= remaining
            \/ /\ AttemptWindow(remaining, later) <= MinAttempt
               /\ remaining < MinAttempt + later * FallbackReserve
<1> DEFINE reserved == later * FallbackReserve
<1>1. reserved \in Nat BY Reserves
<1>2. AttemptWindow(remaining, later) = SmallerOf(remaining, LargerOf(MinAttempt, remaining - reserved))
  BY DEF AttemptWindow
<1> HIDE DEF reserved
<1>3. /\ AttemptWindow(remaining, later) \in 0 .. remaining
      /\ \/ AttemptWindow(remaining, later) + reserved <= remaining
         \/ AttemptWindow(remaining, later) <= MinAttempt /\ remaining < MinAttempt + reserved
  BY <1>1, <1>2, Numbers DEF SmallerOf, LargerOf
<1> QED BY <1>3 DEF reserved

\* next is the attempt the loop begins for q, at the first gateway from g on that is
\* not cooling.
Begun(next, q, g) ==
  /\ next \in FetchRecord
  /\ next.gateway \in EligibleFrom(g)
  /\ next.phase = "fetching" /\ next.deadline = q.deadline
  /\ instant < q.deadline
  /\ next.counted = IF next.gateway \in q.counted
                    THEN q.counted \cap EligibleFrom(next.gateway) ELSE {}
  /\ next.attemptEnd
       = instant + AttemptWindow(q.deadline - instant,
                                 Cardinality(EligibleFrom(next.gateway + 1)))
  /\ next.attemptEnd \in instant .. q.deadline

\* An attempt that is begun fits into what is left of the fetch's time.
LEMMA Continues ==
  ASSUME Readable, NEW q \in FetchRecord, NEW g \in Nat, Continue(q, g) # Nothing
  PROVE  Begun(Continue(q, g), q, g)
<1> DEFINE n == Nearest(EligibleFrom(g))
<1> DEFINE later == Cardinality(EligibleFrom(n + 1))
<1>1. EligibleFrom(g) # {} /\ instant < q.deadline /\ Continue(q, g) = BeginAttempt(q, n)
  <2>1. ~(instant >= q.deadline) /\ EligibleFrom(g) # {} BY DEF Continue
  <2>2. q.deadline \in Nat BY DEF FetchRecord
  <2> QED BY <2>1, <2>2 DEF Continue, Readable
<1>2. n \in EligibleFrom(g) /\ \A h \in EligibleFrom(g) : n <= h BY <1>1, NearestIsFirst
<1>3. n \in Gateways BY <1>2 DEF EligibleFrom
<1>4. later \in Nat BY FiniteGateways DEF EligibleFrom
<1>5. q.deadline - instant \in Nat BY <1>1 DEF Readable, FetchRecord
<1>6. AttemptWindow(q.deadline - instant, later) \in 0 .. (q.deadline - instant)
  BY <1>4, <1>5, Windows
<1> DEFINE next == [q EXCEPT !.gateway = n, !.phase = "fetching",
                             !.counted = IF n \in @ THEN @ \cap EligibleFrom(n) ELSE {},
                             !.attemptEnd = instant + AttemptWindow(q.deadline - instant, later)]
<1>7. Continue(q, g) = next BY <1>1 DEF BeginAttempt
<1>8. instant + AttemptWindow(q.deadline - instant, later) \in instant .. q.deadline
  BY <1>5, <1>6 DEF Readable, FetchRecord
<1>9. instant + AttemptWindow(q.deadline - instant, later) \in Nat BY <1>8 DEF Readable
<1> HIDE DEF later, n
<1>10. next \in FetchRecord BY <1>3, <1>9 DEF FetchRecord
<1>11. /\ next.gateway = n /\ next.phase = "fetching"
       /\ next.deadline = q.deadline
       /\ next.counted = IF n \in q.counted THEN q.counted \cap EligibleFrom(n) ELSE {}
       /\ next.attemptEnd = instant + AttemptWindow(q.deadline - instant, later)
  BY DEF FetchRecord
<1> HIDE DEF next
<1> QED BY <1>1, <1>2, <1>7, <1>8, <1>10, <1>11 DEF later, Begun

-----------------------------------------------------------------------------
(* The steps *)

Typed ==
  /\ fetches \in [Fetches -> FetchRecord \cup {Nothing}]
  /\ activeFetches \in Nat
  /\ cooldownUntil \in [Gateways -> Nat]
  /\ instant \in 0 .. LastInstant

OneOrNone(x) == IF x = Nothing THEN 0 ELSE 1

\* What a step does to the request r, its slot and the cooldowns, whichever answer it is.
Moves(r, x) ==
  /\ fetches' = [fetches EXCEPT ![r] = x] /\ instant' = instant
  /\ activeFetches' = activeFetches + OneOrNone(x) - OneOrNone(fetches[r])
  /\ \/ x = Nothing
     \/ /\ fetches[r] = Nothing /\ activeFetches < MaxFetches
        /\ \E cid \in Cids : x = Continue(NewFetch(cid), 1)
     \/ In(r, "fetching") /\ x = Continue(fetches[r], fetches[r].gateway + 1)
     \/ /\ In(r, "fetching")
        /\ x = [fetches[r] EXCEPT !.phase = "streaming", !.attemptEnd = fetches[r].deadline]
  /\ cooldownUntil' \in [Gateways -> Nat]
  /\ \A g \in Gateways : cooldownUntil'[g] >= cooldownUntil[g]
  /\ \A g \in Gateways : cooldownUntil'[g] # cooldownUntil[g]
                           => fetches[r] # Nothing /\ fetches[r].gateway = g

\* A cooldown is set for one gateway and is never shortened.
LEMMA CoolDownGrows ==
  ASSUME Typed, NEW g \in Gateways, NEW wait \in Nat, cooldownUntil' = CoolDown(g, instant + wait)
  PROVE  /\ cooldownUntil' \in [Gateways -> Nat]
         /\ \A h \in Gateways : cooldownUntil'[h] >= cooldownUntil[h]
         /\ \A h \in Gateways : cooldownUntil'[h] # cooldownUntil[h] => h = g
<1>1. cooldownUntil' = [cooldownUntil EXCEPT ![g] = LargerOf(cooldownUntil[g], instant + wait)]
  BY DEF CoolDown
<1>2. cooldownUntil[g] \in Nat /\ instant + wait \in Nat BY Numbers DEF Typed
<1>3. /\ LargerOf(cooldownUntil[g], instant + wait) \in Nat
      /\ LargerOf(cooldownUntil[g], instant + wait) >= cooldownUntil[g]
  BY <1>2 DEF LargerOf
<1>4. \A h \in Gateways : cooldownUntil[h] >= cooldownUntil[h] BY DEF Typed
<1> QED BY <1>1, <1>3, <1>4 DEF Typed

\* Where no cooldown is set, none changes.
LEMMA CooldownsStay ==
  ASSUME Typed, UNCHANGED cooldownUntil
  PROVE  /\ cooldownUntil' \in [Gateways -> Nat]
         /\ \A h \in Gateways : cooldownUntil'[h] >= cooldownUntil[h]
         /\ \A h \in Gateways : cooldownUntil'[h] = cooldownUntil[h]
BY DEF Typed

\* The two ways an attempt ends, with what they do to the slot.
LEMMA TryNextMoves ==
  ASSUME Typed, NEW r \in Fetches, In(r, "fetching"), TryNext(r)
  PROVE  \E x : /\ fetches' = [fetches EXCEPT ![r] = x]
                /\ activeFetches' = activeFetches + OneOrNone(x) - OneOrNone(fetches[r])
                /\ x = Continue(fetches[r], fetches[r].gateway + 1)
<1> DEFINE x == Continue(fetches[r], fetches[r].gateway + 1)
<1>1. fetches' = [fetches EXCEPT ![r] = x] BY DEF TryNext
<1>2. activeFetches' = IF x = Nothing THEN activeFetches - 1 ELSE activeFetches BY DEF TryNext
<1> HIDE DEF x
<1>3. activeFetches' = activeFetches + OneOrNone(x) - OneOrNone(fetches[r])
  BY <1>2 DEF Typed, OneOrNone, In
<1> QED BY <1>1, <1>3 DEF x

\* A fetch that ends gives its slot back.
LEMMA FinishMoves ==
  ASSUME Typed, NEW r \in Fetches, fetches[r] # Nothing, Finish(r)
  PROVE  /\ fetches' = [fetches EXCEPT ![r] = Nothing]
         /\ activeFetches' = activeFetches + OneOrNone(Nothing) - OneOrNone(fetches[r])
BY DEF Finish, Typed, OneOrNone

\* Every step of the proxy moves one fetch, or time passes.
LEMMA Steps ==
  ASSUME Typed, IpfsNext
  PROVE  TimePasses \/ \E r \in Fetches : \E x : Moves(r, x)
<1> USE Numbers
<1>1. ASSUME NEW r \in Fetches, NEW cid \in Cids, StartFetch(r, cid) PROVE \E x : Moves(r, x)
  <2> DEFINE x == Continue(NewFetch(cid), 1)
  <2>1. /\ fetches[r] = Nothing /\ activeFetches < MaxFetches
        /\ fetches' = [fetches EXCEPT ![r] = x]
        /\ activeFetches' = IF x = Nothing THEN activeFetches ELSE activeFetches + 1
        /\ UNCHANGED <<cooldownUntil, instant>>
    BY <1>1 DEF StartFetch
  <2>2. \E c \in Cids : x = Continue(NewFetch(c), 1) OBVIOUS
  <2> HIDE DEF x
  <2>3. activeFetches' = activeFetches + OneOrNone(x) - OneOrNone(fetches[r])
    BY <2>1 DEF Typed, OneOrNone
  <2> QED BY <2>1, <2>2, <2>3, CooldownsStay DEF Moves
<1>2. ASSUME NEW r \in Fetches, RateLimited(r) PROVE \E x : Moves(r, x)
  <2>1. In(r, "fetching") /\ TryNext(r) /\ instant' = instant BY <1>2 DEF RateLimited
  <2>2. fetches[r].gateway \in Gateways BY <2>1 DEF In, Typed, FetchRecord
  <2>3. PICK wait \in RetryAfters : cooldownUntil' = CoolDown(fetches[r].gateway, instant + wait)
    BY <1>2 DEF RateLimited
  <2>4. wait \in Nat BY <2>3, IpfsAssumption
  <2>5. /\ cooldownUntil' \in [Gateways -> Nat]
        /\ \A h \in Gateways : cooldownUntil'[h] >= cooldownUntil[h]
        /\ \A h \in Gateways : cooldownUntil'[h] # cooldownUntil[h] => h = fetches[r].gateway
    BY <2>2, <2>3, <2>4, CoolDownGrows
  <2> QED BY <2>1, <2>5, TryNextMoves DEF Moves, In
<1>3. ASSUME NEW r \in Fetches, BadGateway(r) PROVE \E x : Moves(r, x)
  <2>1. In(r, "fetching") /\ TryNext(r) /\ instant' = instant BY <1>3 DEF BadGateway
  <2>2. fetches[r].gateway \in Gateways BY <2>1 DEF In, Typed, FetchRecord
  <2>3. \/ cooldownUntil' = CoolDown(fetches[r].gateway, instant + ServerErrorCooldown)
        \/ cooldownUntil' = cooldownUntil
    BY <1>3 DEF BadGateway
  <2>4. /\ cooldownUntil' \in [Gateways -> Nat]
        /\ \A h \in Gateways : cooldownUntil'[h] >= cooldownUntil[h]
        /\ \A h \in Gateways : cooldownUntil'[h] # cooldownUntil[h] => h = fetches[r].gateway
    BY <2>2, <2>3, CoolDownGrows, CooldownsStay
  <2> QED BY <2>1, <2>4, TryNextMoves DEF Moves, In
<1>4. ASSUME NEW r \in Fetches, GatewayAlone(r), UNCHANGED <<cooldownUntil, instant>>
      PROVE  \E x : Moves(r, x)
  <2>1. CASE In(r, "fetching") /\ TryNext(r)
    BY <1>4, <2>1, TryNextMoves, CooldownsStay DEF Moves
  <2>2. CASE fetches[r] # Nothing /\ Finish(r)
    <3>1. /\ fetches' = [fetches EXCEPT ![r] = Nothing]
          /\ activeFetches' = activeFetches + OneOrNone(Nothing) - OneOrNone(fetches[r])
      BY <2>2, FinishMoves
    <3> QED BY <1>4, <3>1, CooldownsStay DEF Moves
  <2>3. CASE FirstChunk(r)
    <3> DEFINE x == [fetches[r] EXCEPT !.phase = "streaming", !.attemptEnd = fetches[r].deadline]
    <3>1. In(r, "fetching") /\ fetches[r] \in FetchRecord /\ fetches[r] # Nothing
      BY <2>3 DEF FirstChunk, In, Typed
    <3>2. fetches' = [fetches EXCEPT ![r] = x] BY <2>3, <3>1 DEF FirstChunk, Typed
    <3>3. x \in FetchRecord BY <3>1 DEF FetchRecord
    <3>4. x # Nothing BY <3>3, IpfsAssumption
    <3>5. activeFetches' = activeFetches + OneOrNone(x) - OneOrNone(fetches[r])
      BY <2>3, <3>1, <3>4 DEF FirstChunk, OneOrNone, Typed
    <3>6. In(r, "fetching")
          /\ x = [fetches[r] EXCEPT !.phase = "streaming", !.attemptEnd = fetches[r].deadline]
      BY <3>1
    <3> HIDE DEF x
    <3> QED BY <1>4, <3>2, <3>5, <3>6, CooldownsStay DEF Moves
  <2>4. CASE TimerFires(r)
    <3>1. fetches[r] # Nothing /\ fetches[r].phase \in {"fetching", "streaming"}
      BY <2>4 DEF TimerFires, Due, Typed, FetchRecord
    <3> QED BY <2>1, <2>2, <2>4, <3>1 DEF TimerFires, In
  <2> QED BY <1>4, <2>1, <2>2, <2>3, <2>4 DEF GatewayAlone, AttemptFails, Answered, Disconnected
<1> QED BY <1>1, <1>2, <1>3, <1>4 DEF IpfsNext

-----------------------------------------------------------------------------
(* The inductive invariant *)

After(g) == {h \in Gateways : h > g}

\* Every attempt leaves the reserves that have been set aside.
ReservesAreLeft ==
  \A r \in InProgress :
    ReservesFit /\ fetches[r].phase = "fetching"
      => fetches[r].attemptEnd
           + Cardinality(fetches[r].counted \cap After(fetches[r].gateway)) * FallbackReserve
           <= fetches[r].deadline

FetchInv ==
  /\ Typed
  /\ activeFetches = Cardinality(InProgress) /\ activeFetches <= MaxFetches
  /\ DeadlineIsKept
  /\ ReservesAreLeft

\* With no fetch the invariant holds.
LEMMA FetchInvInit == IpfsInit => FetchInv
<1> SUFFICES ASSUME IpfsInit PROVE FetchInv OBVIOUS
<1>1. InProgress = {} BY DEF InProgress, IpfsInit
<1>2. Cardinality(InProgress) = 0 BY <1>1, FS_EmptySet
<1> QED BY <1>1, <1>2, Numbers
        DEF IpfsInit, FetchInv, Typed, DeadlineIsKept, ReservesAreLeft

\* A fetch starts with a well formed record.
LEMMA NewFetchTyped ==
  ASSUME Typed, NEW cid \in Cids
  PROVE  NewFetch(cid) \in FetchRecord
<1>1. 1 \in Gateways BY IpfsAssumption DEF Gateways
<1>2. instant \in Nat /\ instant + FetchTimeout \in Nat BY Numbers DEF Typed
<1>3. EligibleFrom(1) \in SUBSET Gateways BY DEF EligibleFrom
<1> QED BY <1>1, <1>2, <1>3 DEF NewFetch, FetchRecord

\* The new value of a request that moves.
LEMMA MovesTo ==
  ASSUME Typed, NEW r \in Fetches, NEW x, Moves(r, x), x # Nothing
  PROVE  \/ /\ fetches[r] = Nothing /\ activeFetches < MaxFetches
            /\ \E cid \in Cids : Begun(x, NewFetch(cid), 1)
         \/ In(r, "fetching") /\ Begun(x, fetches[r], fetches[r].gateway + 1)
         \/ /\ In(r, "fetching") /\ x \in FetchRecord
            /\ x = [fetches[r] EXCEPT !.phase = "streaming", !.attemptEnd = fetches[r].deadline]
<1>1. Readable BY Numbers DEF Typed, Readable
<1>2. CASE /\ fetches[r] = Nothing /\ activeFetches < MaxFetches
           /\ \E cid \in Cids : x = Continue(NewFetch(cid), 1)
  <2>1. PICK cid \in Cids : x = Continue(NewFetch(cid), 1) BY <1>2
  <2>2. Begun(x, NewFetch(cid), 1) BY <1>1, <2>1, NewFetchTyped, Continues
  <2> QED BY <1>2, <2>2
<1>3. CASE In(r, "fetching") /\ x = Continue(fetches[r], fetches[r].gateway + 1)
  <2>1. fetches[r] \in FetchRecord BY <1>3 DEF In, Typed
  <2>2. fetches[r].gateway + 1 \in Nat BY <2>1, Numbers DEF FetchRecord, Gateways
  <2> QED BY <1>1, <1>3, <2>1, <2>2, Continues
<1>4. CASE /\ In(r, "fetching")
           /\ x = [fetches[r] EXCEPT !.phase = "streaming", !.attemptEnd = fetches[r].deadline]
  <2>1. fetches[r] \in FetchRecord BY <1>4 DEF In, Typed
  <2>2. x \in FetchRecord BY <1>4, <2>1 DEF FetchRecord
  <2> QED BY <1>4, <2>2
<1> QED BY <1>2, <1>3, <1>4 DEF Moves

\* Moving a fetch keeps the types.
LEMMA TypedKept ==
  ASSUME Typed, NEW r \in Fetches, NEW x, Moves(r, x), activeFetches' \in Nat
  PROVE  Typed'
<1>1. x \in FetchRecord \cup {Nothing} BY MovesTo DEF Begun
<1>2. fetches' \in [Fetches -> FetchRecord \cup {Nothing}] BY <1>1 DEF Moves, Typed
<1> QED BY <1>2 DEF Moves, Typed

\* The slots count the requests in progress.
LEMMA CountKept ==
  ASSUME Typed, activeFetches = Cardinality(InProgress), activeFetches <= MaxFetches,
         NEW r \in Fetches, NEW x, Moves(r, x)
  PROVE  /\ activeFetches' = Cardinality(InProgress') /\ activeFetches' <= MaxFetches
         /\ activeFetches' \in Nat
<1>1. /\ fetches' = [fetches EXCEPT ![r] = x]
      /\ activeFetches' = activeFetches + OneOrNone(x) - OneOrNone(fetches[r])
      /\ x # Nothing /\ fetches[r] = Nothing => activeFetches < MaxFetches
  BY DEF Moves, In
<1>2. InProgress \subseteq Fetches BY DEF InProgress
<1>3. IsFiniteSet(InProgress) /\ Cardinality(InProgress) \in Nat
  BY <1>2, IpfsAssumption, FS_Subset, FS_CardinalityType
<1>4. CASE x = Nothing /\ fetches[r] # Nothing
  <2>1. InProgress' = InProgress \ {r} /\ r \in InProgress BY <1>1, <1>4 DEF InProgress, Typed
  <2>2. Cardinality(InProgress') = Cardinality(InProgress) - 1 BY <1>3, <2>1, FS_RemoveElement
  <2>3. Cardinality(InProgress) # 0 BY <1>3, <2>1, FS_EmptySet
  <2> QED BY <1>1, <1>3, <1>4, <2>2, <2>3, Numbers DEF OneOrNone
<1>5. CASE x # Nothing /\ fetches[r] = Nothing
  <2>1. InProgress' = InProgress \cup {r} /\ r \notin InProgress BY <1>1, <1>5 DEF InProgress, Typed
  <2>2. Cardinality(InProgress') = Cardinality(InProgress) + 1 BY <1>3, <2>1, FS_AddElement
  <2> QED BY <1>1, <1>3, <1>5, <2>2, Numbers DEF OneOrNone
<1>6. CASE x = Nothing <=> fetches[r] = Nothing
  <2>1. InProgress' = InProgress BY <1>1, <1>6 DEF InProgress, Typed
  <2> QED BY <1>1, <1>3, <1>6, <2>1, Numbers DEF OneOrNone
<1> QED BY <1>4, <1>5, <1>6

\* A begun attempt leaves the reserves if the time that remains holds them and a
\* whole attempt.
LEMMA BegunLeavesReserves ==
  ASSUME Readable, NEW q \in FetchRecord, NEW g \in Nat, NEW next, Begun(next, q, g),
         next.gateway \in q.counted
           => instant + MinAttempt
                + Cardinality(next.counted \cap After(next.gateway)) * FallbackReserve
                <= q.deadline
  PROVE  next.attemptEnd + Cardinality(next.counted \cap After(next.gateway)) * FallbackReserve
           <= next.deadline
<1> DEFINE S == next.counted \cap After(next.gateway)
<1> DEFINE L == EligibleFrom(next.gateway + 1)
<1>1. next.gateway \in Gateways /\ next.counted \in SUBSET Gateways
      /\ q.deadline \in Nat /\ instant \in Nat
  BY DEF Begun, FetchRecord, Readable
<1>2. next.gateway \in Nat BY <1>1, Numbers DEF Gateways
<1>3. CASE next.gateway \notin q.counted
  <2>1. S = {} BY <1>3 DEF Begun
  <2>2. Cardinality(S) = 0 BY <2>1, FS_EmptySet
  <2>3. Cardinality(S) * FallbackReserve = 0 BY <2>2, Numbers
  <2> HIDE DEF S
  <2>4. next.attemptEnd <= next.deadline /\ next.attemptEnd \in Nat
    BY <1>1 DEF Begun
  <2>5. next.attemptEnd + Cardinality(S) * FallbackReserve <= next.deadline
    BY <1>1, <2>3, <2>4
  <2> QED BY <2>5 DEF S
<1>4. CASE next.gateway \in q.counted
  <2>1. S \subseteq L
    BY <1>1, <1>2, <1>4 DEF Begun, After, EligibleFrom, Gateways
  <2>2. S \in SUBSET Gateways /\ L \in SUBSET Gateways BY <1>1 DEF EligibleFrom
  <2>3. IsFiniteSet(L) /\ Cardinality(L) \in Nat /\ Cardinality(S) \in Nat
    BY <2>2, FiniteGateways
  <2>4. Cardinality(S) <= Cardinality(L) BY <2>1, <2>3, FS_Subset
  <2> DEFINE later == Cardinality(L)
  <2> DEFINE c == Cardinality(S)
  <2> DEFINE remaining == q.deadline - instant
  <2> DEFINE window == AttemptWindow(remaining, later)
  <2>5. next.attemptEnd = instant + window /\ next.deadline = q.deadline BY DEF Begun
  <2>6. instant + MinAttempt + c * FallbackReserve <= q.deadline BY <1>4
  <2>7. later \in Nat /\ c \in Nat /\ c <= later BY <2>3, <2>4
  <2>8. remaining \in Nat BY <1>1 DEF Begun
  <2> HIDE DEF later, c, S, L
  <2>9. /\ window \in 0 .. remaining
        /\ \/ window + later * FallbackReserve <= remaining
           \/ window <= MinAttempt
    BY <2>7, <2>8, Windows
  <2>10. /\ c * FallbackReserve \in Nat /\ later * FallbackReserve \in Nat
         /\ c * FallbackReserve <= later * FallbackReserve
    BY <2>7, Reserves
  <2> DEFINE kept == c * FallbackReserve
  <2> DEFINE all == later * FallbackReserve
  <2>11. /\ kept \in Nat /\ all \in Nat /\ kept <= all
         /\ instant + MinAttempt + kept <= q.deadline
         /\ window + all <= remaining \/ window <= MinAttempt
    BY <2>6, <2>9, <2>10
  <2> HIDE DEF kept, all, window
  <2>12. instant + window + kept <= q.deadline
    BY <1>1, <2>8, <2>9, <2>11, Numbers
  <2>13. next.attemptEnd + kept <= next.deadline BY <2>5, <2>12 DEF window
  <2> QED BY <2>13 DEF kept, c, S
<1> QED BY <1>3, <1>4

\* The first attempt of a request has room for every gateway's reserve.
LEMMA FirstAttemptHasRoom ==
  ASSUME Typed, ReservesFit, NEW cid \in Cids, NEW next, Begun(next, NewFetch(cid), 1)
  PROVE  instant + MinAttempt
           + Cardinality(next.counted \cap After(next.gateway)) * FallbackReserve
           <= NewFetch(cid).deadline
<1> DEFINE S == next.counted \cap After(next.gateway)
<1>1. next.gateway \in Gateways BY DEF Begun, FetchRecord
<1>2. S \subseteq 2 .. GatewayCount BY <1>1, Numbers DEF After, Gateways
<1>3. IsFiniteSet(2 .. GatewayCount) /\ Cardinality(2 .. GatewayCount) = GatewayCount - 1
  <2>1. GatewayCount >= 1 /\ GatewayCount \in Int BY IpfsAssumption
  <2>2. IsFiniteSet(2 .. GatewayCount)
        /\ Cardinality(2 .. GatewayCount) = IF 2 > GatewayCount THEN 0 ELSE GatewayCount - 2 + 1
    BY <2>1, FS_Interval
  <2> QED BY <2>1, <2>2
<1>4. Cardinality(S) \in Nat /\ Cardinality(S) <= GatewayCount - 1
  <2> HIDE DEF S
  <2>1. IsFiniteSet(S) /\ Cardinality(S) <= Cardinality(2 .. GatewayCount)
    BY <1>2, <1>3, FS_Subset
  <2> QED BY <1>3, <2>1, FS_CardinalityType
<1>5. GatewayCount - 1 \in Nat BY IpfsAssumption
<1>6. /\ Cardinality(S) * FallbackReserve <= (GatewayCount - 1) * FallbackReserve
      /\ Cardinality(S) * FallbackReserve \in Nat
      /\ (GatewayCount - 1) * FallbackReserve \in Nat
  <2> HIDE DEF S
  <2> QED BY <1>4, <1>5, Reserves
<1>7. FetchTimeout >= MinAttempt + (GatewayCount - 1) * FallbackReserve BY DEF ReservesFit
<1>8. NewFetch(cid).deadline = instant + FetchTimeout BY DEF NewFetch
<1> DEFINE kept == Cardinality(S) * FallbackReserve
<1> DEFINE all == (GatewayCount - 1) * FallbackReserve
<1>9. kept \in Nat /\ all \in Nat /\ kept <= all /\ FetchTimeout >= MinAttempt + all
  BY <1>6, <1>7
<1>10. instant \in Nat BY Numbers DEF Typed
<1> HIDE DEF kept, all
<1>11. instant + MinAttempt + kept <= NewFetch(cid).deadline BY <1>8, <1>9, <1>10, Numbers
<1> QED BY <1>11 DEF kept, S

\* So has a later one, if its own reserve was set aside.
LEMMA NextAttemptHasRoom ==
  ASSUME Readable, ReservesFit, NEW q \in FetchRecord, NEW next,
         Begun(next, q, q.gateway + 1), next.gateway \in q.counted,
         instant <= q.attemptEnd,
         q.attemptEnd + Cardinality(q.counted \cap After(q.gateway)) * FallbackReserve <= q.deadline
  PROVE  instant + MinAttempt
           + Cardinality(next.counted \cap After(next.gateway)) * FallbackReserve
           <= q.deadline
<1> DEFINE S == next.counted \cap After(next.gateway)
<1> DEFINE T == q.counted \cap After(q.gateway)
<1>1. next.gateway \in Gateways /\ q.gateway \in Gateways /\ next.gateway > q.gateway
  BY Numbers DEF Begun, FetchRecord, EligibleFrom, Gateways
<1>2. next.gateway \in T /\ next.gateway \notin S /\ S \subseteq T
  BY <1>1, Numbers DEF Begun, After, Gateways
<1>3. S \in SUBSET Gateways /\ T \in SUBSET Gateways BY DEF After
<1> HIDE DEF S, T
<1>4. /\ IsFiniteSet(S) /\ IsFiniteSet(T) /\ Cardinality(S) \in Nat /\ Cardinality(T) \in Nat
  BY <1>3, FiniteGateways
<1>5. Cardinality(S \cup {next.gateway}) = Cardinality(S) + 1 BY <1>2, <1>4, FS_AddElement
<1>6. Cardinality(S) + 1 <= Cardinality(T)
  <2>1. S \cup {next.gateway} \subseteq T BY <1>2
  <2> QED BY <1>4, <1>5, <2>1, FS_Subset
<1>7. /\ Cardinality(S) * FallbackReserve + FallbackReserve <= Cardinality(T) * FallbackReserve
      /\ Cardinality(S) * FallbackReserve \in Nat /\ Cardinality(T) * FallbackReserve \in Nat
  BY <1>4, <1>6, Reserves
<1> DEFINE kept == Cardinality(S) * FallbackReserve
<1> DEFINE all == Cardinality(T) * FallbackReserve
<1>8. kept \in Nat /\ all \in Nat /\ kept + FallbackReserve <= all /\ q.attemptEnd + all <= q.deadline
  BY <1>7 DEF T
<1>9. FallbackReserve >= MinAttempt BY DEF ReservesFit
<1>10. instant \in Nat /\ q.attemptEnd \in Nat /\ q.deadline \in Nat BY DEF Readable, FetchRecord
<1> HIDE DEF kept, all
<1>11. instant + MinAttempt + kept <= q.deadline BY <1>8, <1>9, <1>10, Numbers
<1> QED BY <1>11 DEF kept, S

\* No attempt of a fetch that moves ends after the fetch's deadline.
LEMMA DeadlineKept ==
  ASSUME Typed, DeadlineIsKept, NEW r \in Fetches, NEW x, Moves(r, x)
  PROVE  DeadlineIsKept'
<1>1. fetches' = [fetches EXCEPT ![r] = x] /\ instant' = instant BY DEF Moves
<1> SUFFICES ASSUME NEW t \in Fetches, fetches'[t] # Nothing
             PROVE  /\ instant' <= fetches'[t].attemptEnd
                    /\ fetches'[t].attemptEnd <= fetches'[t].deadline
  BY DEF DeadlineIsKept, InProgress
<1>2. CASE t # r
  <2>1. fetches'[t] = fetches[t] BY <1>1, <1>2 DEF Typed
  <2> QED BY <1>1, <2>1 DEF DeadlineIsKept, InProgress
<1>3. CASE t = r
  <2>1. fetches'[t] = x /\ x # Nothing BY <1>1, <1>3 DEF Typed
  <2>2. instant \in Nat BY Numbers DEF Typed
  <2>3. ASSUME NEW q \in FetchRecord, NEW g, Begun(x, q, g)
        PROVE  instant <= x.attemptEnd /\ x.attemptEnd <= x.deadline
    <3>1. q.deadline \in Nat BY DEF FetchRecord
    <3> QED BY <2>2, <2>3, <3>1 DEF Begun
  <2>4. CASE \E cid \in Cids : Begun(x, NewFetch(cid), 1)
    BY <1>1, <2>1, <2>3, <2>4, NewFetchTyped
  <2>5. CASE In(r, "fetching") /\ Begun(x, fetches[r], fetches[r].gateway + 1)
    <3>1. fetches[r] \in FetchRecord BY <2>5 DEF In, Typed
    <3> QED BY <1>1, <2>1, <2>3, <2>5, <3>1
  <2>6. CASE /\ In(r, "fetching")
             /\ x = [fetches[r] EXCEPT !.phase = "streaming", !.attemptEnd = fetches[r].deadline]
    <3>1. fetches[r] \in FetchRecord /\ r \in InProgress BY <2>6 DEF In, Typed, InProgress
    <3>2. instant <= fetches[r].attemptEnd /\ fetches[r].attemptEnd <= fetches[r].deadline
      BY <3>1 DEF DeadlineIsKept
    <3>3. fetches[r].attemptEnd \in Nat /\ fetches[r].deadline \in Nat BY <3>1 DEF FetchRecord
    <3>4. x.attemptEnd = fetches[r].deadline /\ x.deadline = fetches[r].deadline
      BY <2>6, <3>1 DEF FetchRecord
    <3> QED BY <1>1, <2>1, <2>2, <3>2, <3>3, <3>4
  <2> QED BY <2>1, <2>4, <2>5, <2>6, MovesTo
<1> QED BY <1>2, <1>3

\* An attempt leaves the reserve of each gateway that could still be tried.
LEMMA ReservesKept ==
  ASSUME Typed, DeadlineIsKept, ReservesAreLeft, NEW r \in Fetches, NEW x, Moves(r, x)
  PROVE  ReservesAreLeft'
<1>1. fetches' = [fetches EXCEPT ![r] = x] BY DEF Moves
<1> SUFFICES ASSUME NEW t \in Fetches, fetches'[t] # Nothing, ReservesFit,
                    fetches'[t].phase = "fetching"
             PROVE  fetches'[t].attemptEnd
                      + Cardinality(fetches'[t].counted \cap After(fetches'[t].gateway))
                          * FallbackReserve <= fetches'[t].deadline
  BY DEF ReservesAreLeft, InProgress, ReservesFit, After, Gateways
<1>2. CASE t # r
  <2>1. fetches'[t] = fetches[t] BY <1>1, <1>2 DEF Typed
  <2> QED BY <2>1 DEF ReservesAreLeft, InProgress
<1>3. CASE t = r
  <2>1. fetches'[t] = x /\ x # Nothing BY <1>1, <1>3 DEF Typed
  <2>2. Readable BY Numbers DEF Typed, Readable
  <2>3. CASE \E cid \in Cids : Begun(x, NewFetch(cid), 1)
    <3>1. PICK cid \in Cids : Begun(x, NewFetch(cid), 1) BY <2>3
    <3>2. instant + MinAttempt + Cardinality(x.counted \cap After(x.gateway)) * FallbackReserve
            <= NewFetch(cid).deadline
      BY <3>1, FirstAttemptHasRoom
    <3> QED BY <2>1, <2>2, <3>1, <3>2, NewFetchTyped, BegunLeavesReserves
  <2>4. CASE In(r, "fetching") /\ Begun(x, fetches[r], fetches[r].gateway + 1)
    <3>1. fetches[r] \in FetchRecord /\ r \in InProgress BY <2>4 DEF In, Typed, InProgress
    <3>2. instant <= fetches[r].attemptEnd BY <3>1 DEF DeadlineIsKept
    <3>3. fetches[r].attemptEnd
            + Cardinality(fetches[r].counted \cap After(fetches[r].gateway)) * FallbackReserve
            <= fetches[r].deadline
      BY <2>4, <3>1 DEF ReservesAreLeft, In
    <3>4. x.gateway \in fetches[r].counted
          => instant + MinAttempt + Cardinality(x.counted \cap After(x.gateway)) * FallbackReserve
               <= fetches[r].deadline
      BY <2>2, <2>4, <3>1, <3>2, <3>3, NextAttemptHasRoom
    <3>5. fetches[r].gateway + 1 \in Nat BY <3>1, Numbers DEF FetchRecord, Gateways
    <3> QED BY <2>1, <2>2, <2>4, <3>1, <3>4, <3>5, BegunLeavesReserves
  <2>5. CASE /\ In(r, "fetching")
             /\ x = [fetches[r] EXCEPT !.phase = "streaming", !.attemptEnd = fetches[r].deadline]
    <3>1. fetches[r] \in FetchRecord BY <2>5 DEF In, Typed
    <3>2. x.phase = "streaming" BY <2>5, <3>1 DEF FetchRecord
    <3> QED BY <2>1, <3>2
  <2> QED BY <2>1, <2>3, <2>4, <2>5, MovesTo
<1> QED BY <1>2, <1>3

\* The clock stops for no attempt, and passes none that has not ended.
LEMMA TimeKeepsFetchInv ==
  ASSUME FetchInv, TimePasses
  PROVE  FetchInv'
<1>1. /\ UNCHANGED <<fetches, activeFetches, cooldownUntil>>
      /\ instant' = instant + 1 /\ instant < LastInstant
      /\ \A r \in Fetches : ~Due(r)
  BY DEF TimePasses
<1>2. InProgress' = InProgress BY <1>1 DEF InProgress
<1>3. Typed' BY <1>1, Numbers DEF FetchInv, Typed
<1>4. DeadlineIsKept'
  <2> SUFFICES ASSUME NEW r \in InProgress
               PROVE  /\ instant + 1 <= fetches[r].attemptEnd
                      /\ fetches[r].attemptEnd <= fetches[r].deadline
    BY <1>1, <1>2 DEF DeadlineIsKept
  <2>1. fetches[r] \in FetchRecord /\ r \in Fetches BY DEF FetchInv, Typed, InProgress
  <2>2. ~(instant >= fetches[r].attemptEnd) BY <1>1, <2>1 DEF Due, InProgress
  <2>3. instant \in Nat /\ fetches[r].attemptEnd \in Nat
    BY <2>1, Numbers DEF FetchInv, Typed, FetchRecord
  <2> QED BY <2>2, <2>3 DEF FetchInv, DeadlineIsKept
<1>5. ReservesAreLeft'
  BY <1>1, <1>2 DEF FetchInv, ReservesAreLeft, ReservesFit, After, Gateways
<1>6. (activeFetches = Cardinality(InProgress) /\ activeFetches <= MaxFetches)'
  BY <1>1, <1>2 DEF FetchInv
<1> QED BY <1>3, <1>4, <1>5, <1>6 DEF FetchInv

\* Every step of the proxy keeps the invariant of the fetches.
LEMMA FetchInvKept == FetchInv /\ [IpfsNext]_ipfsVars => FetchInv'
<1> SUFFICES ASSUME FetchInv, [IpfsNext]_ipfsVars PROVE FetchInv' OBVIOUS
<1>1. CASE TimePasses BY <1>1, TimeKeepsFetchInv
<1>2. ASSUME NEW r \in Fetches, NEW x, Moves(r, x) PROVE FetchInv'
  <2>1. (activeFetches = Cardinality(InProgress) /\ activeFetches <= MaxFetches)'
        /\ activeFetches' \in Nat
    BY <1>2, CountKept DEF FetchInv
  <2>2. Typed' BY <1>2, <2>1, TypedKept DEF FetchInv
  <2>3. DeadlineIsKept' BY <1>2, DeadlineKept DEF FetchInv
  <2>4. ReservesAreLeft' BY <1>2, ReservesKept DEF FetchInv
  <2> QED BY <2>1, <2>2, <2>3, <2>4 DEF FetchInv
<1>3. CASE UNCHANGED ipfsVars
  <2>1. InProgress' = InProgress BY <1>3 DEF ipfsVars, InProgress
  <2> QED BY <1>3, <2>1
          DEF ipfsVars, FetchInv, Typed, DeadlineIsKept, ReservesAreLeft, ReservesFit, After, Gateways
<1>4. Typed BY DEF FetchInv
<1> QED BY <1>1, <1>2, <1>3, <1>4, Steps

\* Every reachable state satisfies the invariant of the fetches.
LEMMA FetchesCorrect == IpfsSpec => []FetchInv
BY FetchInvInit, FetchInvKept, PTL DEF IpfsSpec

\* No request outlives its deadline.
THEOREM DeadlineIsKeptHolds == IpfsSpec => []DeadlineIsKept
<1>1. FetchInv => DeadlineIsKept BY DEF FetchInv
<1> QED BY <1>1, FetchesCorrect, PTL

-----------------------------------------------------------------------------
(* What a step may do *)

\* A step that begins an attempt of t is a move of t to it.
LEMMA BeginsMove ==
  ASSUME Typed, [IpfsNext]_ipfsVars, NEW t \in Fetches, Begins(t)
  PROVE  \E x : /\ Moves(t, x) /\ fetches'[t] = x /\ x # Nothing
                /\ \/ \E cid \in Cids : Begun(x, NewFetch(cid), 1) /\ fetches[t] = Nothing
                   \/ In(t, "fetching") /\ Begun(x, fetches[t], fetches[t].gateway + 1)
<1>1. fetches'[t] # fetches[t] /\ fetches'[t] # Nothing BY DEF Begins
<1>2. \E r \in Fetches : \E x : Moves(r, x)
  <2>1. ~(UNCHANGED ipfsVars) /\ ~TimePasses BY <1>1 DEF ipfsVars, TimePasses
  <2> QED BY <2>1, Steps
<1>3. PICK r \in Fetches : \E x : Moves(r, x) BY <1>2
<1>4. PICK x : Moves(r, x) BY <1>3
<1>5. r = t /\ fetches'[t] = x /\ x # Nothing BY <1>1, <1>4 DEF Moves, Typed
<1>6. ~(In(r, "fetching")
        /\ x = [fetches[r] EXCEPT !.phase = "streaming", !.attemptEnd = fetches[r].deadline])
  <2> SUFFICES ASSUME In(r, "fetching"),
                      x = [fetches[r] EXCEPT !.phase = "streaming",
                                             !.attemptEnd = fetches[r].deadline]
               PROVE  FALSE
    OBVIOUS
  <2>1. fetches[r] \in FetchRecord BY DEF In, Typed
  <2>2. x.gateway = fetches[r].gateway BY <2>1 DEF FetchRecord
  <2> QED BY <1>5, <2>2 DEF Begins, In
<1> QED BY <1>4, <1>5, <1>6, MovesTo

\* Cooldowns only grow, and no attempt begins at a gateway that is cooling.
THEOREM CooldownsAreKeptHolds == IpfsSpec => CooldownsAreKept
<1>1. ASSUME FetchInv, [IpfsNext]_ipfsVars
      PROVE  /\ \A g \in Gateways : cooldownUntil'[g] >= cooldownUntil[g]
             /\ \A t \in Fetches : Begins(t) => cooldownUntil'[fetches'[t].gateway] <= instant
  <2>1. Typed BY <1>1 DEF FetchInv
  <2>2. \A g \in Gateways : cooldownUntil'[g] >= cooldownUntil[g]
    <3>1. CASE UNCHANGED cooldownUntil BY <2>1, <3>1, CooldownsStay
    <3>2. CASE \E r \in Fetches : \E x : Moves(r, x) BY <3>2 DEF Moves
    <3> QED BY <1>1, <2>1, <3>1, <3>2, Steps DEF TimePasses, ipfsVars
  <2>3. ASSUME NEW t \in Fetches, Begins(t) PROVE cooldownUntil'[fetches'[t].gateway] <= instant
    <3>1. PICK x : /\ Moves(t, x) /\ fetches'[t] = x
                   /\ \/ \E cid \in Cids : Begun(x, NewFetch(cid), 1) /\ fetches[t] = Nothing
                      \/ In(t, "fetching") /\ Begun(x, fetches[t], fetches[t].gateway + 1)
      BY <1>1, <2>1, <2>3, BeginsMove
    <3>2. CASE \E cid \in Cids : Begun(x, NewFetch(cid), 1) /\ fetches[t] = Nothing
      <4>1. cooldownUntil[x.gateway] <= instant /\ x.gateway \in Gateways
        BY <3>2 DEF Begun, EligibleFrom
      <4> QED BY <3>1, <3>2, <4>1 DEF Moves
    <3>3. CASE In(t, "fetching") /\ Begun(x, fetches[t], fetches[t].gateway + 1)
      <4>1. /\ cooldownUntil[x.gateway] <= instant /\ x.gateway \in Gateways
            /\ x.gateway >= fetches[t].gateway + 1
        BY <3>3 DEF Begun, EligibleFrom
      <4>2. fetches[t].gateway \in Gateways BY <2>1, <3>3 DEF In, Typed, FetchRecord
      <4>3. x.gateway # fetches[t].gateway BY <4>1, <4>2, Numbers DEF Gateways
      <4> QED BY <3>1, <4>1, <4>3 DEF Moves
    <3> QED BY <3>1, <3>2, <3>3
  <2> QED BY <2>2, <2>3
<1>2. FetchInv /\ [IpfsNext]_ipfsVars
      => /\ \A g \in Gateways : cooldownUntil'[g] >= cooldownUntil[g]
         /\ \A r \in Fetches : Begins(r) => cooldownUntil'[fetches'[r].gateway] <= instant
  BY <1>1
<1> QED BY <1>2, FetchesCorrect, PTL DEF IpfsSpec, CooldownsAreKept

\* An attempt leaves the reserves that were set aside for the gateways after it.
THEOREM FallbackKeepsReserveHolds == IpfsSpec => FallbackKeepsReserve
<1>1. ASSUME FetchInv, FetchInv', [IpfsNext]_ipfsVars, NEW t \in Fetches, ReservesFit, Begins(t),
             {fetches'[t].gateway} \cup EligibleFrom(fetches'[t].gateway + 1)
               \subseteq fetches'[t].counted
      PROVE  fetches'[t].attemptEnd
               + Cardinality(EligibleFrom(fetches'[t].gateway + 1)) * FallbackReserve
               <= fetches'[t].deadline
  <2> DEFINE q == fetches'[t]
  <2> DEFINE S == q.counted \cap After(q.gateway)
  <2> DEFINE L == EligibleFrom(q.gateway + 1)
  <2>1. PICK x : q = x /\ x # Nothing /\ x.phase = "fetching"
    BY <1>1, BeginsMove DEF FetchInv, Begun
  <2>2. q \in FetchRecord BY <1>1, <2>1 DEF FetchInv, Typed
  <2>3. q.attemptEnd + Cardinality(S) * FallbackReserve <= q.deadline
    <3>1. q # Nothing /\ q.phase = "fetching" BY <2>1
    <3>2. t \in InProgress' BY <3>1 DEF InProgress
    <3>3. ReservesAreLeft' BY <1>1 DEF FetchInv
    <3> QED BY <1>1, <3>1, <3>2, <3>3 DEF ReservesAreLeft, ReservesFit, After, Gateways
  <2>4. q.gateway \in Gateways /\ q.counted \in SUBSET Gateways
        /\ q.attemptEnd \in Nat /\ q.deadline \in Nat
    BY <2>2 DEF FetchRecord
  <2>5. L \subseteq S
    BY <1>1, <2>4, Numbers DEF EligibleFrom, After, Gateways
  <2>6. L \in SUBSET Gateways /\ S \in SUBSET Gateways BY <2>4 DEF EligibleFrom
  <2> HIDE DEF L, S, q
  <2>7. /\ IsFiniteSet(S) /\ Cardinality(L) \in Nat /\ Cardinality(S) \in Nat
    BY <2>6, FiniteGateways
  <2>8. Cardinality(L) <= Cardinality(S) BY <2>5, <2>7, FS_Subset
  <2>9. /\ Cardinality(L) * FallbackReserve <= Cardinality(S) * FallbackReserve
        /\ Cardinality(L) * FallbackReserve \in Nat /\ Cardinality(S) * FallbackReserve \in Nat
    BY <2>7, <2>8, Reserves
  <2>10. q.attemptEnd + Cardinality(L) * FallbackReserve <= q.deadline BY <2>3, <2>4, <2>9
  <2> QED BY <2>10 DEF L, q
<1>2. FetchInv /\ FetchInv' /\ [IpfsNext]_ipfsVars
      => \A r \in Fetches :
           LET q == fetches'[r]
               later == EligibleFrom(q.gateway + 1)
           IN  ReservesFit /\ Begins(r) /\ {q.gateway} \cup later \subseteq q.counted
                 => q.attemptEnd + Cardinality(later) * FallbackReserve <= q.deadline
  BY <1>1
<1> QED BY <1>2, FetchesCorrect, PTL DEF IpfsSpec, FallbackKeepsReserve

\* A response that has begun stays with its gateway.
THEOREM OneSourcePerResponseHolds == IpfsSpec => OneSourcePerResponse
<1>1. ASSUME FetchInv, [IpfsNext]_ipfsVars, NEW t \in Fetches, In(t, "streaming")
      PROVE  fetches'[t] \in {fetches[t], Nothing}
  <2>1. Typed BY <1>1 DEF FetchInv
  <2>2. CASE fetches' = fetches BY <2>2
  <2>3. ASSUME NEW r \in Fetches, NEW x, Moves(r, x) PROVE fetches'[t] \in {fetches[t], Nothing}
    <3>1. CASE r # t BY <2>1, <2>3, <3>1 DEF Moves, Typed
    <3>2. CASE r = t
      <4>1. x = Nothing BY <1>1, <2>3, <3>2 DEF Moves, In
      <4> QED BY <2>1, <2>3, <3>2, <4>1 DEF Moves, Typed
    <3> QED BY <3>1, <3>2
  <2> QED BY <1>1, <2>1, <2>2, <2>3, Steps DEF TimePasses, ipfsVars
<1>2. FetchInv /\ [IpfsNext]_ipfsVars
      => \A r \in Fetches : In(r, "streaming") => fetches'[r] \in {fetches[r], Nothing}
  BY <1>1
<1> QED BY <1>2, FetchesCorrect, PTL DEF IpfsSpec, OneSourcePerResponse

-----------------------------------------------------------------------------
(* The window of failing contents *)

\* The failures recorded at a gateway and the history agree: an instant recorded for a
\* content is its last failure, if still inside the window.
WindowInv ==
  /\ serverErrorCids \in [Gateways -> [Cids -> Nat \cup {Nothing}]]
  /\ failing \in [Gateways -> SUBSET [content : Cids, at : Nat]]
  /\ \A g \in Gateways, k \in Cids :
       /\ \A f \in failing[g] :
            f.content = k => serverErrorCids[g][k] # Nothing /\ f.at <= serverErrorCids[g][k]
       /\ serverErrorCids[g][k] # Nothing /\ instant - serverErrorCids[g][k] < ServerErrorWindow
            => \E f \in failing[g] : f.content = k /\ f.at = serverErrorCids[g][k]
  /\ \A g \in Gateways : \A f \in failing[g] :
       instant - f.at < ServerErrorWindow /\ f.at <= instant
  /\ \A g \in Gateways : Cardinality(FailingContents(failing[g])) < ServerErrorMinCids

\* The contents recorded at g inside the window.
Recent(g) == {k \in Cids : /\ serverErrorCids[g][k] # Nothing
                          /\ instant - serverErrorCids[g][k] < ServerErrorWindow}

\* What the failure window keeps is what failed within its length.
LEMMA RecentIsFailing ==
  ASSUME Typed, WindowInv, NEW g \in Gateways
  PROVE  Recent(g) = FailingContents(failing[g])
<1>1. instant \in Nat /\ failing[g] \in SUBSET [content : Cids, at : Nat]
      /\ serverErrorCids[g] \in [Cids -> Nat \cup {Nothing}]
  BY Numbers DEF Typed, WindowInv
<1>2. ASSUME NEW k \in Recent(g) PROVE k \in FailingContents(failing[g])
  <2>1. k \in Cids /\ \E f \in failing[g] : f.content = k /\ f.at = serverErrorCids[g][k]
    BY <1>2 DEF Recent, WindowInv
  <2> QED BY <1>2, <2>1 DEF Recent, FailingContents
<1>3. ASSUME NEW k \in FailingContents(failing[g]) PROVE k \in Recent(g)
  <2>1. PICK f \in failing[g] : f.content = k /\ instant - f.at < ServerErrorWindow
    BY <1>3 DEF FailingContents
  <2>2. k \in Cids /\ f.at \in Nat BY <1>1, <2>1
  <2>3. serverErrorCids[g][k] # Nothing /\ f.at <= serverErrorCids[g][k] BY <2>1, <2>2 DEF WindowInv
  <2>4. serverErrorCids[g][k] \in Nat BY <1>1, <2>2, <2>3
  <2>5. instant - serverErrorCids[g][k] < ServerErrorWindow BY <1>1, <2>1, <2>2, <2>3, <2>4, Numbers
  <2> QED BY <2>2, <2>3, <2>5 DEF Recent
<1> QED BY <1>2, <1>3

\* With no failure recorded the invariant of the windows holds.
LEMMA WindowInvInit == IpfsInit => WindowInv
<1> SUFFICES ASSUME IpfsInit PROVE WindowInv OBVIOUS
<1>1. \A g \in Gateways : FailingContents(failing[g]) = {} BY DEF IpfsInit, FailingContents
<1>2. \A g \in Gateways : Cardinality(FailingContents(failing[g])) = 0 BY <1>1, FS_EmptySet
<1> QED BY <1>2, Numbers DEF IpfsInit, WindowInv

\* An error counts a content in the record exactly as in the history.
LEMMA ErrorCounted ==
  ASSUME Typed, WindowInv, NEW r \in Fetches, BadGateway(r)
  PROVE  WindowInv'
<1> DEFINE g == fetches[r].gateway
<1> DEFINE key == Content[fetches[r].cid]
<1> DEFINE observed == Observed(g, key)
<1> DEFINE failures == failing[g] \cup {[content |-> key, at |-> instant]}
<1> DEFINE cool == Cardinality(Known(observed)) >= ServerErrorMinCids
<1> DEFINE spent == Cardinality(FailingContents(failures)) >= ServerErrorMinCids
<1>1. fetches[r] \in FetchRecord BY DEF BadGateway, In, Typed
<1>2. g \in Gateways /\ key \in Cids BY <1>1, IpfsAssumption DEF FetchRecord
<1>3. /\ serverErrorCids' = [serverErrorCids EXCEPT ![g] =
                              IF cool THEN [k \in Cids |-> Nothing] ELSE observed]
      /\ failing' = [failing EXCEPT ![g] = IF spent THEN {} ELSE failures]
      /\ instant' = instant
  BY DEF BadGateway, Key
<1>4. instant \in Nat BY Numbers DEF Typed
<1>5. observed \in [Cids -> Nat \cup {Nothing}]
  BY <1>2, <1>4 DEF Observed, WindowInv
<1>6. failures \in SUBSET [content : Cids, at : Nat] BY <1>2, <1>4 DEF WindowInv
<1>7. \A k \in Cids : observed[k] = IF k = key THEN instant
                                    ELSE IF k \in Recent(g) THEN serverErrorCids[g][k] ELSE Nothing
  BY DEF Observed, Recent
<1>8. Known(observed) = Recent(g) \cup {key}
  <2>1. instant # Nothing BY <1>4, IpfsAssumption
  <2>2. \A k \in Cids : k \in Recent(g) => serverErrorCids[g][k] # Nothing BY DEF Recent
  <2>3. Recent(g) \subseteq Cids BY DEF Recent
  <2> HIDE DEF observed, g, key
  <2> QED BY <1>2, <1>7, <2>1, <2>2, <2>3 DEF Known
<1>9. FailingContents(failures) = FailingContents(failing[g]) \cup {key}
  <2> DEFINE new == [content |-> key, at |-> instant]
  <2>1. instant - instant < ServerErrorWindow BY <1>4, IpfsAssumption
  <2>2. new.content = key /\ new.at = instant OBVIOUS
  <2>3. failures = failing[g] \cup {new} OBVIOUS
  <2> HIDE DEF new, failures, g, key
  <2>4. \A f \in failures : f \in failing[g] \/ f = new BY <2>3
  <2>5. FailingContents(failures) \subseteq FailingContents(failing[g]) \cup {key}
    BY <2>2, <2>4 DEF FailingContents
  <2>6. FailingContents(failing[g]) \subseteq FailingContents(failures)
    BY <2>3 DEF FailingContents
  <2>7. new \in {f \in failures : instant - f.at < ServerErrorWindow} BY <2>1, <2>2, <2>3
  <2>8. key \in FailingContents(failures) BY <2>2, <2>7 DEF FailingContents
  <2> QED BY <2>5, <2>6, <2>8
<1>10. Recent(g) = FailingContents(failing[g]) BY <1>2, RecentIsFailing
<1>11. cool <=> spent BY <1>8, <1>9, <1>10
<1>12. \A h \in Gateways \ {g} : serverErrorCids'[h] = serverErrorCids[h] /\ failing'[h] = failing[h]
  BY <1>3 DEF WindowInv
<1>13. serverErrorCids'[g] = (IF cool THEN [k \in Cids |-> Nothing] ELSE observed)
       /\ failing'[g] = (IF spent THEN {} ELSE failures)
  BY <1>2, <1>3 DEF WindowInv
<1> HIDE DEF g, key, observed, failures, cool, spent
<1>14. serverErrorCids' \in [Gateways -> [Cids -> Nat \cup {Nothing}]]
  BY <1>2, <1>3, <1>5 DEF WindowInv
<1>15. failing' \in [Gateways -> SUBSET [content : Cids, at : Nat]]
  BY <1>2, <1>3, <1>6 DEF WindowInv
<1>16. ASSUME NEW k \in Cids, NEW f \in failing'[g], f.content = k
       PROVE  serverErrorCids'[g][k] # Nothing /\ f.at <= serverErrorCids'[g][k]
  <2>1. ~spent /\ ~cool /\ f \in failures BY <1>11, <1>13, <1>16
  <2>2. CASE f = [content |-> key, at |-> instant]
    <3>1. k = key /\ f.at = instant BY <1>16, <2>2
    <3> QED BY <1>4, <1>7, <1>13, <2>1, <3>1, IpfsAssumption
  <2>3. CASE f \in failing[g]
    <3>1. /\ serverErrorCids[g][k] # Nothing /\ f.at <= serverErrorCids[g][k]
          /\ instant - f.at < ServerErrorWindow
      BY <1>2, <1>16, <2>3 DEF WindowInv
    <3>2. f.at \in Nat /\ serverErrorCids[g][k] \in Nat
      BY <1>2, <2>3, <3>1 DEF WindowInv
    <3>3. k \in Recent(g) BY <1>4, <3>1, <3>2, Numbers DEF Recent
    <3>4. f.at <= instant BY <1>2, <2>3 DEF WindowInv
    <3> QED BY <1>4, <1>7, <1>13, <2>1, <3>1, <3>2, <3>3, <3>4, IpfsAssumption
  <2> QED BY <2>1, <2>2, <2>3 DEF failures
<1>17. ASSUME NEW k \in Cids, serverErrorCids'[g][k] # Nothing
       PROVE  \E f \in failing'[g] : f.content = k /\ f.at = serverErrorCids'[g][k]
  <2>1. ~cool /\ serverErrorCids'[g] = observed BY <1>13, <1>17
  <2>2. failing'[g] = failures BY <1>11, <1>13, <2>1
  <2>3. CASE k = key
    <3>1. serverErrorCids'[g][k] = instant BY <1>7, <2>1, <2>3
    <3>2. [content |-> key, at |-> instant] \in failures BY DEF failures
    <3> QED BY <2>2, <2>3, <3>1, <3>2
  <2>4. CASE k # key
    <3>1. k \in Recent(g) /\ serverErrorCids'[g][k] = serverErrorCids[g][k]
      BY <1>7, <1>17, <2>1, <2>4
    <3>2. PICK f \in failing[g] : f.content = k /\ f.at = serverErrorCids[g][k]
      BY <1>2, <3>1 DEF Recent, WindowInv
    <3>3. f \in failures BY DEF failures
    <3> QED BY <2>2, <3>1, <3>2, <3>3
  <2> QED BY <2>3, <2>4
<1>18. \A f \in failing'[g] : instant' - f.at < ServerErrorWindow /\ f.at <= instant'
  <2>1. \A f \in failing[g] : instant - f.at < ServerErrorWindow /\ f.at <= instant
    BY <1>2 DEF WindowInv
  <2>2. instant - instant < ServerErrorWindow /\ instant <= instant BY <1>4, IpfsAssumption
  <2>3. failing'[g] \subseteq failures BY <1>13
  <2>4. ASSUME NEW f \in failures PROVE instant - f.at < ServerErrorWindow /\ f.at <= instant
    <3>1. CASE f \in failing[g] BY <2>1, <3>1
    <3>2. CASE f = [content |-> key, at |-> instant]
      <4>1. f.at = instant BY <3>2
      <4> QED BY <2>2, <4>1
    <3> QED BY <3>1, <3>2 DEF failures
  <2> QED BY <1>3, <2>3, <2>4
<1>19. \A h \in Gateways : Cardinality(FailingContents(failing[h])') < ServerErrorMinCids
  <2> SUFFICES ASSUME NEW h \in Gateways
               PROVE  Cardinality(FailingContents(failing'[h])) < ServerErrorMinCids
    BY <1>3 DEF FailingContents
  <2>1. CASE h # g BY <1>12, <2>1 DEF WindowInv
  <2>2. CASE h = g /\ spent
    <3>1. FailingContents(failing'[h]) = {} BY <1>13, <2>2 DEF FailingContents
    <3>2. Cardinality(FailingContents(failing'[h])) = 0 BY <3>1, FS_EmptySet
    <3> QED BY <3>2, Numbers
  <2>3. CASE h = g /\ ~spent
    <3>1. failing'[h] = failures BY <1>13, <2>3
    <3>2. FailingContents(failures) \subseteq Cids BY <1>6 DEF FailingContents
    <3>3. Cardinality(FailingContents(failures)) \in Nat
      BY <3>2, IpfsAssumption, FS_Subset, FS_CardinalityType
    <3> QED BY <2>3, <3>1, <3>3, Numbers DEF spent
  <2> QED BY <2>1, <2>2, <2>3
<1>20. \A h \in Gateways, k \in Cids :
         /\ \A f \in failing'[h] :
              f.content = k => /\ serverErrorCids'[h][k] # Nothing
                               /\ f.at <= serverErrorCids'[h][k] 
         /\ serverErrorCids'[h][k] # Nothing /\ instant' - serverErrorCids'[h][k] < ServerErrorWindow
              => \E f \in failing'[h] : f.content = k /\ f.at = serverErrorCids'[h][k]
  BY <1>3, <1>12, <1>16, <1>17 DEF WindowInv
<1>21. \A h \in Gateways : \A f \in failing'[h] :
         instant' - f.at < ServerErrorWindow /\ f.at <= instant'
  BY <1>3, <1>12, <1>18 DEF WindowInv
<1> QED BY <1>14, <1>15, <1>19, <1>20, <1>21 DEF WindowInv

\* Time passing takes failures out of a window and puts none into it.
LEMMA TimeKeepsWindow ==
  ASSUME Typed, WindowInv, TimePasses
  PROVE  WindowInv'
<1>1. /\ serverErrorCids' = serverErrorCids /\ instant' = instant + 1
      /\ failing' = [g \in Gateways |-> {f \in failing[g] : (instant + 1) - f.at < ServerErrorWindow}]
  BY DEF TimePasses
<1>2. instant \in Nat BY Numbers DEF Typed
<1>3. ASSUME NEW g \in Gateways
      PROVE  /\ failing'[g] = {f \in failing[g] : (instant + 1) - f.at < ServerErrorWindow}
             /\ failing'[g] \subseteq failing[g]
             /\ \A f \in failing'[g] : instant' - f.at < ServerErrorWindow
  <2>1. failing'[g] = {f \in failing[g] : (instant + 1) - f.at < ServerErrorWindow} BY <1>1
  <2>2. ASSUME NEW f \in failing'[g] PROVE f \in failing[g] /\ instant' - f.at < ServerErrorWindow
    <3>1. f \in failing[g] /\ (instant + 1) - f.at < ServerErrorWindow BY <2>1, <2>2
    <3>2. instant' = instant + 1 BY <1>1
    <3> QED BY <3>1, <3>2
  <2> QED BY <2>1, <2>2
<1>4. failing' \in [Gateways -> SUBSET [content : Cids, at : Nat]] BY <1>1 DEF WindowInv
<1>5. ASSUME NEW g \in Gateways, NEW k \in Cids, serverErrorCids[g][k] # Nothing,
             instant' - serverErrorCids[g][k] < ServerErrorWindow
      PROVE  \E f \in failing'[g] : f.content = k /\ f.at = serverErrorCids[g][k]
  <2>1. serverErrorCids[g][k] \in Nat BY <1>5 DEF WindowInv
  <2>2. instant - serverErrorCids[g][k] < ServerErrorWindow BY <1>1, <1>2, <1>5, <2>1, Numbers
  <2>3. PICK f \in failing[g] : f.content = k /\ f.at = serverErrorCids[g][k]
    BY <1>5, <2>2 DEF WindowInv
  <2>4. (instant + 1) - f.at < ServerErrorWindow
    <3>1. instant' = instant + 1 BY <1>1
    <3>2. instant' - f.at < ServerErrorWindow BY <1>5, <2>3
    <3> QED BY <3>1, <3>2
  <2>5. f \in failing'[g] BY <1>3, <2>3, <2>4
  <2> QED BY <2>3, <2>5
<1>6. ASSUME NEW g \in Gateways
      PROVE  Cardinality(FailingContents(failing[g])') < ServerErrorMinCids
  <2>1. FailingContents(failing[g])' \subseteq FailingContents(failing[g])
    <3>1. \A f \in failing[g] : instant - f.at < ServerErrorWindow BY DEF WindowInv
    <3> QED BY <1>3, <3>1 DEF FailingContents
  <2>2. FailingContents(failing[g]) \subseteq Cids
    <3>1. failing[g] \in SUBSET [content : Cids, at : Nat] BY DEF WindowInv
    <3> QED BY <3>1 DEF FailingContents
  <2>3. IsFiniteSet(FailingContents(failing[g])) BY <2>2, IpfsAssumption, FS_Subset
  <2>4. /\ Cardinality(FailingContents(failing[g])') <= Cardinality(FailingContents(failing[g]))
        /\ IsFiniteSet(FailingContents(failing[g])')
    BY <2>1, <2>3, FS_Subset
  <2>5. /\ Cardinality(FailingContents(failing[g])') \in Nat
        /\ Cardinality(FailingContents(failing[g])) \in Nat
    BY <2>3, <2>4, FS_CardinalityType
  <2>6. Cardinality(FailingContents(failing[g])) < ServerErrorMinCids BY DEF WindowInv
  <2> QED BY <2>4, <2>5, <2>6, Numbers
<1>7. \A g \in Gateways : \A f \in failing'[g] : f.at <= instant'
  <2>1. \A g \in Gateways : \A f \in failing[g] : f.at <= instant /\ f.at \in Nat
    BY DEF WindowInv
  <2> QED BY <1>1, <1>2, <1>3, <2>1
<1>8. serverErrorCids' \in [Gateways -> [Cids -> Nat \cup {Nothing}]] BY <1>1 DEF WindowInv
<1>9. \A g \in Gateways, k \in Cids : \A f \in failing'[g] :
        f.content = k => serverErrorCids'[g][k] # Nothing /\ f.at <= serverErrorCids'[g][k]
  BY <1>1, <1>3 DEF WindowInv
<1>10. \A g \in Gateways, k \in Cids :
         serverErrorCids'[g][k] # Nothing /\ instant' - serverErrorCids'[g][k] < ServerErrorWindow
           => \E f \in failing'[g] : f.content = k /\ f.at = serverErrorCids'[g][k]
  BY <1>1, <1>5
<1>11. \A g \in Gateways : \A f \in failing'[g] :
         instant' - f.at < ServerErrorWindow /\ f.at <= instant'
  BY <1>3, <1>7
<1> QED BY <1>4, <1>6, <1>8, <1>9, <1>10, <1>11 DEF WindowInv

\* Every step of the proxy keeps the invariant of the windows.
LEMMA WindowInvKept == Typed /\ WindowInv /\ [IpfsNext]_ipfsVars => WindowInv'
<1> SUFFICES ASSUME Typed, WindowInv, [IpfsNext]_ipfsVars PROVE WindowInv' OBVIOUS
<1>1. CASE UNCHANGED <<serverErrorCids, instant, failing>>
  BY <1>1 DEF WindowInv, FailingContents
<1>2. CASE TimePasses BY <1>2, TimeKeepsWindow
<1>3. ASSUME NEW r \in Fetches, BadGateway(r) PROVE WindowInv' BY <1>3, ErrorCounted
<1>4. ASSUME NEW r \in Fetches, NEW cid \in Cids, StartFetch(r, cid)
      PROVE  UNCHANGED <<serverErrorCids, instant, failing>>
  BY <1>4 DEF StartFetch
<1>5. ASSUME NEW r \in Fetches, RateLimited(r)
      PROVE  UNCHANGED <<serverErrorCids, instant, failing>>
  BY <1>5 DEF RateLimited
<1> QED BY <1>1, <1>2, <1>3, <1>4, <1>5 DEF IpfsNext, ipfsVars

\* Every reachable state satisfies both invariants.
LEMMA IpfsCorrect == IpfsSpec => [](FetchInv /\ WindowInv)
<1>1. IpfsInit => FetchInv /\ WindowInv BY FetchInvInit, WindowInvInit
<1>2. FetchInv /\ WindowInv /\ [IpfsNext]_ipfsVars => FetchInv' /\ WindowInv'
  BY FetchInvKept, WindowInvKept DEF FetchInv
<1> QED BY <1>1, <1>2, PTL DEF IpfsSpec

\* Every variable keeps its type, and the slots count the requests in progress.
THEOREM IpfsTyped == IpfsSpec => []IpfsTypeOK
<1>1. FetchInv /\ WindowInv => IpfsTypeOK BY DEF FetchInv, WindowInv, Typed, IpfsTypeOK
<1> QED BY <1>1, IpfsCorrect, PTL

\* The contents an error is counted with are those that failed inside the window.
THEOREM ErrorWindowIsExactHolds == IpfsSpec => []ErrorWindowIsExact
<1>1. FetchInv /\ WindowInv => ErrorWindowIsExact
  BY RecentIsFailing DEF FetchInv, WindowInv, ErrorWindowIsExact, Recent
<1> QED BY <1>1, IpfsCorrect, PTL

-----------------------------------------------------------------------------
(* The configuration of the networks *)

ConfigTyped ==
  /\ endpointLists \in [Networks -> SUBSET Urls]
  /\ identities \in [Networks -> Identity \cup {Unset}]
  /\ historyOrigins \in [Networks -> Origins \cup {Unset}]
  /\ mainnetProblem \in BOOLEAN

\* What the separation leaves behind: the endpoints it lets mainnet keep are
\* apart, and it remembers a problem of the pins that has no endpoints to clear.
Separated ==
  /\ endpointLists["mainnet"] # {} => ~mainnetProblem /\ identities["mainnet"] # Unset
  /\ ~SharedUpstream
  /\ SamePins => mainnetProblem

\* stage is the only thing that tells the history step that the separation has
\* been made, so the invariant keeps what it established.
ConfigInv ==
  /\ ConfigTyped
  /\ stage = "history" => Separated
  /\ MainnetStaysApart

\* The stages at which the separation is still to come.
Reading(n) == n \notin {"history", "running"}

\* Before anything is read the invariant holds.
LEMMA InitConfigInv == ConfigInit => ConfigInv
<1> SUFFICES ASSUME ConfigInit PROVE ConfigInv
  OBVIOUS
<1>1. stage = "endpoints" /\ ConfigTyped
  BY DEF ConfigInit, ConfigTyped
<1> QED BY <1>1 DEF ConfigInv, MainnetStaysApart

\* A list that is read is a set of URLs.
LEMMA ListsAreUrls ==
  ASSUME ConfigAssumption, NEW n \in Networks,
         NEW list \in ListVariable(n), NEW single \in SingleVariable(n)
  PROVE  TestnetEndpoints(list, single) \in SUBSET Urls /\ DormantEndpoints(list, single) \in SUBSET Urls
<1>1. UrlsFor[n] \subseteq Urls /\ {LocalNode} \subseteq Urls
  BY DEF ConfigAssumption
<1>2. list # Unset => list \in SUBSET Urls
  BY <1>1 DEF ListVariable
<1>3. single # Unset => single \in SUBSET Urls
  <2>1. Blank \in Urls BY DEF ConfigAssumption
  <2>2. CASE n = "testnet" BY <1>1, <2>1, <2>2 DEF SingleVariable
  <2>3. CASE n # "testnet" BY <1>1, <2>3 DEF SingleVariable, ListVariable
  <2> QED BY <2>2, <2>3
<1>4. TestnetEndpoints(list, single) \in SUBSET Urls
  <2>1. CASE list \notin {Unset, {}}
    BY <1>2, <2>1 DEF TestnetEndpoints
  <2>2. CASE list \in {Unset, {}} /\ single \notin {Unset, {}}
    BY <1>3, <2>2 DEF TestnetEndpoints
  <2>3. CASE list \in {Unset, {}} /\ single \in {Unset, {}}
    <3>1. TestnetEndpoints(list, single) = {LocalNode}
      BY <2>3 DEF TestnetEndpoints
    <3> QED BY <1>1, <3>1
  <2> QED BY <2>1, <2>2, <2>3
<1>5. DormantEndpoints(list, single) \in SUBSET Urls
  <2>1. CASE list # Unset
    BY <1>2, <2>1 DEF DormantEndpoints
  <2>2. CASE list = Unset /\ single # Unset
    BY <1>3, <2>2 DEF DormantEndpoints
  <2>3. CASE list = Unset /\ single = Unset
    BY <2>3 DEF DormantEndpoints
  <2> QED BY <2>1, <2>2, <2>3
<1> QED BY <1>4, <1>5

\* A step that reads the environment.
LEMMA ReadingKeepsInv ==
  ASSUME ConfigAssumption, ConfigInv, NEW n \in Networks, NEW next, Reading(next),
         ReadEndpoints(n, next) \/ ReadIdentity(n, next) \/ ReadOrigin(n, next)
  PROVE  ConfigInv'
<1>1. ConfigTyped
  BY DEF ConfigInv
<1>2. CASE ReadEndpoints(n, next)
  <2>1. PICK list \in ListVariable(n), single \in SingleVariable(n) :
          endpointLists' = [endpointLists EXCEPT ![n] =
            IF n = "testnet" THEN TestnetEndpoints(list, single) ELSE DormantEndpoints(list, single)]
    BY <1>2 DEF ReadEndpoints
  <2>2. endpointLists' \in [Networks -> SUBSET Urls]
    BY <1>1, <2>1, ListsAreUrls DEF ConfigTyped
  <2>3. stage' = next /\ UNCHANGED <<identities, historyOrigins, mainnetProblem>>
    BY <1>2 DEF ReadEndpoints
  <2>4. ConfigTyped'
    BY <1>1, <2>2, <2>3 DEF ConfigTyped
  <2> QED BY <2>3, <2>4 DEF ConfigInv, MainnetStaysApart, Reading
<1>3. ASSUME StopStartup
      PROVE  ConfigInv'
  <2>1. stage' = "stopped" /\ ConfigTyped'
    BY <1>1, <1>3 DEF StopStartup, ConfigTyped
  <2> QED BY <2>1 DEF ConfigInv, MainnetStaysApart
<1>4. CASE ReadIdentity(n, next)
  <2>1. PICK chainId \in ChainIds \cup {Unset, Malformed}, genesisHash \in GenesisHashes \cup {Unset, Malformed} :
          \/ StopStartup
          \/ /\ ~IdentityRefused(chainId, genesisHash)
             /\ identities' = [identities EXCEPT ![n] =
                  IF chainId = Unset THEN Unset
                  ELSE [chainId |-> chainId, genesisHash |-> genesisHash]]
             /\ stage' = next
             /\ UNCHANGED <<endpointLists, historyOrigins, mainnetProblem>>
    BY <1>4 DEF ReadIdentity
  <2>2. CASE ~IdentityRefused(chainId, genesisHash)
             /\ identities' = [identities EXCEPT ![n] =
                  IF chainId = Unset THEN Unset
                  ELSE [chainId |-> chainId, genesisHash |-> genesisHash]]
             /\ stage' = next
             /\ UNCHANGED <<endpointLists, historyOrigins, mainnetProblem>>
    <3>1. chainId # Unset => chainId \in ChainIds /\ genesisHash \in GenesisHashes
      BY <2>2 DEF IdentityRefused
    <3>2. identities' \in [Networks -> Identity \cup {Unset}]
      BY <1>1, <2>2, <3>1 DEF ConfigTyped, Identity
    <3>3. ConfigTyped'
      BY <1>1, <2>2, <3>2 DEF ConfigTyped
    <3> QED BY <2>2, <3>3 DEF ConfigInv, MainnetStaysApart, Reading
  <2> QED BY <1>3, <2>1, <2>2
<1>5. CASE ReadOrigin(n, next)
  <2>1. PICK origin \in Origins \cup {Unset, Blank, Malformed} :
          \/ StopStartup
          \/ /\ origin # Malformed
             /\ historyOrigins' = [historyOrigins EXCEPT ![n] =
                  CASE origin = Unset -> IF n = "testnet" THEN Explorer ELSE Unset
                    [] origin = Blank -> Unset
                    [] OTHER -> origin]
             /\ stage' = next
             /\ UNCHANGED <<endpointLists, identities, mainnetProblem>>
    BY <1>5 DEF ReadOrigin
  <2>2. CASE /\ origin # Malformed
             /\ historyOrigins' = [historyOrigins EXCEPT ![n] =
                  CASE origin = Unset -> IF n = "testnet" THEN Explorer ELSE Unset
                    [] origin = Blank -> Unset
                    [] OTHER -> origin]
             /\ stage' = next
             /\ UNCHANGED <<endpointLists, identities, mainnetProblem>>
    <3> DEFINE value == CASE origin = Unset -> IF n = "testnet" THEN Explorer ELSE Unset
                          [] origin = Blank -> Unset
                          [] OTHER -> origin
    <3>1. value \in Origins \cup {Unset}
      <4>1. CASE origin = Unset /\ origin # Blank
        BY <4>1 DEF ConfigAssumption
      <4>2. CASE origin = Blank /\ origin # Unset
        BY <4>2
      <4>3. CASE origin = Blank /\ origin = Unset
        BY <4>3 DEF ConfigAssumption
      <4>4. CASE origin # Blank /\ origin # Unset
        BY <2>2, <4>4
      <4> QED BY <4>1, <4>2, <4>3, <4>4
    <3>2. historyOrigins' = [historyOrigins EXCEPT ![n] = value]
      BY <2>2
    <3> HIDE DEF value
    <3>3. historyOrigins' \in [Networks -> Origins \cup {Unset}]
      BY <1>1, <3>1, <3>2 DEF ConfigTyped
    <3>4. ConfigTyped'
      BY <1>1, <2>2, <3>3 DEF ConfigTyped
    <3> QED BY <2>2, <3>4 DEF ConfigInv, MainnetStaysApart, Reading
  <2> QED BY <1>3, <2>1, <2>2
<1> QED BY <1>2, <1>4, <1>5

\* The separation establishes what the invariant asks of it.
LEMMA SeparationKeepsInv ==
  ASSUME ConfigInv, KeepMainnetApart
  PROVE  ConfigInv'
<1>1. ConfigTyped
  BY DEF ConfigInv
<1>2. /\ mainnetProblem' = MainnetSeparationProblem
      /\ endpointLists' = [endpointLists EXCEPT !["mainnet"] =
           IF MainnetSeparationProblem THEN {} ELSE endpointLists["mainnet"]]
      /\ stage' = "history" /\ identities' = identities /\ historyOrigins' = historyOrigins
  BY DEF KeepMainnetApart
<1>3. mainnetProblem' \in BOOLEAN
  BY <1>2 DEF MainnetSeparationProblem, Unpinned, SharedUpstream, SamePins
<1>4. /\ endpointLists'["mainnet"] = IF MainnetSeparationProblem THEN {} ELSE endpointLists["mainnet"]
      /\ endpointLists'["testnet"] = endpointLists["testnet"]
      /\ endpointLists'["dev"] = endpointLists["dev"]
      /\ endpointLists' \in [Networks -> SUBSET Urls]
  BY <1>1, <1>2 DEF ConfigTyped, Networks
<1>5. ConfigTyped'
  BY <1>1, <1>2, <1>3, <1>4 DEF ConfigTyped
<1>6. Separated'
  <2>1. CASE MainnetSeparationProblem
    <3>1. endpointLists'["mainnet"] = {}
      BY <1>4, <2>1
    <3> QED BY <1>2, <2>1, <3>1 DEF Separated, SharedUpstream
  <2>2. CASE ~MainnetSeparationProblem
    <3>1. ~Unpinned /\ ~SharedUpstream /\ ~SamePins /\ ~mainnetProblem'
      BY <1>2, <2>2 DEF MainnetSeparationProblem
    <3>2. endpointLists'["mainnet"] = endpointLists["mainnet"]
      BY <1>4, <2>2
    <3>3. ~SharedUpstream'
      BY <1>4, <3>1, <3>2 DEF SharedUpstream
    <3>4. ~SamePins'
      BY <1>2, <3>1 DEF SamePins
    <3>5. endpointLists'["mainnet"] # {} => identities'["mainnet"] # Unset
      BY <1>2, <3>1, <3>2 DEF Unpinned
    <3> QED BY <3>1, <3>3, <3>4, <3>5 DEF Separated
  <2> QED BY <2>1, <2>2
<1> QED BY <1>2, <1>5, <1>6 DEF ConfigInv, MainnetStaysApart

\* Giving up a mainnet history origin that is not apart leaves the separation.
LEMMA HistoryKeepsInv ==
  ASSUME ConfigInv, stage = "history", KeepHistoryApart
  PROVE  ConfigInv'
<1>1. ConfigTyped /\ Separated
  BY DEF ConfigInv
<1>2. /\ historyOrigins' = [historyOrigins EXCEPT !["mainnet"] =
           IF HistoryApart THEN historyOrigins["mainnet"] ELSE Unset]
      /\ stage' = "running" /\ endpointLists' = endpointLists
      /\ identities' = identities /\ mainnetProblem' = mainnetProblem
  BY DEF KeepHistoryApart
<1>3. /\ historyOrigins'["mainnet"] = IF HistoryApart THEN historyOrigins["mainnet"] ELSE Unset
      /\ historyOrigins'["testnet"] = historyOrigins["testnet"]
      /\ historyOrigins'["dev"] = historyOrigins["dev"]
      /\ historyOrigins' \in [Networks -> Origins \cup {Unset}]
  BY <1>1, <1>2 DEF ConfigTyped, Networks
<1>4. ConfigTyped'
  BY <1>1, <1>2, <1>3 DEF ConfigTyped
<1>5. endpointLists["mainnet"] # {} \/ historyOrigins'["mainnet"] # Unset =>
        identities["mainnet"] # Unset /\ ~SamePins
  BY <1>1, <1>3 DEF Separated, HistoryApart
<1>6. historyOrigins'["mainnet"] # Unset =>
        \A n \in Networks \ {"mainnet"} : historyOrigins'[n] # historyOrigins'["mainnet"]
  BY <1>3 DEF HistoryApart, Networks
<1>7. \A url \in endpointLists["mainnet"], other \in endpointLists["testnet"] \cup endpointLists["dev"] :
        EndpointKey[url] # EndpointKey[other]
  BY <1>1 DEF Separated, SharedUpstream
<1>8. SamePins' <=> SamePins
  BY <1>2 DEF SamePins
<1>9. MainnetStaysApart'
  BY <1>2, <1>5, <1>6, <1>7, <1>8 DEF MainnetStaysApart
<1> QED BY <1>2, <1>4, <1>9 DEF ConfigInv

\* Every step of loading the configuration keeps the invariant.
LEMMA NextConfigInv ==
  ASSUME ConfigAssumption
  PROVE  ConfigInv /\ [ConfigNext]_configVars => ConfigInv'
<1> SUFFICES ASSUME ConfigInv, [ConfigNext]_configVars PROVE ConfigInv'
  OBVIOUS
<1>1. CASE UNCHANGED configVars
  BY <1>1 DEF configVars, ConfigInv, ConfigTyped, Separated, SharedUpstream, SamePins, MainnetStaysApart
<1>2. CASE stage = "separation" /\ KeepMainnetApart
  BY <1>2, SeparationKeepsInv
<1>3. CASE stage = "history" /\ KeepHistoryApart
  BY <1>3, HistoryKeepsInv
<1>4. ASSUME NEW n \in Networks, NEW next, Reading(next),
             ReadEndpoints(n, next) \/ ReadIdentity(n, next) \/ ReadOrigin(n, next)
      PROVE  ConfigInv'
  BY <1>4, ReadingKeepsInv
<1>5. "dev" \in Networks /\ "testnet" \in Networks /\ "mainnet" \in Networks
  BY DEF Networks
<1>6. \A next \in {"testnet endpoints", "mainnet endpoints", "identities", "testnet identity",
                   "mainnet identity", "origins", "testnet origin", "mainnet origin", "separation"} :
        Reading(next)
  BY DEF Reading
<1>7. CASE \/ ReadEndpoints("dev", "testnet endpoints") \/ ReadEndpoints("testnet", "mainnet endpoints")
           \/ ReadEndpoints("mainnet", "identities")
  BY <1>4, <1>5, <1>6, <1>7
<1>8. CASE \/ ReadIdentity("dev", "testnet identity") \/ ReadIdentity("testnet", "mainnet identity")
           \/ ReadIdentity("mainnet", "origins")
  BY <1>4, <1>5, <1>6, <1>8
<1>9. CASE \/ ReadOrigin("dev", "testnet origin") \/ ReadOrigin("testnet", "mainnet origin")
           \/ ReadOrigin("mainnet", "separation")
  BY <1>4, <1>5, <1>6, <1>9
<1> QED BY <1>1, <1>2, <1>3, <1>7, <1>8, <1>9 DEF ConfigNext

\* Whatever the environment says, a running process keeps mainnet apart.
THEOREM MainnetApart == ConfigSpec => []MainnetStaysApart
<1>1. ConfigInit => ConfigInv
  BY InitConfigInv
<1>2. ConfigInv /\ [ConfigNext]_configVars => ConfigInv'
  BY NextConfigInv, ConfigAssumption
<1>3. ConfigInv => MainnetStaysApart
  BY DEF ConfigInv
<1> QED BY <1>1, <1>2, <1>3, PTL DEF ConfigSpec

-----------------------------------------------------------------------------
(* The request chain of the RPC proxy *)

ChainPositions ==
  {"none", "batch reject", "method whitelist", "write limit", "params validator",
   "proxied", "refused"}

\* Until it is proxied, what the client sent is what the chain looks at.
RequestsInv ==
  /\ position \in ChainPositions
  /\ body.filter \in LogFilter
  /\ LogScansAreBounded

\* Fields: what a filter that fits says of the range, once it is canonical.
LEMMA CanonicalFields ==
  ASSUME NEW filter \in LogFilter, FilterFits(filter)
  PROVE  /\ Canonical(filter) \in LogFilter
         /\ Canonical(filter).aliased = Omitted
         /\ Canonical(filter).addresses <= MaxAddresses
         /\ Canonical(filter).blockHash = "hash" =>
              Canonical(filter).fromBlock = Omitted /\ Canonical(filter).toBlock = Omitted
         /\ Canonical(filter).blockHash # "hash" =>
              /\ Canonical(filter).fromBlock.kind # "earliest"
              /\ Canonical(filter).fromBlock.kind = "number" =>
                   /\ filter.fromBlock.kind = "number" /\ filter.toBlock.kind = "number"
                   /\ Canonical(filter).fromBlock = filter.fromBlock
                   /\ Canonical(filter).toBlock = filter.toBlock
                   /\ filter.toBlock.number - filter.fromBlock.number <= MaxBlockRange
<1> DEFINE Kept(field) == IF field.kind = "null" THEN Omitted ELSE field
           c == Canonical(filter)
<1>1. /\ filter.fromBlock \in BlockField /\ filter.toBlock \in BlockField
      /\ filter.blockHash \in {"undefined", "null", "hash", "malformed"}
      /\ filter.addresses \in 0 .. MaxAddresses + 1
      /\ filter.addressesFit \in BOOLEAN /\ filter.topicsFit \in BOOLEAN
  BY DEF LogFilter
<1>2. c = [blockHash |-> IF filter.blockHash = "null" THEN "undefined" ELSE filter.blockHash,
           fromBlock |-> Kept(filter.fromBlock), toBlock |-> Kept(filter.toBlock),
           aliased |-> Omitted, addresses |-> filter.addresses,
           addressesFit |-> filter.addressesFit, topicsFit |-> filter.topicsFit]
  <2>1. DOMAIN filter = {"blockHash", "fromBlock", "toBlock", "aliased", "addresses",
                         "addressesFit", "topicsFit"}
    BY DEF LogFilter
  <2>2. c = [filter EXCEPT !.fromBlock = Kept(filter.fromBlock), !.toBlock = Kept(filter.toBlock),
                           !.aliased = Omitted,
                           !.blockHash = IF filter.blockHash = "null" THEN "undefined"
                                         ELSE filter.blockHash]
    BY DEF Canonical
  <2> HIDE DEF c, Kept
  <2> QED BY <2>1, <2>2
<1>3. Omitted \in BlockField /\ Omitted.kind = "undefined"
  BY DEF Omitted, BlockField
<1>4. \A field \in BlockField : Kept(field) \in BlockField
  BY <1>3
<1>5. c \in LogFilter
  BY <1>1, <1>2, <1>4 DEF LogFilter
<1>6. /\ filter.addresses <= MaxAddresses
      /\ \/ filter.blockHash = "hash" /\ filter.fromBlock = Omitted /\ filter.toBlock = Omitted
         \/ filter.blockHash \in {"undefined", "null"} /\ RangeFits(filter.fromBlock, filter.toBlock)
  BY DEF FilterFits, BlocksFit
<1>7. CASE filter.blockHash = "hash" /\ filter.fromBlock = Omitted /\ filter.toBlock = Omitted
  <2>1. c.blockHash = "hash" /\ c.fromBlock = Omitted /\ c.toBlock = Omitted
    BY <1>2, <1>3, <1>7
  <2> QED BY <1>2, <1>5, <1>6, <2>1
<1>8. CASE filter.blockHash \in {"undefined", "null"} /\ RangeFits(filter.fromBlock, filter.toBlock)
  <2>1. c.blockHash # "hash" /\ c.fromBlock = Kept(filter.fromBlock) /\ c.toBlock = Kept(filter.toBlock)
    BY <1>2, <1>8
  <2>2. filter.fromBlock.kind # "earliest"
    BY <1>8 DEF RangeFits
  <2>3. c.fromBlock.kind # "earliest"
    BY <1>3, <2>1, <2>2
  <2>4. ASSUME c.fromBlock.kind = "number"
        PROVE  /\ filter.fromBlock.kind = "number" /\ filter.toBlock.kind = "number"
               /\ c.fromBlock = filter.fromBlock /\ c.toBlock = filter.toBlock
               /\ filter.toBlock.number - filter.fromBlock.number <= MaxBlockRange
    <3>1. filter.fromBlock.kind = "number" /\ c.fromBlock = filter.fromBlock
      BY <1>3, <2>1, <2>4
    <3>2. /\ ~Dynamic(filter.toBlock) /\ filter.toBlock.kind # "malformed"
          /\ (filter.toBlock.number - filter.fromBlock.number) \in 0 .. MaxBlockRange
      BY <1>8, <3>1 DEF RangeFits
    <3>3. filter.toBlock.kind = "number"
      BY <1>1, <3>2 DEF BlockField, Dynamic
    <3>4. c.toBlock = filter.toBlock
      BY <2>1, <3>3
    <3>5. filter.toBlock.number - filter.fromBlock.number <= MaxBlockRange
      BY <3>2
    <3> QED BY <3>1, <3>3, <3>4, <3>5
  <2> HIDE DEF c
  <2> QED BY <1>2, <1>5, <1>6, <2>1, <2>3, <2>4 DEF c
<1> QED BY <1>6, <1>7, <1>8

\* The span a canonical filter makes the node scan.
LEMMA CanonicalIsBounded ==
  ASSUME RequestsAssumption, NEW filter \in LogFilter, FilterFits(filter),
         Canonical(filter).blockHash # "hash", NEW head \in Heads
  PROVE  LastBlock(Canonical(filter), head) - FirstBlock(Canonical(filter), head) <= MaxBlockRange
<1> DEFINE c == Canonical(filter)
<1>1. MaxBlockRange \in Nat /\ MaxBlockRange >= 1 /\ head \in Nat
  BY DEF RequestsAssumption
<1>2. /\ c \in LogFilter /\ c.aliased = Omitted
      /\ c.fromBlock.kind # "earliest"
      /\ c.fromBlock.kind = "number" =>
           /\ filter.fromBlock.kind = "number" /\ filter.toBlock.kind = "number"
           /\ c.fromBlock = filter.fromBlock /\ c.toBlock = filter.toBlock
           /\ filter.toBlock.number - filter.fromBlock.number <= MaxBlockRange
  BY CanonicalFields
<1> HIDE DEF c
<1>3. ToBlock(c) = c.toBlock
  BY <1>2 DEF ToBlock
<1>4. c.fromBlock \in BlockField /\ c.toBlock \in BlockField
  BY <1>2 DEF LogFilter
<1>5. \A field \in BlockField : BlockAt(field, head) \in Nat
  <2> SUFFICES ASSUME NEW field \in BlockField PROVE BlockAt(field, head) \in Nat
    OBVIOUS
  <2>1. CASE field.kind = "number"
    BY <2>1 DEF BlockField, RequestsAssumption, BlockAt
  <2>2. CASE field.kind = "earliest"
    BY <2>2 DEF BlockAt
  <2>3. CASE field.kind = "pending"
    BY <1>1, <2>3 DEF BlockAt
  <2>4. CASE field.kind \notin {"number", "earliest", "pending"}
    BY <1>1, <2>4 DEF BlockAt
  <2> QED BY <2>1, <2>2, <2>3, <2>4
<1>6. /\ LastBlock(c, head) \in Nat /\ LastBlock(c, head) <= head + 1
      /\ LastBlock(c, head) <= BlockAt(c.toBlock, head)
  BY <1>1, <1>3, <1>4, <1>5 DEF LastBlock
<1>7. CASE c.fromBlock.kind = "number"
  <2>1. BlockAt(c.toBlock, head) = c.toBlock.number /\ FirstBlock(c, head) = c.fromBlock.number
    BY <1>2, <1>7 DEF BlockAt, FirstBlock
  <2>2. c.toBlock.number \in Nat /\ c.fromBlock.number \in Nat
    BY <1>4, <1>5, <2>1 DEF FirstBlock
  <2>3. c.toBlock.number - c.fromBlock.number <= MaxBlockRange
    BY <1>2, <1>7
  <2> QED BY <1>1, <1>6, <2>1, <2>2, <2>3 DEF c
<1>8. CASE c.fromBlock.kind # "number"
  <2>1. FirstBlock(c, head) = head \/ FirstBlock(c, head) = head + 1
    BY <1>2, <1>8 DEF BlockAt, FirstBlock
  <2> QED BY <1>1, <1>6, <2>1 DEF c
<1> QED BY <1>7, <1>8

\* Before a request is looked at the invariant holds.
LEMMA InitRequestsInv == ASSUME RequestsAssumption PROVE RequestsInit => RequestsInv
<1> SUFFICES ASSUME RequestsInit PROVE RequestsInv
  OBVIOUS
<1>1. position = "none" /\ body.filter = NoFilter
  BY DEF RequestsInit, Idle
<1>2. NoFilter \in LogFilter
  BY DEF NoFilter, LogFilter, BlockField, Omitted, RequestsAssumption
<1> QED BY <1>1, <1>2 DEF RequestsInv, ChainPositions, LogScansAreBounded

\* A middleware that does not end the chain.
LEMMA PassKeepsInv ==
  ASSUME RequestsInv, NEW from, NEW to \in ChainPositions \ {"proxied"}, NEW fits, Pass(from, to, fits)
  PROVE  RequestsInv'
<1>1. position' \in ChainPositions \ {"proxied"} /\ body' = body
  BY DEF Pass, ChainPositions
<1> QED BY <1>1 DEF RequestsInv, LogScansAreBounded

\* The parameter validator lets only requests pass that are within its limits.
LEMMA ValidatorKeepsInv ==
  ASSUME RequestsAssumption, RequestsInv, RpcParamsValidator
  PROVE  RequestsInv'
<1>1. body.filter \in LogFilter
  BY DEF RequestsInv
<1>2. CASE body.method # "getLogs"
  <2>1. position' \in ChainPositions /\ body' = body
    BY <1>2 DEF RpcParamsValidator, Pass, ChainPositions
  <2> QED BY <1>1, <1>2, <2>1 DEF RequestsInv, LogScansAreBounded
<1>3. CASE position' = "refused" /\ body' = body
  BY <1>1, <1>3 DEF RequestsInv, ChainPositions, LogScansAreBounded
<1>4. CASE /\ FilterFits(body.filter) /\ position' = "proxied"
           /\ body' = [body EXCEPT !.filter = Canonical(body.filter)]
  <2> DEFINE c == Canonical(body.filter)
  <2>1. /\ c \in LogFilter /\ c.addresses <= MaxAddresses /\ ToBlock(c) = c.toBlock
        /\ c.blockHash = "hash" => c.fromBlock = Omitted /\ c.toBlock = Omitted
    BY <1>1, <1>4, CanonicalFields DEF ToBlock
  <2>2. ASSUME NEW head \in Heads, c.blockHash # "hash"
        PROVE  LastBlock(c, head) - FirstBlock(c, head) <= MaxBlockRange
    BY <1>1, <1>4, <2>2, CanonicalIsBounded
  <2>3. body'.filter = c
    BY <1>4
  <2> HIDE DEF c
  <2> QED BY <1>4, <2>1, <2>2, <2>3 DEF RequestsInv, ChainPositions, LogScansAreBounded
<1> QED BY <1>2, <1>3, <1>4 DEF RpcParamsValidator

\* Every step of the middleware chain keeps the invariant.
LEMMA NextRequestsInv ==
  ASSUME RequestsAssumption
  PROVE  RequestsInv /\ [RequestsNext]_requestVars => RequestsInv'
<1> SUFFICES ASSUME RequestsInv, [RequestsNext]_requestVars PROVE RequestsInv'
  OBVIOUS
<1>1. CASE UNCHANGED requestVars
  BY <1>1 DEF requestVars, RequestsInv, LogScansAreBounded
<1>2. CASE Receive
  <2>1. position' = "batch reject" /\ body'.filter \in {NoFilter} \cup LogFilter
    BY <1>2 DEF Receive, Sent
  <2>2. NoFilter \in LogFilter
    BY DEF NoFilter, LogFilter, BlockField, Omitted, RequestsAssumption
  <2> QED BY <2>1, <2>2 DEF RequestsInv, ChainPositions, LogScansAreBounded
<1>3. CASE RpcBatchReject
  BY <1>3, PassKeepsInv DEF RpcBatchReject, ChainPositions
<1>4. CASE RpcMethodWhitelist
  BY <1>4, PassKeepsInv DEF RpcMethodWhitelist, ChainPositions
<1>5. CASE RpcRateLimitWrite
  BY <1>5, PassKeepsInv DEF RpcRateLimitWrite, ChainPositions
<1>6. CASE RpcParamsValidator
  BY <1>6, ValidatorKeepsInv
<1> QED BY <1>1, <1>2, <1>3, <1>4, <1>5, <1>6 DEF RequestsNext

\* Whatever filters clients send, every proxied log query is bounded.
THEOREM LogScansBounded == RequestsSpec => []LogScansAreBounded
<1>1. RequestsInit => RequestsInv
  BY InitRequestsInv, RequestsAssumption
<1>2. RequestsInv /\ [RequestsNext]_requestVars => RequestsInv'
  BY NextRequestsInv, RequestsAssumption
<1>3. RequestsInv => LogScansAreBounded
  BY DEF RequestsInv
<1> QED BY <1>1, <1>2, <1>3, PTL DEF RequestsSpec


-----------------------------------------------------------------------------
(* The health monitor *)

\* What an endpoint's record says of its last poll: a binding verified by it means
\* that it did not fail, and an endpoint that is up after it has been polled, and
\* its head had not stood still for too long then.
RecordFits(ep) ==
  /\ ep.verifiedIdentity => ep.consecutiveFailures = 0
  /\ ep.state = "up" =>
       /\ ep.lastVerifiedPollAt \in Nat
       /\ ep.lastVerifiedPollAt - ep.lastHeightChangeAt <= StallAfter

HealthInv ==
  /\ HealthTypeOK
  /\ OnePollPerEndpoint
  /\ \A e \in Endpoints : RecordFits(endpoints[e])

\* The constants of the monitor are numbers.
LEMMA HealthNumbers ==
  /\ PollInterval \in Nat /\ DownAfterFailures \in Nat /\ UpAfterSuccesses \in Nat
  /\ DownAfterFailures > 0 /\ UpAfterSuccesses > 0
  /\ StallAfter \in Nat /\ MaxLagBlocks \in Nat /\ MaxClock \in Nat
  /\ Heights \subseteq Nat /\ HeadAges \subseteq Int /\ Pinned \in BOOLEAN
  /\ None \notin Int
BY HealthAssumption

\* One poll per endpoint, none of them answered yet.
LEMMA RoundFacts ==
  ASSUME NEW time \in Nat
  PROVE  /\ PollOfAll(time) \subseteq Poll
         /\ PollOfAll(time) # {}
         /\ \A p, q \in PollOfAll(time) : p.endpoint = q.endpoint => p = q
<1> DEFINE PollBegun(e) == [endpoint |-> e, startedAt |-> time, height |-> None]
<1>1. PollOfAll(time) = {PollBegun(e) : e \in Endpoints} BY DEF PollOfAll
<1>2. \A e \in Endpoints : PollBegun(e) \in Poll BY DEF Poll
<1>3. \A e \in Endpoints : PollBegun(e).endpoint = e OBVIOUS
<1>4. PICK e \in Endpoints : TRUE BY HealthAssumption
<1> HIDE DEF PollBegun
<1> QED BY <1>1, <1>2, <1>3, <1>4

\* With every endpoint unpolled the invariant holds.
LEMMA InitHealthInv == HealthInit => HealthInv
<1> SUFFICES ASSUME HealthInit PROVE HealthInv OBVIOUS
<1> USE DEF HealthInit
<1>1. NewRecord \in EndpointRecord /\ RecordFits(NewRecord)
  BY HealthNumbers DEF NewRecord, EndpointRecord, States, RecordFits
<1>2. \A e \in Endpoints : endpoints[e] = NewRecord OBVIOUS
<1>3. endpoints \in [Endpoints -> EndpointRecord] BY <1>1
<1>4. /\ polls \subseteq Poll /\ polls # {}
      /\ OnePollPerEndpoint
  BY RoundFacts DEF OnePollPerEndpoint
<1>5. now \in 0 .. MaxClock /\ nextTick \in Nat BY HealthNumbers
<1>6. HealthTypeOK BY <1>3, <1>4, <1>5 DEF HealthTypeOK
<1> QED BY <1>1, <1>2, <1>4, <1>6 DEF HealthInv

\* A success leaves a record of its type, with the failures forgotten; an endpoint
\* is up after it only if its head has moved in time.
LEMMA SuccessFits ==
  ASSUME NEW ep \in EndpointRecord, NEW height \in Heights, NEW time \in Nat,
         ep.lastVerifiedPollAt = time
  PROVE  /\ ApplyPollSuccess(ep, height, time) \in EndpointRecord
         /\ RecordFits(ApplyPollSuccess(ep, height, time))
<1> DEFINE advanced == ep.lastHeight = None \/ height > ep.lastHeight
<1> DEFINE changed == IF advanced THEN time ELSE ep.lastHeightChangeAt
<1> DEFINE successes == AtMost(ep.consecutiveSuccesses + 1, UpAfterSuccesses)
<1> DEFINE next == NextState(ep, advanced, successes, time - changed)
<1> DEFINE after == ApplyPollSuccess(ep, height, time)
<1>1. changed \in Nat BY DEF EndpointRecord
<1>2. successes \in 0 .. UpAfterSuccesses BY HealthNumbers DEF EndpointRecord, AtMost
<1>3. next \in States /\ (next = "up" => time - changed <= StallAfter)
  <2>1. ep.state \in States /\ time - changed \in Int /\ StallAfter \in Int
    BY <1>1, HealthNumbers DEF EndpointRecord
  <2> HIDE DEF changed, successes, advanced
  <2> QED BY <2>1 DEF NextState, States
<1>4. after = [ep EXCEPT !.lastHeight = height, !.lastHeightChangeAt = changed,
                 !.consecutiveSuccesses = successes, !.consecutiveFailures = 0,
                 !.state = next]
  BY DEF ApplyPollSuccess
<1>5. 0 \in 0 .. DownAfterFailures /\ height \in Heights \cup {None} BY HealthNumbers
<1> HIDE DEF changed, successes, advanced, next, after
<1>6. after \in EndpointRecord BY <1>1, <1>2, <1>3, <1>4, <1>5 DEF EndpointRecord
<1>7. /\ after.lastVerifiedPollAt = time /\ after.lastHeightChangeAt = changed
      /\ after.state = next /\ after.consecutiveFailures = 0
  BY <1>4 DEF EndpointRecord
<1>8. RecordFits(after) BY <1>3, <1>7 DEF RecordFits
<1> QED BY <1>6, <1>8 DEF after

\* A failure revokes the binding and makes no endpoint up.
LEMMA FailureFits ==
  ASSUME NEW ep \in EndpointRecord, RecordFits(ep)
  PROVE  ApplyFailure(ep) \in EndpointRecord /\ RecordFits(ApplyFailure(ep))
<1> DEFINE failures == AtMost(ep.consecutiveFailures + 1, DownAfterFailures)
<1> DEFINE next == IF failures >= DownAfterFailures THEN "down" ELSE ep.state
<1> DEFINE after == ApplyFailure(ep)
<1>1. failures \in 0 .. DownAfterFailures BY HealthNumbers DEF EndpointRecord, AtMost
<1>2. next \in States /\ (next = "up" => ep.state = "up") BY DEF EndpointRecord, States
<1>3. after = [ep EXCEPT !.verifiedIdentity = FALSE, !.consecutiveFailures = failures,
                 !.consecutiveSuccesses = 0, !.state = next]
  BY DEF ApplyFailure
<1>4. 0 \in 0 .. UpAfterSuccesses BY HealthNumbers
<1> HIDE DEF failures, next, after
<1>5. after \in EndpointRecord BY <1>1, <1>2, <1>3, <1>4 DEF EndpointRecord
<1>6. /\ after.lastVerifiedPollAt = ep.lastVerifiedPollAt /\ after.state = next
      /\ after.lastHeightChangeAt = ep.lastHeightChangeAt /\ after.verifiedIdentity = FALSE
  BY <1>3 DEF EndpointRecord
<1>7. RecordFits(after) BY <1>2, <1>6 DEF RecordFits
<1> QED BY <1>5, <1>7 DEF after

\* The record of one endpoint is replaced when its poll settles.
LEMMA SettledStep ==
  ASSUME HealthInv, NEW p \in polls, NEW ep \in EndpointRecord, RecordFits(ep),
         endpoints' = [endpoints EXCEPT ![p.endpoint] = ep],
         Settled(p), UNCHANGED <<now, nextTick>>
  PROVE  HealthInv'
<1> USE DEF HealthInv
<1>1. p.endpoint \in Endpoints BY DEF HealthTypeOK, Poll
<1>2. endpoints' \in [Endpoints -> EndpointRecord] BY <1>1 DEF HealthTypeOK
<1>3. \A e \in Endpoints : RecordFits(endpoints'[e])
  BY <1>1 DEF HealthTypeOK
<1>4. OnePollPerEndpoint' BY DEF OnePollPerEndpoint, Settled
<1>5. HealthTypeOK' BY <1>2 DEF HealthTypeOK, Settled
<1>6. (\A e \in Endpoints : RecordFits(endpoints[e]))' BY <1>3 DEF RecordFits
<1> QED BY <1>4, <1>5, <1>6

\* Every step of the monitor keeps the invariant.
LEMMA NextHealthInv == HealthInv /\ [HealthNext]_healthVars => HealthInv'
<1> SUFFICES ASSUME HealthInv, [HealthNext]_healthVars PROVE HealthInv' OBVIOUS
<1> USE DEF HealthInv
<1>0. now \in Nat /\ nextTick \in Nat /\ polls \subseteq Poll
  BY HealthNumbers DEF HealthTypeOK
<1>1. CASE IntervalFires
  <2> USE <1>1 DEF IntervalFires
  <2>1. nextTick' \in Nat BY <1>0, HealthNumbers
  <2>2. CASE polling /\ UNCHANGED <<polling, polls>>
    <3>1. HealthTypeOK' BY <2>1, <2>2 DEF HealthTypeOK
    <3>2. OnePollPerEndpoint' BY <2>2 DEF OnePollPerEndpoint
    <3>3. (\A e \in Endpoints : RecordFits(endpoints[e]))' BY DEF RecordFits
    <3> QED BY <3>1, <3>2, <3>3
  <2>3. CASE ~polling /\ polling' = TRUE /\ polls' = PollOfAll(now)
    <3>1. /\ polls' \subseteq Poll /\ polls' # {}
          /\ \A p, q \in polls' : p.endpoint = q.endpoint => p = q
      BY <1>0, <2>3, RoundFacts
    <3>2. HealthTypeOK' BY <2>1, <2>3, <3>1 DEF HealthTypeOK
    <3>3. OnePollPerEndpoint' BY <3>1 DEF OnePollPerEndpoint
    <3>4. (\A e \in Endpoints : RecordFits(endpoints[e]))' BY DEF RecordFits
    <3> QED BY <3>2, <3>3, <3>4
  <2> QED BY <2>2, <2>3
<1>2. ASSUME NEW p \in polls, HeightAnswered(p) PROVE HealthInv'
  <2>1. PICK h \in Heights : polls' = (polls \ {p}) \cup {[p EXCEPT !.height = h]}
    BY <1>2 DEF HeightAnswered
  <2> DEFINE q == [p EXCEPT !.height = h]
  <2>2. q \in Poll /\ q.endpoint = p.endpoint BY <1>0 DEF Poll
  <2>3. polls' \subseteq Poll /\ polls' # {} BY <1>0, <2>1, <2>2
  <2>4. OnePollPerEndpoint'
    <3> HIDE DEF q
    <3>1. polls' = (polls \ {p}) \cup {q} BY <2>1 DEF q
    <3>2. \A r \in polls \ {p} : r.endpoint # q.endpoint BY <2>2 DEF OnePollPerEndpoint
    <3> QED BY <3>1, <3>2 DEF OnePollPerEndpoint
  <2>5. UNCHANGED <<now, endpoints, polling, nextTick>> BY <1>2 DEF HeightAnswered
  <2>6. HealthTypeOK' BY <2>3, <2>5 DEF HealthTypeOK
  <2>7. (\A e \in Endpoints : RecordFits(endpoints[e]))' BY <2>5 DEF RecordFits
  <2> QED BY <2>4, <2>6, <2>7
<1>3. ASSUME NEW p \in polls, PollSucceeds(p) PROVE HealthInv'
  <2>1. PICK syncing \in BOOLEAN, age \in HeadAges :
          endpoints' = [endpoints EXCEPT ![p.endpoint] =
            ApplyPollSuccess([endpoints[p.endpoint] EXCEPT
                                !.syncing = syncing, !.headTimestamp = now - age,
                                !.lastVerifiedPollAt = now, !.verifiedIdentity = Pinned],
                             p.height, now)]
    BY <1>3 DEF PollSucceeds
  <2> DEFINE ep == [endpoints[p.endpoint] EXCEPT
                      !.syncing = syncing, !.headTimestamp = now - age,
                      !.lastVerifiedPollAt = now, !.verifiedIdentity = Pinned]
  <2>2. /\ p.endpoint \in Endpoints /\ p.height \in Heights
        /\ endpoints[p.endpoint] \in EndpointRecord
    BY <1>0, <1>3 DEF PollSucceeds, Poll, HealthTypeOK
  <2>3. now - age \in Int BY <1>0, HealthNumbers
  <2>4. ep \in EndpointRecord /\ ep.lastVerifiedPollAt = now
    BY <1>0, <2>2, <2>3, HealthNumbers DEF EndpointRecord
  <2> HIDE DEF ep
  <2>5. /\ ApplyPollSuccess(ep, p.height, now) \in EndpointRecord
        /\ RecordFits(ApplyPollSuccess(ep, p.height, now))
    BY <1>0, <2>2, <2>4, SuccessFits
  <2>6. endpoints' = [endpoints EXCEPT ![p.endpoint] = ApplyPollSuccess(ep, p.height, now)]
    BY <2>1 DEF ep
  <2> QED BY <1>3, <2>5, <2>6, SettledStep DEF PollSucceeds
<1>4. ASSUME NEW p \in polls, PollFails(p) PROVE HealthInv'
  <2>1. endpoints[p.endpoint] \in EndpointRecord /\ RecordFits(endpoints[p.endpoint])
    BY <1>0 DEF Poll, HealthTypeOK
  <2>2. /\ ApplyFailure(endpoints[p.endpoint]) \in EndpointRecord
        /\ RecordFits(ApplyFailure(endpoints[p.endpoint]))
    BY <2>1, FailureFits
  <2>3. endpoints' = [endpoints EXCEPT ![p.endpoint] = ApplyFailure(endpoints[p.endpoint])]
    BY <1>4 DEF PollFails
  <2> QED BY <1>4, <2>2, <2>3, SettledStep DEF PollFails
<1>5. CASE HealthTick
  <2> USE <1>5 DEF HealthTick
  <2>1. now' \in 0 .. MaxClock BY <1>0, HealthNumbers
  <2>2. HealthTypeOK' BY <2>1 DEF HealthTypeOK
  <2>3. OnePollPerEndpoint' BY DEF OnePollPerEndpoint
  <2>4. (\A e \in Endpoints : RecordFits(endpoints[e]))' BY DEF RecordFits
  <2> QED BY <2>2, <2>3, <2>4
<1>6. CASE UNCHANGED healthVars
  <2> USE <1>6 DEF healthVars
  <2>1. HealthTypeOK' BY DEF HealthTypeOK
  <2>2. OnePollPerEndpoint' BY DEF OnePollPerEndpoint
  <2>3. (\A e \in Endpoints : RecordFits(endpoints[e]))' BY DEF RecordFits
  <2> QED BY <2>1, <2>2, <2>3
<1> QED BY <1>1, <1>2, <1>3, <1>4, <1>5, <1>6 DEF HealthNext

\* Every reachable state satisfies the invariant.
LEMMA HealthInvariance == HealthSpec => []HealthInv
BY InitHealthInv, NextHealthInv, PTL DEF HealthSpec

-----------------------------------------------------------------------------
(* What the invariant says of the endpoints that get requests *)

\* A set of endpoints with known heights has a highest one.
LEMMA Highest ==
  ASSUME NEW S, IsFiniteSet(S), S # {}, NEW height, \A e \in S : height[e] \in Nat
  PROVE  \E e \in S : \A f \in S : height[f] <= height[e]
<1> DEFINE Above(e) == {f \in S : height[f] > height[e]}
<1> DEFINE Counts == {Cardinality(Above(e)) : e \in S}
<1>1. \A e \in S : IsFiniteSet(Above(e)) /\ Cardinality(Above(e)) \in Nat
  BY FS_Subset, FS_CardinalityType
<1>2. PICK n \in Counts : \A k \in Counts : n <= k
  <2>1. Counts \in SUBSET Nat /\ Counts # {} BY <1>1
  <2> HIDE DEF Counts
  <2> QED BY <2>1, LeastElement
<1>3. PICK e \in S : n = Cardinality(Above(e)) BY <1>2
<1>4. ASSUME NEW f \in S, height[f] > height[e] PROVE FALSE
  <2>1. Above(f) \subseteq Above(e) /\ f \in Above(e) /\ f \notin Above(f) BY <1>4
  <2>2. n <= Cardinality(Above(f)) BY <1>2
  <2> HIDE DEF Above
  <2>3. Cardinality(Above(f)) < Cardinality(Above(e)) BY <1>1, <2>1, FS_Subset
  <2> QED BY <1>1, <1>3, <2>2, <2>3
<1> QED BY <1>4

\* A ready endpoint that is bound to an identity has not failed its last poll.
Unrevoked == Pinned => \A e \in ReadyEndpoints : endpoints[e].consecutiveFailures = 0

\* The properties of the monitor are consequences of the invariant; that requests
\* can always go to a highest head needs a highest head to exist.
LEMMA HealthInvImplies ==
  HealthInv => HealthTypeOK /\ OnePollPerEndpoint /\ Unrevoked /\ UpMeansProgress
                 /\ BestHeadIsReady
<1> SUFFICES ASSUME HealthInv
             PROVE  Unrevoked /\ UpMeansProgress /\ BestHeadIsReady
  BY DEF HealthInv
<1> USE DEF HealthInv
<1>1. Unrevoked BY DEF Unrevoked, ReadyEndpoints, FreshEndpoints, RecordFits
<1>2. UpMeansProgress BY DEF UpMeansProgress, RecordFits
<1>3. BestHeadIsReady
  <2> DEFINE height == [e \in FreshEndpoints |-> endpoints[e].lastHeight]
  <2>1. FreshEndpoints \subseteq Endpoints BY DEF FreshEndpoints
  <2>2. \A e \in FreshEndpoints : endpoints[e].lastHeight \in Nat
    BY HealthNumbers DEF FreshEndpoints, HasFreshHead, HealthTypeOK, EndpointRecord
  <2>3. IsFiniteSet(FreshEndpoints) BY <2>1, HealthAssumption, FS_Subset
  <2>4. \A e \in FreshEndpoints :
          (\A f \in FreshEndpoints : endpoints[f].lastHeight <= endpoints[e].lastHeight)
            => e \in ReadyEndpoints
    BY <2>2, HealthNumbers DEF ReadyEndpoints, WithinLag
  <2>5. ASSUME FreshEndpoints # {} PROVE ReadyEndpoints # {}
    <3>1. \A e \in FreshEndpoints : height[e] \in Nat BY <2>2
    <3>2. \A e \in FreshEndpoints : height[e] = endpoints[e].lastHeight OBVIOUS
    <3> HIDE DEF height
    <3>3. PICK e \in FreshEndpoints : \A f \in FreshEndpoints : height[f] <= height[e]
      BY <2>3, <2>5, <3>1, Highest
    <3> QED BY <2>4, <3>2, <3>3
  <2>6. \A e, f \in ReadyEndpoints :
          endpoints[e].lastHeight - endpoints[f].lastHeight <= MaxLagBlocks
    BY DEF ReadyEndpoints, WithinLag
  <2> QED BY <2>4, <2>5, <2>6 DEF BestHeadIsReady
<1> QED BY <1>1, <1>2, <1>3

-----------------------------------------------------------------------------
(* The slots of the proxy *)

\* The requests of the clients in ks whose upstream call is in flight.
CallsOf(q, ks) == {r \in Requests : q[r] # None /\ q[r].calling /\ Client[r] \in ks}

SlotsFit ==
  /\ activeRpcCalls = Cardinality(CallsOf(requests, Clients))
  /\ activeRpcCalls <= MaxConcurrent
  /\ activeRpcCallsByClient \in [Clients -> Nat]
  /\ \A k \in Clients :
       /\ activeRpcCallsByClient[k] = Cardinality(CallsOf(requests, {k}))
       /\ activeRpcCallsByClient[k] <= MaxConcurrentPerClient

RpcInv ==
  /\ HealthInv
  /\ requests \in [Requests -> Request \cup {None}]
  /\ cached \in BOOLEAN
  /\ SlotsFit

\* The calls of some clients are finitely many.
LEMMA CountCalls ==
  ASSUME NEW q, NEW ks
  PROVE  IsFiniteSet(CallsOf(q, ks)) /\ Cardinality(CallsOf(q, ks)) \in Nat
<1>1. CallsOf(q, ks) \subseteq Requests BY DEF CallsOf
<1> QED BY <1>1, RpcAssumption, FS_Subset, FS_CardinalityType

\* Whether request r has a call in flight.
InCall(q, r) == q[r] # None /\ q[r].calling

\* A request that takes a slot, returns one, or does neither.
LEMMA CallMoves ==
  ASSUME NEW q, NEW next, NEW r \in Requests, NEW ks,
         \A s \in Requests \ {r} : next[s] = q[s]
  PROVE  /\ Client[r] \notin ks \/ (InCall(q, r) <=> InCall(next, r))
            => Cardinality(CallsOf(next, ks)) = Cardinality(CallsOf(q, ks))
         /\ Client[r] \in ks /\ ~InCall(q, r) /\ InCall(next, r)
            => Cardinality(CallsOf(next, ks)) = Cardinality(CallsOf(q, ks)) + 1
         /\ Client[r] \in ks /\ InCall(q, r) /\ ~InCall(next, r)
            => Cardinality(CallsOf(next, ks)) = Cardinality(CallsOf(q, ks)) - 1
<1> DEFINE B == CallsOf(q, ks)
<1> DEFINE A == CallsOf(next, ks)
<1>1. IsFiniteSet(A) /\ IsFiniteSet(B) /\ Cardinality(A) \in Nat /\ Cardinality(B) \in Nat
  BY CountCalls
<1>2. ASSUME Client[r] \notin ks \/ (InCall(q, r) <=> InCall(next, r))
      PROVE  Cardinality(A) = Cardinality(B)
  <2>1. A = B BY <1>2 DEF CallsOf, InCall
  <2> QED BY <2>1
<1>3. ASSUME Client[r] \in ks, ~InCall(q, r), InCall(next, r)
      PROVE  Cardinality(A) = Cardinality(B) + 1
  <2>1. A = B \cup {r} /\ r \notin B BY <1>3 DEF CallsOf, InCall
  <2> HIDE DEF A, B
  <2> QED BY <1>1, <2>1, FS_AddElement
<1>4. ASSUME Client[r] \in ks, InCall(q, r), ~InCall(next, r)
      PROVE  Cardinality(A) = Cardinality(B) - 1
  <2>1. A = B \ {r} /\ r \in B BY <1>4 DEF CallsOf, InCall
  <2> HIDE DEF A, B
  <2> QED BY <1>1, <2>1, FS_RemoveElement
<1> QED BY <1>2, <1>3, <1>4

\* The three cases of CallMoves one by one.
LEMMA CallBegins ==
  ASSUME NEW q, NEW next, NEW r \in Requests, NEW ks,
         \A s \in Requests \ {r} : next[s] = q[s],
         Client[r] \in ks, ~InCall(q, r), InCall(next, r)
  PROVE  Cardinality(CallsOf(next, ks)) = Cardinality(CallsOf(q, ks)) + 1
BY CallMoves

\* A call that ends lowers the count of its client's calls by one.
LEMMA CallEnds ==
  ASSUME NEW q, NEW next, NEW r \in Requests, NEW ks,
         \A s \in Requests \ {r} : next[s] = q[s],
         Client[r] \in ks, InCall(q, r), ~InCall(next, r)
  PROVE  Cardinality(CallsOf(next, ks)) = Cardinality(CallsOf(q, ks)) - 1
BY CallMoves

\* A step that neither begins nor ends a call of these clients keeps their count.
LEMMA CallStays ==
  ASSUME NEW q, NEW next, NEW r \in Requests, NEW ks,
         \A s \in Requests \ {r} : next[s] = q[s],
         Client[r] \notin ks \/ (InCall(q, r) <=> InCall(next, r))
  PROVE  Cardinality(CallsOf(next, ks)) = Cardinality(CallsOf(q, ks))
BY CallMoves

\* With no request the invariant holds.
LEMMA InitRpcInv == RpcInit => RpcInv
<1> SUFFICES ASSUME RpcInit PROVE RpcInv OBVIOUS
<1> USE DEF RpcInit
<1>1. HealthInv BY InitHealthInv
<1>2. \A ks : CallsOf(requests, ks) = {} BY DEF CallsOf
<1>3. \A ks : Cardinality(CallsOf(requests, ks)) = 0 BY <1>2, FS_EmptySet
<1>4. SlotsFit BY <1>3, RpcAssumption DEF SlotsFit
<1> QED BY <1>1, <1>4 DEF RpcInv

\* The counters stay exact when request r becomes q and the slot it holds, or does
\* not hold, changes with it.
LEMMA SlotStep ==
  ASSUME RpcInv, NEW r \in Requests, NEW q \in Request \cup {None},
         requests' = [requests EXCEPT ![r] = q],
         \/ /\ ~InCall(requests, r) /\ q # None /\ q.calling
            /\ SlotFree(r) /\ AcquireSlot(r)
         \/ /\ InCall(requests, r) /\ (q # None => ~q.calling)
            /\ ReleaseSlot(r)
         \/ /\ ~InCall(requests, r) /\ (q # None => ~q.calling)
            /\ UNCHANGED <<activeRpcCalls, activeRpcCallsByClient>>
  PROVE  requests' \in [Requests -> Request \cup {None}] /\ SlotsFit'
<1> DEFINE k == Client[r]
<1> DEFINE all == Cardinality(CallsOf(requests, Clients))
<1> DEFINE mine == Cardinality(CallsOf(requests, {k}))
<1> DEFINE next == requests'
<1> DEFINE allNow == Cardinality(CallsOf(next, Clients))
<1> DEFINE mineNow == Cardinality(CallsOf(next, {k}))
<1>1. next \in [Requests -> Request \cup {None}] BY DEF RpcInv
<1>2. next[r] = q /\ \A s \in Requests \ {r} : next[s] = requests[s]
  BY DEF RpcInv
<1>3. /\ k \in Clients /\ k \in {k} /\ all \in Nat /\ mine \in Nat
      /\ MaxConcurrent \in Nat /\ MaxConcurrentPerClient \in Nat
  BY RpcAssumption, CountCalls
<1>4. /\ activeRpcCalls = all /\ activeRpcCallsByClient[k] = mine
      /\ all <= MaxConcurrent /\ mine <= MaxConcurrentPerClient
      /\ activeRpcCallsByClient \in [Clients -> Nat]
  BY <1>3 DEF RpcInv, SlotsFit
<1> HIDE DEF next
<1>5. \A j \in Clients \ {k} :
        /\ Cardinality(CallsOf(next, {j})) = Cardinality(CallsOf(requests, {j}))
        /\ activeRpcCallsByClient[j] = Cardinality(CallsOf(requests, {j}))
        /\ activeRpcCallsByClient[j] <= MaxConcurrentPerClient
  <2> TAKE j \in Clients \ {k}
  <2>1. Client[r] \notin {j} OBVIOUS
  <2>2. Cardinality(CallsOf(next, {j})) = Cardinality(CallsOf(requests, {j}))
    BY <1>2, <2>1, CallStays
  <2> QED BY <2>2 DEF RpcInv, SlotsFit
\* The counters after the step, however they have changed.
<1>6. ASSUME activeRpcCalls' = allNow, allNow <= MaxConcurrent,
             activeRpcCallsByClient' \in [Clients -> Nat],
             activeRpcCallsByClient'[k] = mineNow, mineNow <= MaxConcurrentPerClient,
             \A j \in Clients \ {k} : activeRpcCallsByClient'[j] = activeRpcCallsByClient[j]
      PROVE  SlotsFit'
  BY <1>5, <1>6 DEF SlotsFit, next
<1>7. ASSUME ~InCall(requests, r), q # None, q.calling, SlotFree(r), AcquireSlot(r)
      PROVE  SlotsFit'
  <2>1. InCall(next, r) BY <1>2, <1>7 DEF InCall
  <2>2. allNow = all + 1 BY <1>2, <1>3, <1>7, <2>1, CallBegins
  <2>3. mineNow = mine + 1 BY <1>2, <1>3, <1>7, <2>1, CallBegins
  <2>4. /\ activeRpcCalls' = activeRpcCalls + 1 /\ activeRpcCalls < MaxConcurrent
        /\ activeRpcCallsByClient[k] < MaxConcurrentPerClient
        /\ activeRpcCallsByClient' = [activeRpcCallsByClient EXCEPT ![k] = @ + 1]
    BY <1>7 DEF SlotFree, AcquireSlot
  <2> HIDE DEF k, all, mine, allNow, mineNow
  <2>5. /\ activeRpcCallsByClient' \in [Clients -> Nat] /\ activeRpcCallsByClient'[k] = mineNow
        /\ mineNow <= MaxConcurrentPerClient
        /\ \A j \in Clients \ {k} : activeRpcCallsByClient'[j] = activeRpcCallsByClient[j]
    BY <1>3, <1>4, <2>3, <2>4
  <2>6. activeRpcCalls' = allNow /\ allNow <= MaxConcurrent BY <1>3, <1>4, <2>2, <2>4
  <2> QED BY <1>6, <2>5, <2>6
<1>8. ASSUME InCall(requests, r), q # None => ~q.calling, ReleaseSlot(r)
      PROVE  SlotsFit'
  <2>1. ~InCall(next, r) BY <1>2, <1>8 DEF InCall
  <2>2. allNow = all - 1 BY <1>2, <1>3, <1>8, <2>1, CallEnds
  <2>3. mineNow = mine - 1 BY <1>2, <1>3, <1>8, <2>1, CallEnds
  <2>4. allNow \in Nat /\ mineNow \in Nat BY CountCalls
  <2>5. /\ activeRpcCalls' = activeRpcCalls - 1
        /\ activeRpcCallsByClient' = [activeRpcCallsByClient EXCEPT ![k] = @ - 1]
    BY <1>8 DEF ReleaseSlot
  <2> HIDE DEF k, all, mine, allNow, mineNow
  <2>6. /\ activeRpcCallsByClient' \in [Clients -> Nat] /\ activeRpcCallsByClient'[k] = mineNow
        /\ mineNow <= MaxConcurrentPerClient
        /\ \A j \in Clients \ {k} : activeRpcCallsByClient'[j] = activeRpcCallsByClient[j]
    BY <1>3, <1>4, <2>3, <2>4, <2>5
  <2>7. activeRpcCalls' = allNow /\ allNow <= MaxConcurrent BY <1>3, <1>4, <2>2, <2>5
  <2> QED BY <1>6, <2>6, <2>7
<1>9. ASSUME ~InCall(requests, r), q # None => ~q.calling,
             UNCHANGED <<activeRpcCalls, activeRpcCallsByClient>>
      PROVE  SlotsFit'
  <2>1. ~InCall(next, r) BY <1>2, <1>9 DEF InCall
  <2>2. allNow = all /\ mineNow = mine BY <1>2, <1>9, <2>1, CallStays
  <2> HIDE DEF k, all, mine, allNow, mineNow
  <2> QED BY <1>4, <1>6, <1>9, <2>2
<1> QED BY <1>1, <1>7, <1>8, <1>9 DEF next

\* An attempt takes a slot or ends the request.
LEMMA AttemptStep ==
  ASSUME RpcInv, NEW r \in Requests, ~InCall(requests, r), NEW method \in Methods,
         NEW order \in UNION {[1 .. n -> Endpoints] : n \in 1 .. 2},
         Attempt(r, method, order)
  PROVE  requests' \in [Requests -> Request \cup {None}] /\ SlotsFit'
<1> DEFINE q == [method |-> method, order |-> order, calling |-> TRUE]
<1>1. q \in Request /\ q.calling BY DEF Request
<1>2. q # None BY <1>1, NoneIsNoRequest
<1> HIDE DEF q
<1>3. CASE SlotFree(r) /\ AcquireSlot(r) /\ requests' = [requests EXCEPT ![r] = q]
  BY <1>1, <1>2, <1>3, SlotStep
<1>4. CASE /\ ~SlotFree(r) /\ requests' = [requests EXCEPT ![r] = None]
           /\ UNCHANGED <<activeRpcCalls, activeRpcCallsByClient>>
  <2> DEFINE n == None
  <2>1. n \in Request \cup {None} /\ (n # None => ~n.calling) OBVIOUS
  <2>2. requests' = [requests EXCEPT ![r] = n] BY <1>4
  <2> HIDE DEF n
  <2> QED BY <1>4, <2>1, <2>2, SlotStep
<1> QED BY <1>3, <1>4 DEF Attempt, q

\* Every attempt order has one endpoint or two.
LEMMA OrdersFit ==
  ASSUME NEW method \in Methods, NEW order \in Orders(method)
  PROVE  order \in UNION {[1 .. n -> Endpoints] : n \in 1 .. 2}
<1>1. ReadyEndpoints \subseteq Endpoints BY DEF ReadyEndpoints, FreshEndpoints
<1>2. \/ \E e \in Endpoints : order = <<e>>
      \/ \E e, f \in Endpoints : order = <<e, f>>
  BY <1>1 DEF Orders
<1>3. ASSUME NEW e \in Endpoints, order = <<e>> PROVE order \in [1 .. 1 -> Endpoints]
  BY <1>3
<1>4. ASSUME NEW e \in Endpoints, NEW f \in Endpoints, order = <<e, f>>
      PROVE  order \in [1 .. 2 -> Endpoints]
  BY <1>4
<1>5. 1 \in 1 .. 2 /\ 2 \in 1 .. 2 OBVIOUS
<1> QED BY <1>2, <1>3, <1>4, <1>5

\* What a failed call leaves of a request still has an endpoint to call.
LEMMA FailedFits ==
  ASSUME NEW q \in Request
  PROVE  /\ Failed(q) \in Request \cup {None}
         /\ Failed(q) # None => ~Failed(q).calling
<1>1. PICK n \in 1 .. 2 : q.order \in [1 .. n -> Endpoints] BY DEF Request
<1>2. q.order \in Seq(Endpoints) /\ Len(q.order) = n BY <1>1
<1>3. CASE n = 1 BY <1>2, <1>3 DEF Failed
<1>4. CASE n = 2
  <2> DEFINE rest == Tail(q.order)
  <2>0. Len(q.order) = 2 BY <1>2, <1>4
  <2>1. rest \in [1 .. 1 -> Endpoints]
    <3>1. q.order # <<>> BY <2>0
    <3>2. rest \in Seq(Endpoints) /\ Len(rest) = 1
      BY <1>2, <2>0, <3>1, HeadTailProperties
    <3> HIDE DEF rest
    <3> QED BY <3>2
  <2>2. Failed(q) = [q EXCEPT !.order = rest, !.calling = FALSE] BY <1>2, <1>4 DEF Failed
  <2>3. rest \in UNION {[1 .. m -> Endpoints] : m \in 1 .. 2}
    <3>1. 1 \in 1 .. 2 OBVIOUS
    <3> QED BY <2>1, <3>1
  <2> HIDE DEF rest
  <2> QED BY <2>2, <2>3 DEF Request
<1> QED BY <1>3, <1>4

\* Every step of the RPC service keeps the invariant.
LEMMA NextRpcInv == RpcInv /\ [RpcNext]_allVars => RpcInv'
<1> SUFFICES ASSUME RpcInv, [RpcNext]_allVars PROVE RpcInv' OBVIOUS
<1>0. ASSUME UNCHANGED healthVars PROVE HealthInv'
  BY <1>0, NextHealthInv DEF RpcInv
<1>1. ASSUME UNCHANGED <<requests, activeRpcCalls, activeRpcCallsByClient>>
      PROVE  SlotsFit'
  BY <1>1 DEF RpcInv, SlotsFit, CallsOf
<1>2. ASSUME NEW r \in Requests, NEW method \in Methods, StartRequest(r, method)
      PROVE  RpcInv'
  <2>1. PICK order \in Orders(method) : Attempt(r, method, order)
    BY <1>2 DEF StartRequest
  <2>2. ~InCall(requests, r) BY <1>2 DEF StartRequest, InCall
  <2>3. order \in UNION {[1 .. n -> Endpoints] : n \in 1 .. 2} BY OrdersFit
  <2>4. requests' \in [Requests -> Request \cup {None}] /\ SlotsFit'
    BY <2>1, <2>2, <2>3, AttemptStep
  <2> QED BY <1>0, <1>2, <2>4 DEF RpcInv, StartRequest
<1>3. ASSUME NEW r \in Requests, NEW hasResult \in BOOLEAN, CallSucceeds(r, hasResult)
      PROVE  RpcInv'
  <2> DEFINE n == None
  <2>1. /\ InCall(requests, r) /\ ReleaseSlot(r)
        /\ requests' = [requests EXCEPT ![r] = n]
        /\ cached' = (cached \/ (hasResult /\ requests[r].method = "cacheable"))
        /\ UNCHANGED healthVars
    BY <1>3 DEF CallSucceeds, InCall
  <2>2. n \in Request \cup {None} /\ (n # None => ~n.calling) OBVIOUS
  <2> HIDE DEF n
  <2>3. requests' \in [Requests -> Request \cup {None}] /\ SlotsFit'
    BY <2>1, <2>2, SlotStep
  <2>4. cached' \in BOOLEAN BY <2>1 DEF RpcInv
  <2> QED BY <1>0, <2>1, <2>3, <2>4 DEF RpcInv
<1>4. ASSUME NEW r \in Requests, CallFails(r) PROVE RpcInv'
  <2> DEFINE n == Failed(requests[r])
  <2>1. /\ InCall(requests, r) /\ ReleaseSlot(r)
        /\ requests' = [requests EXCEPT ![r] = n]
        /\ UNCHANGED <<healthVars, cached>>
    BY <1>4 DEF CallFails, InCall
  <2>2. requests[r] \in Request BY <1>4 DEF RpcInv, CallFails
  <2>3. n \in Request \cup {None} /\ (n # None => ~n.calling) BY <2>2, FailedFits
  <2> HIDE DEF n
  <2>4. requests' \in [Requests -> Request \cup {None}] /\ SlotsFit'
    BY <2>1, <2>3, SlotStep
  <2> QED BY <1>0, <2>1, <2>4 DEF RpcInv
<1>5. ASSUME NEW r \in Requests, NextAttempt(r) PROVE RpcInv'
  <2>1. requests[r] \in Request /\ ~InCall(requests, r)
    BY <1>5 DEF RpcInv, NextAttempt, InCall
  <2>2. /\ requests[r].method \in Methods
        /\ requests[r].order \in UNION {[1 .. n -> Endpoints] : n \in 1 .. 2}
    BY <2>1 DEF Request
  <2>3. Attempt(r, requests[r].method, requests[r].order) BY <1>5 DEF NextAttempt
  <2>4. requests' \in [Requests -> Request \cup {None}] /\ SlotsFit'
    BY <2>1, <2>2, <2>3, AttemptStep
  <2> QED BY <1>0, <1>5, <2>4 DEF RpcInv, NextAttempt
<1>6. CASE CacheExpires BY <1>0, <1>1, <1>6 DEF RpcInv, CacheExpires
<1>7. CASE Monitor
  <2>1. HealthInv' BY <1>7, NextHealthInv DEF RpcInv, Monitor
  <2> QED BY <1>1, <1>7, <2>1 DEF RpcInv, Monitor, rpcVars
<1>8. CASE UNCHANGED allVars BY <1>0, <1>1, <1>8 DEF RpcInv, allVars, rpcVars
<1> QED BY <1>2, <1>3, <1>4, <1>5, <1>6, <1>7, <1>8 DEF RpcNext

\* The invariant says what the runs check.
LEMMA RpcInvImplies == RpcInv => RpcTypeOK /\ SlotsAreExact
<1> SUFFICES ASSUME RpcInv PROVE RpcTypeOK /\ SlotsAreExact OBVIOUS
<1>1. Calling = CallsOf(requests, Clients) BY RpcAssumption DEF Calling, CallsOf
<1>2. \A k : {r \in Calling : Client[r] = k} = CallsOf(requests, {k}) BY DEF Calling, CallsOf
<1>3. SlotsAreExact BY <1>1, <1>2 DEF SlotsAreExact, RpcInv, SlotsFit
<1>4. activeRpcCalls \in Nat BY CountCalls DEF RpcInv, SlotsFit
<1>5. RpcTypeOK BY <1>4 DEF RpcTypeOK, RpcInv, SlotsFit, HealthInv
<1> QED BY <1>3, <1>5

\* Every reachable state satisfies the invariant.
LEMMA RpcInvariance == RpcSpec => []RpcInv
BY InitRpcInv, NextRpcInv, PTL DEF RpcSpec

-----------------------------------------------------------------------------
(* Failover *)

\* A request that is about to fail over has one endpoint left, and a request that
\* still has two has two different ones.
OneLeft(q) ==
  q # None =>
    /\ ~q.calling => Len(q.order) = 1
    /\ Len(q.order) = 2 => q.order[1] # q.order[2]

FailoverInv == RpcInv /\ \A r \in Requests : OneLeft(requests[r])

\* What OnlyFailoverIsStale says of a request before and after a step.
FailsOverOnce(before, after) ==
  /\ after # None /\ after.calling /\ before = None =>
       \A i \in DOMAIN after.order :
         /\ after.order[i] \in ReadyEndpoints
         /\ Pinned => endpoints[after.order[i]].consecutiveFailures = 0
  /\ after # None /\ after.calling /\ before # None /\ ~before.calling =>
       after.order = before.order /\ Len(after.order) = 1
  /\ before # None /\ before.calling /\ after # None /\ ~after.calling =>
       after.order = Tail(before.order) /\ Head(after.order) # Head(before.order)

AllFailOverOnce == \A r \in Requests : FailsOverOnce(requests[r], requests'[r])

\* An attempt order is one ready endpoint or two different ones.
LEMMA OrdersAreReady ==
  ASSUME NEW method \in Methods, NEW order \in Orders(method)
  PROVE  /\ Len(order) = 2 => order[1] # order[2]
         /\ \A i \in DOMAIN order : order[i] \in ReadyEndpoints
<1>1. \/ \E e \in ReadyEndpoints : order = <<e>>
      \/ \E e, f \in ReadyEndpoints : e # f /\ order = <<e, f>>
  <2>1. CASE method = "primaryOnly" BY <2>1 DEF Orders
  <2>2. CASE method # "primaryOnly" /\ Cardinality(ReadyEndpoints) = 1
    BY <2>2 DEF Orders
  <2>3. CASE method # "primaryOnly" /\ Cardinality(ReadyEndpoints) # 1
    <3>1. /\ order \in {<<e, f>> : e, f \in ReadyEndpoints}
          /\ order \notin {<<e, e>> : e \in ReadyEndpoints}
      BY <2>3 DEF Orders
    <3>2. PICK e \in ReadyEndpoints, f \in ReadyEndpoints : order = <<e, f>> BY <3>1
    <3>3. e # f BY <3>1, <3>2
    <3> QED BY <3>2, <3>3
  <2> QED BY <2>1, <2>2, <2>3
<1>2. ASSUME NEW e \in ReadyEndpoints, order = <<e>>
      PROVE  Len(order) = 1 /\ \A i \in DOMAIN order : order[i] \in ReadyEndpoints
  BY <1>2
<1>3. ASSUME NEW e \in ReadyEndpoints, NEW f \in ReadyEndpoints, e # f, order = <<e, f>>
      PROVE  /\ order[1] # order[2]
             /\ \A i \in DOMAIN order : order[i] \in ReadyEndpoints
  BY <1>3
<1> QED BY <1>1, <1>2, <1>3

\* After a failed call there is the second endpoint or nothing.
LEMMA FailedLeavesOne ==
  ASSUME NEW q \in Request, OneLeft(q), Failed(q) # None
  PROVE  /\ Failed(q).order = Tail(q.order) /\ Len(Failed(q).order) = 1
         /\ Head(Failed(q).order) # Head(q.order)
<1>1. PICK n \in 1 .. 2 : q.order \in [1 .. n -> Endpoints] BY DEF Request
<1>2. q.order \in Seq(Endpoints) /\ Len(q.order) = n BY <1>1
<1>3. n = 2 BY <1>2 DEF Failed
<1>4. Failed(q) = [q EXCEPT !.order = Tail(q.order), !.calling = FALSE]
  BY <1>2, <1>3 DEF Failed
<1>5. Failed(q).order = Tail(q.order) BY <1>4 DEF Request
<1>6. /\ Len(Tail(q.order)) = 1 /\ Head(q.order) = q.order[1]
      /\ Head(Tail(q.order)) = q.order[2]
  BY <1>2, <1>3
<1>7. q.order[1] # q.order[2] BY <1>2, <1>3, NoneIsNoRequest DEF OneLeft
<1> QED BY <1>5, <1>6, <1>7

\* It is enough to look at the request that changes.
LEMMA OneRequestMoves ==
  ASSUME FailoverInv, NEW r \in Requests, NEW q, requests' = [requests EXCEPT ![r] = q],
         OneLeft(q), FailsOverOnce(requests[r], q)
  PROVE  (\A s \in Requests : OneLeft(requests[s])') /\ AllFailOverOnce
<1>1. requests'[r] = q /\ \A s \in Requests \ {r} : requests'[s] = requests[s]
  BY DEF FailoverInv, RpcInv
<1>2. \A s \in Requests : OneLeft(requests'[s]) BY <1>1 DEF FailoverInv
<1>3. \A s \in Requests \ {r} : FailsOverOnce(requests[s], requests'[s])
  BY <1>1 DEF FailsOverOnce
<1> QED BY <1>1, <1>2, <1>3 DEF AllFailOverOnce, OneLeft

\* An attempt, granted or refused, is such a move.
LEMMA AttemptMoves ==
  ASSUME FailoverInv, NEW r \in Requests, NEW method \in Methods, NEW order,
         Attempt(r, method, order), Len(order) = 2 => order[1] # order[2],
         FailsOverOnce(requests[r], [method |-> method, order |-> order, calling |-> TRUE])
  PROVE  (\A s \in Requests : OneLeft(requests[s])') /\ AllFailOverOnce
<1> DEFINE q == [method |-> method, order |-> order, calling |-> TRUE]
<1>1. CASE requests' = [requests EXCEPT ![r] = q]
  <2>1. OneLeft(q) BY DEF OneLeft
  <2>2. FailsOverOnce(requests[r], q) OBVIOUS
  <2> HIDE DEF q
  <2> QED BY <1>1, <2>1, <2>2, OneRequestMoves
<1>2. CASE requests' = [requests EXCEPT ![r] = None]
  <2>1. OneLeft(None) /\ FailsOverOnce(requests[r], None) BY DEF OneLeft, FailsOverOnce
  <2> QED BY <1>2, <2>1, OneRequestMoves
<1> QED BY <1>1, <1>2 DEF Attempt

\* Every step of the proxy calls only as OnlyFailoverIsStale allows.
LEMMA NextFailoverInv ==
  FailoverInv /\ [RpcNext]_allVars => FailoverInv' /\ AllFailOverOnce
<1> SUFFICES ASSUME FailoverInv, [RpcNext]_allVars
             PROVE  (\A s \in Requests : OneLeft(requests[s])') /\ AllFailOverOnce
  BY NextRpcInv DEF FailoverInv
<1>1. ASSUME UNCHANGED requests
      PROVE  (\A s \in Requests : OneLeft(requests[s])') /\ AllFailOverOnce
  BY <1>1 DEF FailoverInv, OneLeft, AllFailOverOnce, FailsOverOnce
<1>2. ASSUME NEW r \in Requests, NEW method \in Methods, StartRequest(r, method)
      PROVE  (\A s \in Requests : OneLeft(requests[s])') /\ AllFailOverOnce
  <2>1. PICK order \in Orders(method) : Attempt(r, method, order)
    BY <1>2 DEF StartRequest
  <2>2. requests[r] = None BY <1>2 DEF StartRequest
  <2>3. /\ Len(order) = 2 => order[1] # order[2]
        /\ \A i \in DOMAIN order : order[i] \in ReadyEndpoints
    BY OrdersAreReady
  <2>4. FailsOverOnce(requests[r], [method |-> method, order |-> order, calling |-> TRUE])
    BY <2>2, <2>3, HealthInvImplies DEF FailsOverOnce, Unrevoked, FailoverInv, RpcInv
  <2> QED BY <2>1, <2>3, <2>4, AttemptMoves
<1>3. ASSUME NEW r \in Requests, NEW hasResult \in BOOLEAN, CallSucceeds(r, hasResult)
      PROVE  (\A s \in Requests : OneLeft(requests[s])') /\ AllFailOverOnce
  <2>1. OneLeft(None) /\ FailsOverOnce(requests[r], None) BY DEF OneLeft, FailsOverOnce
  <2> QED BY <1>3, <2>1, OneRequestMoves DEF CallSucceeds
<1>4. ASSUME NEW r \in Requests, CallFails(r)
      PROVE  (\A s \in Requests : OneLeft(requests[s])') /\ AllFailOverOnce
  <2> DEFINE n == Failed(requests[r])
  <2>1. /\ requests[r] \in Request /\ OneLeft(requests[r])
        /\ requests[r] # None /\ requests[r].calling
        /\ requests' = [requests EXCEPT ![r] = n]
    BY <1>4 DEF FailoverInv, RpcInv, CallFails
  <2>2. n # None => ~n.calling BY <2>1, FailedFits
  <2>3. n # None => /\ n.order = Tail(requests[r].order) /\ Len(n.order) = 1
                    /\ Head(n.order) # Head(requests[r].order)
    BY <2>1, FailedLeavesOne
  <2> HIDE DEF n
  <2>4. OneLeft(n) BY <2>2, <2>3 DEF OneLeft
  <2>5. FailsOverOnce(requests[r], n) BY <2>1, <2>2, <2>3 DEF FailsOverOnce
  <2> QED BY <2>1, <2>4, <2>5, OneRequestMoves
<1>5. ASSUME NEW r \in Requests, NextAttempt(r)
      PROVE  (\A s \in Requests : OneLeft(requests[s])') /\ AllFailOverOnce
  <2> DEFINE m == requests[r].method
             o == requests[r].order
  <2>1. /\ requests[r] \in Request /\ OneLeft(requests[r])
        /\ requests[r] # None /\ ~requests[r].calling
        /\ Attempt(r, m, o)
    BY <1>5 DEF FailoverInv, RpcInv, NextAttempt
  <2>2. m \in Methods BY <2>1 DEF Request
  <2>3. Len(o) = 1 BY <2>1 DEF OneLeft
  <2>4. FailsOverOnce(requests[r], [method |-> m, order |-> o, calling |-> TRUE])
    BY <2>1, <2>3 DEF FailsOverOnce
  <2> HIDE DEF m, o
  <2> QED BY <2>1, <2>2, <2>3, <2>4, AttemptMoves
<1>6. CASE CacheExpires BY <1>1, <1>6 DEF CacheExpires
<1>7. CASE Monitor BY <1>1, <1>7 DEF Monitor, rpcVars
<1>8. CASE UNCHANGED allVars BY <1>1, <1>8 DEF allVars, rpcVars
<1> QED BY <1>2, <1>3, <1>4, <1>5, <1>6, <1>7, <1>8 DEF RpcNext

-----------------------------------------------------------------------------
(* The theorems *)

\* healthMonitor.ts: records, polls and the re-entrancy guard keep their types, and
\* the guard is set exactly while a round of polls is in progress.
THEOREM HealthTyped == HealthSpec => []HealthTypeOK
BY HealthInvariance, HealthInvImplies, PTL

\* pollAll: the polls of one endpoint never overlap.
THEOREM OnePollPerEndpointHolds == HealthSpec => []OnePollPerEndpoint
BY HealthInvariance, HealthInvImplies, PTL

\* applyPollSuccess: an endpoint that is up had its head advance within
\* STALL_AFTER_MS of its last successful poll.
THEOREM UpMeansProgressHolds == HealthSpec => []UpMeansProgress
BY HealthInvariance, HealthInvImplies, PTL

\* readyEndpointsForAttempt: some endpoint is ready as long as one is fresh, and
\* those that are lie within the allowed lag of the highest fresh head.
THEOREM BestHeadIsReadyHolds == HealthSpec => []BestHeadIsReady
BY HealthInvariance, HealthInvImplies, PTL

\* What the monitor promises about polls and readiness holds while the proxy serves
\* requests: no step of executeRPC or makeRPCCall touches its records.  What the
\* proxy makes of the readiness it has read is OnlyFailoverIsStaleHolds.
THEOREM MonitorKeepsItsPromises ==
  RpcSpec => [](OnePollPerEndpoint /\ UpMeansProgress /\ BestHeadIsReady)
<1>1. RpcInv => OnePollPerEndpoint /\ UpMeansProgress /\ BestHeadIsReady
  BY HealthInvImplies DEF RpcInv
<1> QED BY <1>1, RpcInvariance, PTL

\* executeRPC: a request in progress always has one or two endpoints left to call.
THEOREM RpcTyped == RpcSpec => []RpcTypeOK
BY RpcInvariance, RpcInvImplies, PTL

\* acquireRpcCallSlot and its release: the counters are the calls in flight, in
\* total and per client, and within their limits.
THEOREM SlotsAreExactHolds == RpcSpec => []SlotsAreExact
BY RpcInvariance, RpcInvImplies, PTL

\* executeRPC: a first call goes to an endpoint that is ready and, bound to an
\* identity, has not failed its last poll; only the second and last may go to one
\* that has since, and it is another endpoint than the first.
THEOREM OnlyFailoverIsStaleHolds == RpcSpec => OnlyFailoverIsStale
<1>1. RpcInit => FailoverInv
  BY InitRpcInv DEF FailoverInv, OneLeft, RpcInit
<1>2. FailoverInv /\ [RpcNext]_allVars =>
        [\A r \in Requests :
           LET before == requests[r]
               after == requests'[r]
           IN  /\ BeginsCall(r) /\ before = None =>
                    \A i \in DOMAIN after.order :
                      /\ after.order[i] \in ReadyEndpoints
                      /\ Pinned => endpoints[after.order[i]].consecutiveFailures = 0
               /\ BeginsCall(r) /\ before # None =>
                    after.order = before.order /\ Len(after.order) = 1
               /\ before # None /\ before.calling /\ after # None /\ ~after.calling =>
                    after.order = Tail(before.order) /\ Head(after.order) # Head(before.order)
        ]_allVars
  BY NextFailoverInv DEF AllFailOverOnce, FailsOverOnce, BeginsCall
<1> QED BY <1>1, <1>2, NextFailoverInv, PTL DEF RpcSpec, OnlyFailoverIsStale

=============================================================================
