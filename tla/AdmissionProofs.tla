-------------------------- MODULE AdmissionProofs ---------------------------
(***************************************************************************)
(* Proofs about the relay's admission control and the fixed-window limiter *)
(* it is built on, for every number of sessions and addresses, every cap,  *)
(* every limit and every window: bursts are bounded, an address is refused *)
(* only once it has had its quota, the counters are exact, the caps hold,  *)
(* and the rate limits behave as the limiter on its own.                   *)
(***************************************************************************)
EXTENDS AdmissionControl, SequenceTheorems, FiniteSetTheorems, TLAPS

-----------------------------------------------------------------------------
(* The inductive invariant *)

\* The last grants of g, as many as entry counts for a bucket of this limit, are
\* those of entry's window; the others are of windows that were over before it
\* started.
Spent(entry, bucket) ==
  IF entry.counts[bucket] <= Limit[bucket] THEN entry.counts[bucket] ELSE Limit[bucket]

Fits(g, entry, bucket) ==
  /\ Spent(entry, bucket) <= Len(g)
  /\ \A i \in 1 .. Len(g) :
       IF i > Len(g) - Spent(entry, bucket) THEN g[i].resetAt = entry.resetAt
       ELSE g[i].resetAt + Window < entry.resetAt

\* A grant lies in its window, which is RATE_LIMIT_WINDOW_MS long.
Timely(g, time) ==
  \A i \in 1 .. Len(g) :
    g[i].at <= time /\ g[i].at <= g[i].resetAt /\ g[i].resetAt <= g[i].at + Window

\* Of limit + 1 grants the last is of a later window than the first, one that
\* started when the first was over.
Spread(g, limit) ==
  \A i \in 1 .. Len(g) : i + limit <= Len(g) => g[i].resetAt + Window < g[i + limit].resetAt

\* All grants are of windows that are over.
AllOver(g, time) == \A i \in 1 .. Len(g) : g[i].resetAt < time

HistoryFits(o) ==
  IF rateLimits[o[1]] = None THEN AllOver(grants[o], clock)
  ELSE Fits(grants[o], rateLimits[o[1]], o[2])

LimiterInv ==
  /\ LimiterTypeOK
  /\ \A ip \in Ips : rateLimits[ip] # None => rateLimits[ip].resetAt <= clock + Window
  /\ \A o \in Observed :
       /\ Timely(grants[o], clock)
       /\ Spread(grants[o], Limit[o[2]])
       /\ HistoryFits(o)

-----------------------------------------------------------------------------
(* One step of the limiter, for the history g of one address and bucket *)

\* The constants of the limiter are numbers and pairs, as its assumption says.
LEMMA ConstantsTyped ==
  /\ Window \in Nat /\ MaxClock \in Nat
  /\ \A bucket \in Buckets : Limit[bucket] \in Nat /\ Limit[bucket] > 0
  /\ \A o \in Observed : o[1] \in Ips /\ o[2] \in Buckets /\ o = <<o[1], o[2]>>
BY LimiterAssumption

\* A history that fits an entry is over when the entry is.
LEMMA OverWithEntry ==
  ASSUME NEW g \in Seq(Grant), NEW entry \in RateLimitEntry, NEW bucket \in Buckets,
         NEW time \in Nat, Fits(g, entry, bucket), time > entry.resetAt
  PROVE  AllOver(g, time)
<1>1. entry.resetAt \in Nat BY DEF RateLimitEntry
<1> SUFFICES ASSUME NEW i \in 1 .. Len(g) PROVE g[i].resetAt < time BY DEF AllOver
<1>2. g[i] \in Grant OBVIOUS
<1>3. g[i].resetAt \in Nat BY <1>2 DEF Grant
<1>4. g[i].resetAt <= entry.resetAt BY <1>1, <1>3, ConstantsTyped DEF Fits
<1> QED BY <1>1, <1>3, <1>4

\* An entry made now fits a history that is over.
LEMMA NewEntryFits ==
  ASSUME NEW g \in Seq(Grant), NEW bucket \in Buckets, clock \in Nat, AllOver(g, clock)
  PROVE  Fits(g, NewEntry, bucket)
<1>1. NewEntry.resetAt = clock + Window /\ Spent(NewEntry, bucket) = 0
  BY ConstantsTyped DEF NewEntry, Spent
<1>2. Len(g) \in Nat /\ \A i \in 1 .. Len(g) : g[i] \in Grant OBVIOUS
<1>3. \A i \in 1 .. Len(g) : g[i].resetAt \in Nat BY <1>2 DEF Grant
<1> QED BY <1>1, <1>2, <1>3, ConstantsTyped DEF Fits, AllOver

\* Counting an event that is let through and appending its grant.
LEMMA AppendFits ==
  ASSUME NEW g \in Seq(Grant), NEW entry \in RateLimitEntry, NEW counted \in RateLimitEntry,
         NEW bucket \in Buckets, NEW time \in Nat, Fits(g, entry, bucket),
         counted.resetAt = entry.resetAt,
         counted.counts[bucket] = entry.counts[bucket] + 1,
         entry.counts[bucket] + 1 <= Limit[bucket]
  PROVE  Fits(Append(g, [at |-> time, resetAt |-> entry.resetAt]), counted, bucket)
<1> DEFINE new == [at |-> time, resetAt |-> entry.resetAt]
<1> DEFINE h == Append(g, new)
<1> DEFINE n == entry.counts[bucket]
<1>1. n \in Nat /\ entry.resetAt \in Nat /\ Limit[bucket] \in Nat
  BY ConstantsTyped DEF RateLimitEntry
<1>2. Spent(entry, bucket) = n /\ Spent(counted, bucket) = n + 1 BY <1>1 DEF Spent
<1>3. Len(g) \in Nat /\ Len(h) = Len(g) + 1 OBVIOUS
<1>4. \A i \in 1 .. Len(g) : h[i] = g[i] OBVIOUS
<1>5. h[Len(g) + 1].resetAt = entry.resetAt OBVIOUS
<1>6. n <= Len(g) BY <1>2 DEF Fits
<1> HIDE DEF h, n
<1>7. ASSUME NEW i \in 1 .. Len(h)
      PROVE  IF i > Len(h) - (n + 1) THEN h[i].resetAt = counted.resetAt
             ELSE h[i].resetAt + Window < counted.resetAt
  <2>1. CASE i = Len(g) + 1 BY <2>1, <1>1, <1>3, <1>5, <1>6
  <2>2. CASE i \in 1 .. Len(g)
    <3>1. h[i] = g[i] BY <2>2, <1>4
    <3>2. IF i > Len(g) - n THEN g[i].resetAt = entry.resetAt
          ELSE g[i].resetAt + Window < entry.resetAt BY <2>2, <1>2 DEF Fits
    <3>3. i > Len(h) - (n + 1) <=> i > Len(g) - n BY <1>1, <1>3
    <3> QED BY <3>1, <3>2, <3>3
  <2> QED BY <1>3, <2>1, <2>2
<1> QED BY <1>1, <1>2, <1>3, <1>6, <1>7 DEF Fits, h

\* A grant within the limit leaves grants that are a limit apart in windows apart.
LEMMA AppendSpread ==
  ASSUME NEW g \in Seq(Grant), NEW entry \in RateLimitEntry, NEW bucket \in Buckets,
         NEW time \in Nat, Fits(g, entry, bucket), Spread(g, Limit[bucket]),
         entry.counts[bucket] + 1 <= Limit[bucket]
  PROVE  Spread(Append(g, [at |-> time, resetAt |-> entry.resetAt]), Limit[bucket])
<1> DEFINE new == [at |-> time, resetAt |-> entry.resetAt]
<1> DEFINE h == Append(g, new)
<1> DEFINE n == entry.counts[bucket]
<1> DEFINE limit == Limit[bucket]
<1>1. n \in Nat /\ entry.resetAt \in Nat /\ limit \in Nat /\ limit > 0
  BY ConstantsTyped DEF RateLimitEntry
<1>2. Spent(entry, bucket) = n BY <1>1 DEF Spent
<1>3. Len(g) \in Nat /\ Len(h) = Len(g) + 1 OBVIOUS
<1>4. \A i \in 1 .. Len(g) : h[i] = g[i] OBVIOUS
<1>5. h[Len(g) + 1].resetAt = entry.resetAt OBVIOUS
<1>6. n + 1 <= limit OBVIOUS
<1>7. Spread(g, limit) OBVIOUS
<1> HIDE DEF h, n, limit
<1>8. ASSUME NEW i \in 1 .. Len(h), i + limit <= Len(h)
      PROVE  h[i].resetAt + Window < h[i + limit].resetAt
  <2>1. CASE i + limit = Len(g) + 1
    <3>1. i \in 1 .. Len(g) /\ ~(i > Len(g) - n) BY <2>1, <1>1, <1>3, <1>6
    <3>2. g[i].resetAt + Window < entry.resetAt BY <3>1, <1>2 DEF Fits
    <3> QED BY <2>1, <3>1, <3>2, <1>4, <1>5
  <2>2. CASE i + limit <= Len(g)
    <3>1. i \in 1 .. Len(g) /\ i + limit \in 1 .. Len(g) BY <2>2, <1>1, <1>3
    <3>2. g[i].resetAt + Window < g[i + limit].resetAt BY <3>1, <2>2, <1>7 DEF Spread
    <3> QED BY <3>1, <3>2, <1>4
  <2> QED BY <1>1, <1>3, <1>8, <2>1, <2>2
<1> QED BY <1>8 DEF Spread, h, limit

\* A grant made now, in a window that ends within one window length, is timely.
LEMMA AppendTimely ==
  ASSUME NEW g \in Seq(Grant), NEW new \in Grant, NEW time \in Nat, Timely(g, time),
         new.at = time, time <= new.resetAt, new.resetAt <= time + Window
  PROVE  Timely(Append(g, new), time)
<1> DEFINE h == Append(g, new)
<1>1. Len(g) \in Nat /\ Len(h) = Len(g) + 1 OBVIOUS
<1>2. \A i \in 1 .. Len(g) : h[i] = g[i] OBVIOUS
<1>3. h[Len(g) + 1] = new OBVIOUS
<1> HIDE DEF h
<1>4. ASSUME NEW i \in 1 .. Len(h)
      PROVE  h[i].at <= time /\ h[i].at <= h[i].resetAt /\ h[i].resetAt <= h[i].at + Window
  <2>1. CASE i = Len(g) + 1 BY <2>1, <1>3
  <2>2. CASE i \in 1 .. Len(g) BY <2>2, <1>2 DEF Timely
  <2> QED BY <1>1, <2>1, <2>2
<1> QED BY <1>4 DEF Timely, h

-----------------------------------------------------------------------------
(* The invariant is inductive *)

\* With no entry and no grant the invariant holds.
LEMMA LimiterInvInit == LimiterInit => LimiterInv
<1> SUFFICES ASSUME LimiterInit PROVE LimiterInv OBVIOUS
<1>1. LimiterTypeOK BY ConstantsTyped DEF LimiterInit, LimiterTypeOK
<1>2. ASSUME NEW o \in Observed
      PROVE  Timely(grants[o], clock) /\ Spread(grants[o], Limit[o[2]]) /\ HistoryFits(o)
  <2>1. grants[o] = << >> /\ rateLimits[o[1]] = None BY ConstantsTyped DEF LimiterInit
  <2>2. Len(<< >>) = 0 OBVIOUS
  <2> QED BY <2>1, <2>2 DEF Timely, Spread, HistoryFits, AllOver
<1> QED BY <1>1, <1>2 DEF LimiterInit, LimiterInv

\* The entry an event is counted in, whether it was there or is new.
LEMMA EntryFits ==
  ASSUME LimiterInv, NEW ip \in Ips
  PROVE  /\ Entry(ip) \in RateLimitEntry
         /\ clock <= Entry(ip).resetAt /\ Entry(ip).resetAt <= clock + Window
         /\ \A o \in Observed : o[1] = ip => Fits(grants[o], Entry(ip), o[2])
<1>1. clock \in Nat /\ rateLimits[ip] \in RateLimitEntry \cup {None}
  BY ConstantsTyped DEF LimiterInv, LimiterTypeOK
<1>2. CASE rateLimits[ip] = None \/ Over(ip)
  <2>1. Entry(ip) = NewEntry BY <1>2 DEF Entry
  <2>2. NewEntry \in RateLimitEntry /\ NewEntry.resetAt = clock + Window
    BY <1>1, ConstantsTyped DEF NewEntry, RateLimitEntry
  <2>3. ASSUME NEW o \in Observed, o[1] = ip PROVE Fits(grants[o], Entry(ip), o[2])
    <3>1. grants[o] \in Seq(Grant) BY DEF LimiterInv, LimiterTypeOK
    <3>2. HistoryFits(o) BY DEF LimiterInv
    <3>3. AllOver(grants[o], clock)
      <4>1. CASE rateLimits[ip] = None BY <4>1, <2>3, <3>2 DEF HistoryFits
      <4>2. CASE rateLimits[ip] # None /\ Over(ip)
        <5>1. Fits(grants[o], rateLimits[ip], o[2]) BY <4>2, <2>3, <3>2 DEF HistoryFits
        <5>2. clock > rateLimits[ip].resetAt BY <4>2 DEF Over
        <5> QED BY <1>1, <3>1, <4>2, <5>1, <5>2, OverWithEntry, ConstantsTyped
      <4> QED BY <1>2, <4>1, <4>2
    <3> QED BY <1>1, <2>1, <3>1, <3>3, NewEntryFits, ConstantsTyped
  <2> QED BY <1>1, <2>1, <2>2, <2>3, ConstantsTyped
<1>3. CASE ~(rateLimits[ip] = None \/ Over(ip))
  <2>1. Entry(ip) = rateLimits[ip] /\ rateLimits[ip] \in RateLimitEntry
    BY <1>1, <1>3 DEF Entry
  <2>2. clock <= rateLimits[ip].resetAt
    <3>1. rateLimits[ip].resetAt \in Nat BY <2>1 DEF RateLimitEntry
    <3> QED BY <1>1, <1>3, <3>1 DEF Over
  <2>3. rateLimits[ip].resetAt <= clock + Window BY <1>3 DEF LimiterInv
  <2> QED BY <1>3, <2>1, <2>2, <2>3 DEF LimiterInv, HistoryFits
<1> QED BY <1>2, <1>3

\* Counting a request raises one count of the entry and leaves its window.
LEMMA CountedIsEntry ==
  ASSUME NEW ip \in Ips, NEW bucket \in Buckets, Entry(ip) \in RateLimitEntry
  PROVE  /\ Counted(ip, bucket) \in RateLimitEntry
         /\ Counted(ip, bucket).resetAt = Entry(ip).resetAt
         /\ Counted(ip, bucket).counts[bucket] = Entry(ip).counts[bucket] + 1
         /\ \A other \in Buckets \ {bucket} :
              Counted(ip, bucket).counts[other] = Entry(ip).counts[other]
<1> DEFINE entry == Entry(ip)
<1>1. entry \in RateLimitEntry OBVIOUS
<1> HIDE DEF entry
<1>2. entry.counts \in [Buckets -> Nat] BY <1>1 DEF RateLimitEntry
<1>3. Counted(ip, bucket) =
        [entry EXCEPT !.counts = [entry.counts EXCEPT ![bucket] = entry.counts[bucket] + 1]]
  BY DEF Counted, entry
<1> QED BY <1>1, <1>2, <1>3 DEF RateLimitEntry, entry

\* checkRateLimit, granting or refusing, keeps the invariant.
LEMMA CheckRateLimitKeepsInv ==
  ASSUME LimiterInv, NEW ip \in Ips, NEW bucket \in Buckets, CheckRateLimit(ip, bucket)
  PROVE  LimiterInv'
<1> DEFINE entry == Entry(ip)
<1> DEFINE counted == Counted(ip, bucket)
<1> DEFINE new == NewGrant(ip)
<1>1. /\ entry \in RateLimitEntry
      /\ clock <= entry.resetAt /\ entry.resetAt <= clock + Window
      /\ \A o \in Observed : o[1] = ip => Fits(grants[o], entry, o[2])
  BY EntryFits
<1>2. /\ counted \in RateLimitEntry
      /\ counted.resetAt = entry.resetAt
      /\ counted.counts[bucket] = entry.counts[bucket] + 1
      /\ \A other \in Buckets \ {bucket} : counted.counts[other] = entry.counts[other]
  BY <1>1, CountedIsEntry
<1>3. rateLimits' = [rateLimits EXCEPT ![ip] = counted] /\ clock' = clock BY DEF CheckRateLimit
<1>4. Allowed(ip, bucket) <=> entry.counts[bucket] + 1 <= Limit[bucket] BY DEF Allowed
<1>5. new = [at |-> clock, resetAt |-> entry.resetAt] BY DEF NewGrant
<1>6. grants' = IF <<ip, bucket>> \in Observed /\ Allowed(ip, bucket)
                THEN [grants EXCEPT ![<<ip, bucket>>] = Append(grants[<<ip, bucket>>], new)]
                ELSE grants
  BY DEF CheckRateLimit
<1>7. /\ rateLimits \in [Ips -> RateLimitEntry \cup {None}] /\ clock \in 0 .. MaxClock
      /\ clock \in Nat /\ grants \in [Observed -> Seq(Grant)]
  BY ConstantsTyped DEF LimiterInv, LimiterTypeOK
<1>8. new \in Grant BY <1>1, <1>5, <1>7 DEF Grant, RateLimitEntry
<1>9. rateLimits'[ip] = counted /\ counted # None BY <1>2, <1>3, <1>7, NoneIsNoEntry
<1> HIDE DEF entry, counted, new
<1>10. LimiterTypeOK' BY <1>2, <1>3, <1>6, <1>7, <1>8, ConstantsTyped DEF LimiterTypeOK
<1>11. ASSUME NEW other \in Ips, rateLimits'[other] # None
       PROVE  rateLimits'[other].resetAt <= clock' + Window
  BY <1>1, <1>2, <1>3, <1>7, <1>11 DEF LimiterInv
<1>12. ASSUME NEW o \in Observed
       PROVE  (Timely(grants[o], clock) /\ Spread(grants[o], Limit[o[2]]) /\ HistoryFits(o))'
  <2>1. /\ Timely(grants[o], clock) /\ Spread(grants[o], Limit[o[2]]) /\ HistoryFits(o)
        /\ grants[o] \in Seq(Grant) /\ o[1] \in Ips /\ o[2] \in Buckets /\ o = <<o[1], o[2]>>
    BY <1>7, ConstantsTyped DEF LimiterInv
  <2>2. CASE o = <<ip, bucket>> /\ Allowed(ip, bucket)
    <3>1. grants'[o] = Append(grants[o], new) BY <2>2, <1>6, <1>7
    <3>2. o[1] = ip /\ o[2] = bucket BY <2>2
    <3>3. Fits(grants[o], entry, bucket) BY <1>1, <3>2
    <3>4. entry.counts[bucket] + 1 <= Limit[bucket] BY <2>2, <1>4
    <3>5. Timely(Append(grants[o], new), clock)
      BY <2>1, <1>1, <1>5, <1>7, <1>8, AppendTimely
    <3>6. Spread(Append(grants[o], new), Limit[bucket])
      BY <2>1, <3>2, <3>3, <3>4, <1>1, <1>5, <1>7, AppendSpread
    <3>7. Fits(Append(grants[o], new), counted, bucket)
      BY <2>1, <3>2, <3>3, <3>4, <1>1, <1>2, <1>5, <1>7, AppendFits
    <3> QED BY <3>1, <3>2, <3>5, <3>6, <3>7, <1>3, <1>9 DEF HistoryFits
  <2>3. CASE o[1] = ip /\ ~(o = <<ip, bucket>> /\ Allowed(ip, bucket))
    <3>1. grants'[o] = grants[o] BY <2>3, <1>6, <1>7
    <3>2. Fits(grants[o], entry, o[2]) BY <2>3, <1>1
    <3>3. Spent(counted, o[2]) = Spent(entry, o[2])
      <4>1. CASE o[2] # bucket BY <4>1, <2>1, <1>2 DEF Spent
      <4>2. CASE o[2] = bucket
        <5>1. ~(entry.counts[bucket] + 1 <= Limit[bucket]) BY <4>2, <2>1, <2>3, <1>4
        <5>2. entry.counts[bucket] \in Nat /\ Limit[bucket] \in Nat
          BY <1>1, ConstantsTyped DEF RateLimitEntry
        <5> QED BY <4>2, <5>1, <5>2, <1>2 DEF Spent
      <4> QED BY <4>1, <4>2
    <3>4. Fits(grants[o], counted, o[2]) BY <3>2, <3>3, <1>2 DEF Fits
    <3> QED BY <2>1, <2>3, <3>1, <3>4, <1>3, <1>9 DEF HistoryFits
  <2>4. CASE o[1] # ip
    <3>1. grants'[o] = grants[o] /\ rateLimits'[o[1]] = rateLimits[o[1]]
      BY <2>1, <2>4, <1>3, <1>6, <1>7
    <3> QED BY <2>1, <3>1, <1>3 DEF HistoryFits
  <2> QED BY <2>2, <2>3, <2>4
<1> QED BY <1>3, <1>10, <1>11, <1>12 DEF LimiterInv

\* The cleanup timer removes entries whose window is over, and their grants are
\* over with them.
LEMMA RateLimitCleanupKeepsInv ==
  ASSUME LimiterInv, RateLimitCleanup
  PROVE  LimiterInv'
<1>1. /\ rateLimits \in [Ips -> RateLimitEntry \cup {None}]
      /\ clock \in Nat /\ grants \in [Observed -> Seq(Grant)]
  BY ConstantsTyped DEF LimiterInv, LimiterTypeOK
<1>2. clock' = clock /\ grants' = grants BY DEF RateLimitCleanup
<1>3. \A ip \in Ips : rateLimits'[ip] = IF Over(ip) THEN None ELSE rateLimits[ip]
  BY DEF RateLimitCleanup
<1>4. LimiterTypeOK'
  <2>1. rateLimits' \in [Ips -> RateLimitEntry \cup {None}] BY <1>1 DEF RateLimitCleanup
  <2> QED BY <2>1, <1>2 DEF LimiterInv, LimiterTypeOK
<1>5. ASSUME NEW o \in Observed PROVE HistoryFits(o)'
  <2>1. HistoryFits(o) /\ grants[o] \in Seq(Grant) /\ o[1] \in Ips /\ o[2] \in Buckets
    BY <1>1, ConstantsTyped DEF LimiterInv
  <2>2. CASE Over(o[1])
    <3>1. rateLimits[o[1]] # None /\ clock > rateLimits[o[1]].resetAt BY <2>2 DEF Over
    <3>2. rateLimits[o[1]] \in RateLimitEntry BY <3>1, <2>1, <1>1
    <3>3. Fits(grants[o], rateLimits[o[1]], o[2]) BY <2>1, <3>1 DEF HistoryFits
    <3>4. AllOver(grants[o], clock) BY <1>1, <2>1, <3>1, <3>2, <3>3, OverWithEntry
    <3>5. rateLimits'[o[1]] = None BY <2>1, <2>2, <1>3
    <3> QED BY <3>4, <3>5, <1>2 DEF HistoryFits
  <2>3. CASE ~Over(o[1])
    <3>1. rateLimits'[o[1]] = rateLimits[o[1]] BY <2>1, <2>3, <1>3
    <3> QED BY <2>1, <3>1, <1>2 DEF HistoryFits
  <2> QED BY <2>2, <2>3
<1>6. ASSUME NEW ip \in Ips, rateLimits'[ip] # None
      PROVE  rateLimits'[ip].resetAt <= clock' + Window
  BY <1>2, <1>3, <1>6 DEF LimiterInv
<1> QED BY <1>2, <1>4, <1>5, <1>6 DEF LimiterInv

\* Time passing ends windows and opens none.
LEMMA PassTimeKeepsInv ==
  ASSUME LimiterInv, PassTime
  PROVE  LimiterInv'
<1>1. /\ rateLimits \in [Ips -> RateLimitEntry \cup {None}]
      /\ clock \in Nat /\ grants \in [Observed -> Seq(Grant)]
  BY ConstantsTyped DEF LimiterInv, LimiterTypeOK
<1>2. clock' = clock + 1 /\ rateLimits' = rateLimits /\ grants' = grants BY DEF PassTime
<1>3. LimiterTypeOK' BY <1>2, ConstantsTyped DEF LimiterInv, LimiterTypeOK, PassTime
<1>4. ASSUME NEW ip \in Ips, rateLimits[ip] # None
      PROVE  rateLimits[ip].resetAt <= clock + 1 + Window
  <2>1. rateLimits[ip].resetAt \in Nat BY <1>1, <1>4 DEF RateLimitEntry
  <2>2. rateLimits[ip].resetAt <= clock + Window BY <1>4 DEF LimiterInv
  <2> QED BY <1>1, <2>1, <2>2, ConstantsTyped
<1>5. ASSUME NEW o \in Observed PROVE Timely(grants[o], clock + 1) /\ HistoryFits(o)'
  <2>1. /\ Timely(grants[o], clock) /\ HistoryFits(o) /\ grants[o] \in Seq(Grant)
    BY <1>1 DEF LimiterInv
  <2>2. \A i \in 1 .. Len(grants[o]) : grants[o][i] \in Grant BY <2>1
  <2>3. \A i \in 1 .. Len(grants[o]) : grants[o][i].at \in Nat /\ grants[o][i].resetAt \in Nat
    BY <2>2 DEF Grant
  <2>4. Timely(grants[o], clock + 1) BY <1>1, <2>1, <2>3 DEF Timely
  <2>5. AllOver(grants[o], clock) => AllOver(grants[o], clock + 1)
    BY <1>1, <2>3 DEF AllOver
  <2> QED BY <1>2, <2>1, <2>4, <2>5 DEF HistoryFits
<1> QED BY <1>2, <1>3, <1>4, <1>5 DEF LimiterInv

\* Every step of the limiter keeps the invariant.
LEMMA LimiterInvInductive == LimiterInv /\ [LimiterNext]_limiterVars => LimiterInv'
<1> SUFFICES ASSUME LimiterInv, [LimiterNext]_limiterVars PROVE LimiterInv' OBVIOUS
<1>1. CASE \E ip \in Ips, bucket \in Buckets : CheckRateLimit(ip, bucket)
  BY <1>1, CheckRateLimitKeepsInv
<1>2. CASE RateLimitCleanup BY <1>2, RateLimitCleanupKeepsInv
<1>3. CASE PassTime BY <1>3, PassTimeKeepsInv
<1>4. CASE UNCHANGED limiterVars
  BY <1>4 DEF limiterVars, LimiterInv, LimiterTypeOK, HistoryFits
<1> QED BY <1>1, <1>2, <1>3, <1>4 DEF LimiterNext

\* The histories fit the counters in every reachable state.
THEOREM LimiterCorrect == LimiterSpec => []LimiterInv
BY LimiterInvInit, LimiterInvInductive, PTL DEF LimiterSpec

-----------------------------------------------------------------------------
(* What it implies *)

\* Two whole windows lie between the first and the third of three windows.
LEMMA TwoWindowsApart ==
  ASSUME NEW from \in Nat, NEW reset1 \in Nat, NEW reset2 \in Nat, NEW reset3 \in Nat,
         NEW to \in Nat, NEW window \in Nat,
         from <= reset1, reset1 + window < reset2, reset2 + window < reset3,
         reset3 <= to + window
  PROVE  to - from > window
OBVIOUS

\* Grants a limit apart in windows apart are at most two limits in any window.
LEMMA InvBoundsBursts == LimiterInv => BurstsAreBounded
<1> SUFFICES ASSUME LimiterInv, NEW o \in Observed,
                    NEW i \in 1 .. Len(grants[o]), i + 2 * Limit[o[2]] <= Len(grants[o])
             PROVE  grants[o][i + 2 * Limit[o[2]]].at - grants[o][i].at > Window
  BY DEF BurstsAreBounded
<1> DEFINE g == grants[o]
<1> DEFINE limit == Limit[o[2]]
<1>1. g \in Seq(Grant) /\ Timely(g, clock) /\ Spread(g, limit)
  BY DEF LimiterInv, LimiterTypeOK
<1>2. limit \in Nat /\ limit > 0 BY ConstantsTyped
<1>3. i \in 1 .. Len(g) /\ i + 2 * limit <= Len(g) OBVIOUS
<1> HIDE DEF g, limit
<1> DEFINE second == i + limit
<1> DEFINE third == i + 2 * limit
<1>4. second \in 1 .. Len(g) /\ third \in 1 .. Len(g) /\ third = second + limit
  BY <1>1, <1>2, <1>3
<1>5. g[i].resetAt + Window < g[second].resetAt BY <1>1, <1>3, <1>4 DEF Spread
<1>6. third <= Len(g) BY <1>3
<1> HIDE DEF second, third
<1>7. g[second].resetAt + Window < g[third].resetAt BY <1>1, <1>4, <1>6 DEF Spread
<1>8. g[i] \in Grant /\ g[second] \in Grant /\ g[third] \in Grant BY <1>1, <1>3, <1>4
<1>9. g[i].at <= g[i].resetAt /\ g[third].resetAt <= g[third].at + Window
  BY <1>1, <1>3, <1>4 DEF Timely
<1>10. /\ g[i].at \in Nat /\ g[i].resetAt \in Nat /\ g[second].resetAt \in Nat
       /\ g[third].at \in Nat /\ g[third].resetAt \in Nat
  BY <1>8 DEF Grant
<1>11. g[third].at - g[i].at > Window BY <1>5, <1>7, <1>9, <1>10, ConstantsTyped, TwoWindowsApart
<1> QED BY <1>11 DEF g, limit, third

\* An entry whose count is spent stands for that many grants.
LEMMA InvRefusesOnlySpent == LimiterInv => RefusedOnlyWhenSpent
<1> SUFFICES ASSUME LimiterInv, NEW o \in Observed, ~Allowed(o[1], o[2])
             PROVE  LET g == grants[o]
                        first == Len(g) + 1 - Limit[o[2]]
                    IN  /\ first > 0
                        /\ clock <= g[first].resetAt
                        /\ \A i \in first .. Len(g) : g[i].resetAt = g[first].resetAt
  BY DEF RefusedOnlyWhenSpent
<1> DEFINE entry == Entry(o[1])
<1> DEFINE limit == Limit[o[2]]
<1> DEFINE g == grants[o]
<1> DEFINE first == Len(g) + 1 - limit
<1>1. o[1] \in Ips /\ o[2] \in Buckets /\ limit \in Nat /\ limit > 0 BY ConstantsTyped
<1>2. entry \in RateLimitEntry /\ clock <= entry.resetAt /\ Fits(g, entry, o[2])
  BY <1>1, EntryFits
<1>3. ~(entry.counts[o[2]] + 1 <= limit) BY DEF Allowed
<1>4. g \in Seq(Grant) BY DEF LimiterInv, LimiterTypeOK
<1> HIDE DEF entry, g
<1>5. entry.counts[o[2]] \in Nat BY <1>1, <1>2 DEF RateLimitEntry
<1>6. Spent(entry, o[2]) = limit BY <1>1, <1>3, <1>5 DEF Spent
<1>7. limit <= Len(g) BY <1>2, <1>6 DEF Fits
<1>8. \A i \in 1 .. Len(g) : i > Len(g) - limit => g[i].resetAt = entry.resetAt
  BY <1>2, <1>6 DEF Fits
<1>9. Len(g) \in Nat BY <1>4
<1>10. first > 0 BY <1>1, <1>7, <1>9
<1>11. \A i \in first .. Len(g) : i \in 1 .. Len(g) /\ i > Len(g) - limit
  BY <1>1, <1>9, <1>10
<1>12. first \in first .. Len(g) BY <1>1, <1>9
<1>13. \A i \in first .. Len(g) : g[i].resetAt = entry.resetAt BY <1>8, <1>11
<1>14. g[first].resetAt = entry.resetAt BY <1>12, <1>13
<1> QED BY <1>2, <1>10, <1>13, <1>14 DEF g

\* For every limit, window and number of addresses: of any 2 * limit + 1
\* consecutive events let through, the first and the last are more than a window
\* apart, however refused events, other buckets and the cleanup timer fall in
\* between.
THEOREM BurstsAreBoundedHolds == LimiterSpec => []BurstsAreBounded
BY LimiterCorrect, InvBoundsBursts, PTL

\* An event is refused only if its address has had the whole limit of that bucket
\* in the window that is still running.
THEOREM RefusedOnlyWhenSpentHolds == LimiterSpec => []RefusedOnlyWhenSpent
BY LimiterCorrect, InvRefusesOnlySpent, PTL

-----------------------------------------------------------------------------
(* The rate limits *)

\* The steps of the admission control are steps of the limiter or leave it alone.
LEMMA AdmissionStepsLimiter == [AdmissionNext]_allVars => [LimiterNext]_limiterVars
<1> SUFFICES ASSUME [AdmissionNext]_allVars PROVE [LimiterNext]_limiterVars OBVIOUS
<1> USE AdmissionAssumption
<1>1. ASSUME NEW s \in Sessions, HandshakeRequest(s) PROVE LimiterNext
  BY <1>1 DEF HandshakeRequest, LimiterNext, Buckets
<1>2. ASSUME NEW s \in Sessions, Connection(s) PROVE LimiterNext
  BY <1>2 DEF Connection, LimiterNext, Buckets
<1>3. ASSUME NEW s \in Sessions, NEW bucket \in EventBuckets, SocketEvent(s, bucket)
      PROVE  LimiterNext
  BY <1>3 DEF SocketEvent, LimiterNext, Buckets
<1>4. ASSUME NEW s \in Sessions,
             \/ HandshakeFails(s) \/ EngineConnection(s) \/ HandshakeTimeout(s)
             \/ EngineClose(s) \/ SocketDisconnect(s) \/ SocketKicked(s)
      PROVE  UNCHANGED limiterVars
  BY <1>4 DEF HandshakeFails, EngineConnection, HandshakeTimeout, EngineClose,
              SocketDisconnect, SocketKicked
<1>5. CASE (RateLimitCleanup \/ PassTime) /\ UNCHANGED admissionVars BY <1>5 DEF LimiterNext
<1>6. CASE UNCHANGED allVars BY <1>6 DEF allVars
<1> QED BY <1>1, <1>2, <1>3, <1>4, <1>5, <1>6 DEF AdmissionNext

\* Whatever the relay does with sessions and sockets, its rate limits behave as
\* the limiter on its own: no handler, refusal or disconnect resets or skips one.
THEOREM LimiterBehavesHolds == AdmissionSpec => LimiterBehaves
<1>1. AdmissionInit => LimiterInit BY DEF AdmissionInit
<1> QED BY <1>1, AdmissionStepsLimiter, PTL DEF AdmissionSpec, LimiterBehaves, LimiterSpec

\* So the relay's bursts are bounded.
THEOREM AdmissionBoundsBursts == AdmissionSpec => []BurstsAreBounded
BY LimiterBehavesHolds, BurstsAreBoundedHolds DEF LimiterBehaves

-----------------------------------------------------------------------------
(* Counting sessions *)

\* The sessions of these addresses that a phase function puts in phases.
At(ph, ips, phases) == {s \in Sessions : Address[s] \in ips /\ ph[s] \in phases}

\* The sessions of some addresses in some phases are finitely many.
LEMMA CountAt ==
  ASSUME NEW ph, NEW ips, NEW phases
  PROVE  /\ IsFiniteSet(At(ph, ips, phases))
         /\ Cardinality(At(ph, ips, phases)) \in Nat
<1>1. At(ph, ips, phases) \subseteq Sessions BY DEF At
<1> QED BY <1>1, AdmissionAssumption, FS_Subset, FS_CardinalityType

\* A session that enters one of the phases, leaves them, or does neither.
LEMMA CountMove ==
  ASSUME NEW ph, NEW next, NEW s \in Sessions, NEW ips, NEW phases,
         \A t \in Sessions \ {s} : next[t] = ph[t]
  PROVE  /\ \/ Address[s] \notin ips
            \/ ph[s] \in phases <=> next[s] \in phases
            => Cardinality(At(next, ips, phases)) = Cardinality(At(ph, ips, phases))
         /\ Address[s] \in ips /\ ph[s] \notin phases /\ next[s] \in phases
            => Cardinality(At(next, ips, phases)) = Cardinality(At(ph, ips, phases)) + 1
         /\ Address[s] \in ips /\ ph[s] \in phases /\ next[s] \notin phases
            => /\ Cardinality(At(next, ips, phases)) = Cardinality(At(ph, ips, phases)) - 1
               /\ Cardinality(At(ph, ips, phases)) > 0
<1> DEFINE B == At(ph, ips, phases)
<1> DEFINE A == At(next, ips, phases)
<1>1. IsFiniteSet(A) /\ IsFiniteSet(B) /\ Cardinality(A) \in Nat /\ Cardinality(B) \in Nat
  BY CountAt
<1>2. ASSUME Address[s] \notin ips \/ (ph[s] \in phases <=> next[s] \in phases)
      PROVE  Cardinality(A) = Cardinality(B)
  <2>1. A = B BY <1>2 DEF At
  <2> QED BY <2>1
<1>3. ASSUME Address[s] \in ips, ph[s] \notin phases, next[s] \in phases
      PROVE  Cardinality(A) = Cardinality(B) + 1
  <2>1. A = B \cup {s} /\ s \notin B BY <1>3 DEF At
  <2> HIDE DEF A, B
  <2> QED BY <1>1, <2>1, FS_AddElement
<1>4. ASSUME Address[s] \in ips, ph[s] \in phases, next[s] \notin phases
      PROVE  Cardinality(A) = Cardinality(B) - 1 /\ Cardinality(B) > 0
  <2>1. A = B \ {s} /\ s \in B BY <1>4 DEF At
  <2> HIDE DEF A, B
  <2>2. Cardinality(A) = Cardinality(B) - 1 BY <1>1, <2>1, FS_RemoveElement
  <2> QED BY <1>1, <2>2
<1> QED BY <1>2, <1>3, <1>4

\* A session that enters the phases counted raises their count by one.
LEMMA CountGrows ==
  ASSUME NEW ph, NEW next, NEW s \in Sessions, NEW ips, NEW phases,
         \A t \in Sessions \ {s} : next[t] = ph[t],
         Address[s] \in ips, ph[s] \notin phases, next[s] \in phases
  PROVE  Cardinality(At(next, ips, phases)) = Cardinality(At(ph, ips, phases)) + 1
BY CountMove

\* Two sets of phases that share none.
LEMMA CountBoth ==
  ASSUME NEW ph, NEW ips, NEW these, NEW those, these \cap those = {}
  PROVE  Cardinality(At(ph, ips, these \cup those))
           = Cardinality(At(ph, ips, these)) + Cardinality(At(ph, ips, those))
<1>1. At(ph, ips, these \cup those) = At(ph, ips, these) \cup At(ph, ips, those) BY DEF At
<1>2. At(ph, ips, these) \cap At(ph, ips, those) = {} BY DEF At
<1>3. IsFiniteSet(At(ph, ips, these)) /\ IsFiniteSet(At(ph, ips, those)) BY CountAt
<1>4. Cardinality(At(ph, ips, these)) \in Nat /\ Cardinality(At(ph, ips, those)) \in Nat
  BY CountAt
<1> DEFINE T == At(ph, ips, these)
<1> DEFINE U == At(ph, ips, those)
<1>5. Cardinality(T \cup U) = Cardinality(T) + Cardinality(U) - Cardinality(T \cap U)
  <2> HIDE DEF T, U
  <2> QED BY <1>3, FS_Union DEF T, U
<1>6. Cardinality(T \cap U) = 0 BY <1>2, FS_EmptySet
<1>7. Cardinality(T) \in Nat /\ Cardinality(U) \in Nat BY <1>4
<1>8. Cardinality(At(ph, ips, these \cup those)) = Cardinality(T \cup U) BY <1>1
<1> HIDE DEF T, U
<1>9. Cardinality(At(ph, ips, these \cup those)) = Cardinality(T) + Cardinality(U)
  BY <1>5, <1>6, <1>7, <1>8
<1> QED BY <1>9 DEF T, U


-----------------------------------------------------------------------------
(* The invariant *)

Sockets == {"socket"}

PhasesOK ==
  /\ phase \in [Sessions -> Phases]
  /\ engineSessionsByIp \in [Ips -> Nat] /\ activeSocketsByIp \in [Ips -> Nat]

AdmissionInv == PhasesOK /\ CountersAreExact /\ SocketCapsHold /\ OvershootIsInFlight

\* The counts the module speaks of are all counts of sessions by address and phase.
LEMMA AsCounts ==
  /\ \A ip, phases : Of(ip, phases) = At(phase, {ip}, phases)
  /\ ClientsCount = Cardinality(At(phase, Ips, SessionPhases))
  /\ Pending = At(phase, Ips, {"pending"})
  /\ FullSockets = At(phase, Ips, Sockets)
BY AdmissionAssumption DEF Of, At, ClientsCount, Pending, FullSockets, Sockets

\* Session s goes to phase q.
Move(s, q) == phase' = [phase EXCEPT ![s] = q]

\* The counter of an address after one of its sessions has moved.
Adjusted(counter, s, q, phases) ==
  IF phase[s] \notin phases /\ q \in phases THEN More(counter, Address[s])
  ELSE IF phase[s] \in phases /\ q \notin phases THEN Fewer(counter, Address[s])
  ELSE counter

\* A counter adjusted as one session changes its phase stays the number it was.
LEMMA AdjustedIsExact ==
  ASSUME PhasesOK, NEW s \in Sessions, NEW q \in Phases, Move(s, q), NEW phases,
         NEW counter \in [Ips -> Nat],
         \A ip \in Ips : counter[ip] = Cardinality(At(phase, {ip}, phases))
  PROVE  /\ Adjusted(counter, s, q, phases) \in [Ips -> Nat]
         /\ \A ip \in Ips :
              Adjusted(counter, s, q, phases)[ip] = Cardinality(At(phase', {ip}, phases))
<1> DEFINE adjusted == Adjusted(counter, s, q, phases)
<1>1. Address[s] \in Ips BY AdmissionAssumption
<1>2. phase'[s] = q /\ \A t \in Sessions \ {s} : phase'[t] = phase[t]
  BY DEF PhasesOK, Move
<1>3. adjusted \in [Ips -> Nat] BY <1>1 DEF Adjusted, More, Fewer
<1>4. ASSUME NEW ip \in Ips PROVE adjusted[ip] = Cardinality(At(phase', {ip}, phases))
  <2> DEFINE before == Cardinality(At(phase, {ip}, phases))
  <2> DEFINE after == Cardinality(At(phase', {ip}, phases))
  <2>1. /\ \/ Address[s] \notin {ip}
           \/ phase[s] \in phases <=> phase'[s] \in phases
           => after = before
        /\ Address[s] \in {ip} /\ phase[s] \notin phases /\ phase'[s] \in phases
           => after = before + 1
        /\ Address[s] \in {ip} /\ phase[s] \in phases /\ phase'[s] \notin phases
           => after = before - 1 /\ before > 0
    BY <1>2, CountMove
  <2>2. counter[ip] = before /\ before \in Nat BY CountAt
  <2> HIDE DEF before, after
  <2>3. adjusted[ip] = after
    <3>1. CASE Address[s] # ip BY <3>1, <2>1, <2>2, <1>1 DEF Adjusted, More, Fewer
    <3>2. CASE Address[s] = ip /\ phase[s] \notin phases /\ q \in phases
      BY <3>2, <2>1, <2>2, <1>1, <1>2 DEF Adjusted, More
    <3>3. CASE Address[s] = ip /\ phase[s] \in phases /\ q \notin phases
      <4>1. adjusted[ip] = IF before <= 1 THEN 0 ELSE before - 1
        BY <3>3, <2>2, <1>1 DEF Adjusted, Fewer
      <4> QED BY <3>3, <4>1, <2>1, <2>2, <1>2
    <3>4. CASE Address[s] = ip /\ (phase[s] \in phases <=> q \in phases)
      BY <3>4, <2>1, <2>2, <1>1, <1>2 DEF Adjusted
    <3> QED BY <3>1, <3>2, <3>3, <3>4
  <2> QED BY <2>3 DEF after
<1> QED BY <1>3, <1>4

\* A handler that moves a session and adjusts both counters keeps them exact.
LEMMA MoveKeepsCounters ==
  ASSUME AdmissionInv, NEW s \in Sessions, NEW q \in Phases, Move(s, q),
         engineSessionsByIp' = Adjusted(engineSessionsByIp, s, q, SessionPhases),
         activeSocketsByIp' = Adjusted(activeSocketsByIp, s, q, Sockets)
  PROVE  PhasesOK' /\ CountersAreExact'
<1>1. PhasesOK /\ CountersAreExact BY DEF AdmissionInv
<1>2. /\ \A ip \in Ips : engineSessionsByIp[ip] = Cardinality(At(phase, {ip}, SessionPhases))
      /\ \A ip \in Ips : activeSocketsByIp[ip] = Cardinality(At(phase, {ip}, Sockets))
  BY <1>1, AsCounts DEF CountersAreExact, Sockets
<1>3. engineSessionsByIp \in [Ips -> Nat] /\ activeSocketsByIp \in [Ips -> Nat]
  BY <1>1 DEF PhasesOK
<1>4. /\ engineSessionsByIp' \in [Ips -> Nat]
      /\ \A ip \in Ips : engineSessionsByIp'[ip] = Cardinality(At(phase', {ip}, SessionPhases))
  BY <1>1, <1>2, <1>3, AdjustedIsExact
<1>5. /\ activeSocketsByIp' \in [Ips -> Nat]
      /\ \A ip \in Ips : activeSocketsByIp'[ip] = Cardinality(At(phase', {ip}, Sockets))
  <2>1. /\ Adjusted(activeSocketsByIp, s, q, Sockets) \in [Ips -> Nat]
        /\ \A ip \in Ips : Adjusted(activeSocketsByIp, s, q, Sockets)[ip]
                             = Cardinality(At(phase', {ip}, Sockets))
    <3>1. PhasesOK /\ activeSocketsByIp \in [Ips -> Nat] BY <1>1, <1>3
    <3>2. \A ip \in Ips : activeSocketsByIp[ip] = Cardinality(At(phase, {ip}, Sockets)) BY <1>2
    <3> QED BY <3>1, <3>2, AdjustedIsExact
  <2> QED BY <2>1
<1>6. phase' \in [Sessions -> Phases] BY <1>1 DEF PhasesOK, Move
<1> QED BY <1>4, <1>5, <1>6 DEF PhasesOK, CountersAreExact, Of, At, Sockets

\* The count of any phases, for any addresses, after a move that does not enter
\* them.
LEMMA MoveGrowsNothing ==
  ASSUME PhasesOK, NEW s \in Sessions, NEW q \in Phases, Move(s, q), NEW phases, NEW ips,
         phase[s] \notin phases => q \notin phases
  PROVE  /\ Cardinality(At(phase', ips, phases)) <= Cardinality(At(phase, ips, phases))
         /\ Cardinality(At(phase', ips, phases)) \in Nat
         /\ Cardinality(At(phase, ips, phases)) \in Nat
<1>1. phase'[s] = q /\ \A t \in Sessions \ {s} : phase'[t] = phase[t]
  BY DEF PhasesOK, Move
<1>2. Cardinality(At(phase, ips, phases)) \in Nat /\ Cardinality(At(phase', ips, phases)) \in Nat
  BY CountAt
<1>3. \/ Cardinality(At(phase', ips, phases)) = Cardinality(At(phase, ips, phases))
      \/ Cardinality(At(phase', ips, phases)) = Cardinality(At(phase, ips, phases)) - 1
  BY <1>1, CountMove
<1> QED BY <1>2, <1>3

-----------------------------------------------------------------------------
(* The steps *)

\* With no session every counter is zero.
LEMMA InitHolds == AdmissionInit => AdmissionInv
<1> SUFFICES ASSUME AdmissionInit PROVE AdmissionInv OBVIOUS
<1>1. PhasesOK BY DEF AdmissionInit, PhasesOK, Phases
<1>2. ASSUME NEW ips, NEW phases, "none" \notin phases
      PROVE  Cardinality(At(phase, ips, phases)) = 0
  <2>1. At(phase, ips, phases) = {} BY <1>2 DEF AdmissionInit, At
  <2> QED BY <2>1, FS_EmptySet
<1>3. CountersAreExact BY <1>2, AsCounts DEF AdmissionInit, CountersAreExact, SessionPhases
<1>4. SocketCapsHold
  <2>1. \A ips : Cardinality(At(phase, ips, Sockets)) = 0 BY <1>2 DEF Sockets
  <2>2. Cardinality(FullSockets) = 0 BY <2>1, AsCounts
  <2>3. \A ip \in Ips : Cardinality(Of(ip, {"socket"})) = 0 BY <2>1, AsCounts DEF Sockets
  <2> QED BY <2>2, <2>3, AdmissionAssumption DEF SocketCapsHold
<1>5. OvershootIsInFlight
  <2>1. ClientsCount = 0 /\ Cardinality(Pending) = 0
    BY <1>2, AsCounts DEF SessionPhases
  <2>2. \A ip \in Ips : Cardinality(Of(ip, SessionPhases \cup {"pending"})) = 0
    BY <1>2, AsCounts DEF SessionPhases
  <2> QED BY <2>1, <2>2, AdmissionAssumption DEF OvershootIsInFlight
<1> QED BY <1>1, <1>3, <1>4, <1>5 DEF AdmissionInv

\* A move that makes no full socket leaves the caps held.
LEMMA CapsKept ==
  ASSUME AdmissionInv, NEW s \in Sessions, NEW q \in Phases, Move(s, q),
         phase[s] \notin Sockets => q \notin Sockets
  PROVE  SocketCapsHold'
<1>1. PhasesOK /\ SocketCapsHold BY DEF AdmissionInv
<1>2. \A ips : /\ Cardinality(At(phase', ips, Sockets)) <= Cardinality(At(phase, ips, Sockets))
               /\ Cardinality(At(phase', ips, Sockets)) \in Nat
               /\ Cardinality(At(phase, ips, Sockets)) \in Nat
  BY <1>1, MoveGrowsNothing
<1>3. /\ Cardinality(At(phase, Ips, Sockets)) <= MaxActiveSockets
      /\ \A ip \in Ips : Cardinality(At(phase, {ip}, Sockets)) <= MaxSocketsPerIp
  BY <1>1, AsCounts DEF SocketCapsHold, Sockets
<1>4. /\ Cardinality(At(phase', Ips, Sockets)) <= MaxActiveSockets
      /\ \A ip \in Ips : Cardinality(At(phase', {ip}, Sockets)) <= MaxSocketsPerIp
  BY <1>2, <1>3, AdmissionAssumption
<1> QED BY <1>4, AdmissionAssumption DEF SocketCapsHold, FullSockets, Of, At, Sockets

Admitted == SessionPhases \cup {"pending"}

\* The overshoot, of an address and of the process, in one form.
LEMMA AsAdmitted ==
  OvershootIsInFlight <=>
    /\ \A ip \in Ips : Cardinality(At(phase, {ip}, Admitted)) < MaxSocketsPerIp + MaxPending
    /\ Cardinality(At(phase, Ips, Admitted)) < MaxActiveSockets + MaxPending
<1>1. Cardinality(At(phase, Ips, Admitted))
        = Cardinality(At(phase, Ips, SessionPhases)) + Cardinality(At(phase, Ips, {"pending"}))
  BY CountBoth DEF Admitted, SessionPhases
<1>2. ClientsCount + Cardinality(Pending) = Cardinality(At(phase, Ips, Admitted))
  BY <1>1, AsCounts
<1>3. \A ip \in Ips : Of(ip, SessionPhases \cup {"pending"}) = At(phase, {ip}, Admitted)
  BY AsCounts DEF Admitted
<1> QED BY <1>2, <1>3 DEF OvershootIsInFlight

\* A move that admits no handshake leaves the overshoot bounded.
LEMMA OvershootKept ==
  ASSUME AdmissionInv, NEW s \in Sessions, NEW q \in Phases, Move(s, q),
         phase[s] \notin Admitted => q \notin Admitted
  PROVE  OvershootIsInFlight'
<1>1. PhasesOK /\ OvershootIsInFlight BY DEF AdmissionInv
<1>2. \A ips : /\ Cardinality(At(phase', ips, Admitted)) <= Cardinality(At(phase, ips, Admitted))
               /\ Cardinality(At(phase', ips, Admitted)) \in Nat
               /\ Cardinality(At(phase, ips, Admitted)) \in Nat
  BY <1>1, MoveGrowsNothing
<1>3. /\ \A ip \in Ips : Cardinality(At(phase, {ip}, Admitted)) < MaxSocketsPerIp + MaxPending
      /\ Cardinality(At(phase, Ips, Admitted)) < MaxActiveSockets + MaxPending
  BY <1>1, AsAdmitted
<1>4. /\ \A ip \in Ips : Cardinality(At(phase', {ip}, Admitted)) < MaxSocketsPerIp + MaxPending
      /\ Cardinality(At(phase', Ips, Admitted)) < MaxActiveSockets + MaxPending
  BY <1>2, <1>3, AdmissionAssumption
<1>5. (/\ \A ip \in Ips : Cardinality(At(phase, {ip}, Admitted)) < MaxSocketsPerIp + MaxPending
       /\ Cardinality(At(phase, Ips, Admitted)) < MaxActiveSockets + MaxPending)'
  BY <1>4 DEF At
<1>6. (OvershootIsInFlight <=>
        /\ \A ip \in Ips : Cardinality(At(phase, {ip}, Admitted)) < MaxSocketsPerIp + MaxPending
        /\ Cardinality(At(phase, Ips, Admitted)) < MaxActiveSockets + MaxPending)'
  BY AsAdmitted, PTL
<1> QED BY <1>5, <1>6

\* A handler that opens nothing.
LEMMA MoveKeepsInv ==
  ASSUME AdmissionInv, NEW s \in Sessions, NEW q \in Phases, Move(s, q),
         engineSessionsByIp' = Adjusted(engineSessionsByIp, s, q, SessionPhases),
         activeSocketsByIp' = Adjusted(activeSocketsByIp, s, q, Sockets),
         phase[s] \notin Sockets => q \notin Sockets,
         phase[s] \notin Admitted => q \notin Admitted
  PROVE  AdmissionInv'
BY MoveKeepsCounters, CapsKept, OvershootKept DEF AdmissionInv

\* What an admitted handshake adds to the counts.
LEMMA AdmitGrows ==
  ASSUME PhasesOK, NEW s \in Sessions, phase[s] = "none", Move(s, "pending"), NEW group
  PROVE  /\ Address[s] \in group
            => Cardinality(At(phase', group, Admitted))
                 = Cardinality(At(phase, group, Admitted)) + 1
         /\ Address[s] \notin group
            => Cardinality(At(phase', group, Admitted)) = Cardinality(At(phase, group, Admitted))
<1>1. \A t \in Sessions \ {s} : phase'[t] = phase[t] BY DEF PhasesOK, Move
<1>2. phase'[s] = "pending" BY DEF PhasesOK, Move
<1>3. phase[s] \notin Admitted /\ phase'[s] \in Admitted
  BY <1>2 DEF Admitted, SessionPhases
<1> DEFINE next == phase'
<1>4. /\ \A t \in Sessions \ {s} : next[t] = phase[t]
      /\ phase[s] \notin Admitted /\ next[s] \in Admitted
  BY <1>1, <1>3
<1> HIDE DEF next
<1>5. ASSUME Address[s] \in group
      PROVE  Cardinality(At(next, group, Admitted)) = Cardinality(At(phase, group, Admitted)) + 1
  <2>1. /\ Cardinality(At(next, group, Admitted)) \in Nat
        /\ Cardinality(At(phase, group, Admitted)) \in Nat
    BY CountAt
  <2> QED BY <1>4, <1>5, <2>1, CountGrows
<1>6. ASSUME Address[s] \notin group
      PROVE  Cardinality(At(next, group, Admitted)) = Cardinality(At(phase, group, Admitted))
  BY <1>4, <1>6, CountMove
<1> QED BY <1>5, <1>6 DEF next

\* A handshake request opens at most one engine session.
LEMMA HandshakeRequestKeepsInv ==
  ASSUME AdmissionInv, NEW s \in Sessions, HandshakeRequest(s)
  PROVE  AdmissionInv'
<1> DEFINE q == IF Allowed(Address[s], "handshake") /\ HasRoom(Address[s])
                THEN "pending" ELSE "none"
<1>1. PhasesOK /\ phase[s] = "none" /\ Cardinality(Pending) < MaxPending
  BY DEF HandshakeRequest, AdmissionInv
<1>2. Move(s, q) /\ q \in Phases BY DEF HandshakeRequest, Move, Phases
<1>3. UNCHANGED <<engineSessionsByIp, activeSocketsByIp>> BY DEF HandshakeRequest
<1>4. q # "none" => q = "pending" /\ HasRoom(Address[s]) OBVIOUS
<1> HIDE DEF q
<1>5. /\ engineSessionsByIp' = Adjusted(engineSessionsByIp, s, q, SessionPhases)
      /\ activeSocketsByIp' = Adjusted(activeSocketsByIp, s, q, Sockets)
  BY <1>1, <1>3, <1>4 DEF Adjusted, SessionPhases, Sockets
<1>6. PhasesOK' /\ CountersAreExact' BY <1>2, <1>5, MoveKeepsCounters
<1>7. SocketCapsHold'
  <2>1. q \notin Sockets BY <1>4 DEF Sockets
  <2> QED BY <1>2, <2>1, CapsKept
<1>8. OvershootIsInFlight'
  <2>1. CASE q = "none"
    <3>1. q \notin Admitted BY <2>1 DEF Admitted, SessionPhases
    <3> QED BY <1>2, <3>1, OvershootKept
  <2>2. CASE q = "pending"
    <3> DEFINE grown(ips) == Cardinality(At(phase', ips, Admitted))
    <3> DEFINE now(ips) == Cardinality(At(phase, ips, Admitted))
    <3> DEFINE sessions(ips) == Cardinality(At(phase, ips, SessionPhases))
    <3> DEFINE waiting(ips) == Cardinality(At(phase, ips, {"pending"}))
    <3>3. \A ips : /\ Address[s] \in ips => grown(ips) = now(ips) + 1
                   /\ Address[s] \notin ips => grown(ips) = now(ips)
      BY <1>1, <1>2, <2>2, AdmitGrows
    <3>4. \A ips : now(ips) = sessions(ips) + waiting(ips)
      BY CountBoth DEF Admitted, SessionPhases
    <3>5. \A ips : sessions(ips) \in Nat /\ waiting(ips) \in Nat BY CountAt
    <3>6. \A ips : waiting(ips) <= waiting(Ips)
      <4>1. \A ips : At(phase, ips, {"pending"}) \subseteq At(phase, Ips, {"pending"})
        BY AdmissionAssumption DEF At
      <4>2. IsFiniteSet(At(phase, Ips, {"pending"})) BY CountAt
      <4> QED BY <4>1, <4>2, FS_Subset
    <3>7. waiting(Ips) < MaxPending BY <1>1, AsCounts
    <3>8. sessions(Ips) < MaxActiveSockets /\ sessions({Address[s]}) < MaxSocketsPerIp
      <4>1. HasRoom(Address[s]) BY <1>4, <2>2
      <4>2. engineSessionsByIp[Address[s]] = sessions({Address[s]})
        BY AsCounts, AdmissionAssumption DEF AdmissionInv, CountersAreExact
      <4> QED BY <4>1, <4>2, AsCounts DEF HasRoom
    <3>9. \A ip \in Ips : now({ip}) < MaxSocketsPerIp + MaxPending
      BY AsAdmitted DEF AdmissionInv
    <3> HIDE DEF grown, now, sessions, waiting
    <3>10. grown(Ips) < MaxActiveSockets + MaxPending
      <4>1. grown(Ips) = sessions(Ips) + waiting(Ips) + 1
        BY <3>3, <3>4, <3>5, AdmissionAssumption
      <4> QED BY <4>1, <3>5, <3>7, <3>8, AdmissionAssumption
    <3>11. ASSUME NEW ip \in Ips PROVE grown({ip}) < MaxSocketsPerIp + MaxPending
      <4>1. CASE ip = Address[s]
        <5>1. grown({ip}) = sessions({ip}) + waiting({ip}) + 1
          BY <4>1, <3>3, <3>4, <3>5
        <5>2. waiting({ip}) <= waiting(Ips) BY <3>6
        <5>3. sessions({ip}) < MaxSocketsPerIp BY <4>1, <3>8
        <5> QED BY <5>1, <5>2, <5>3, <3>5, <3>7, AdmissionAssumption
      <4>2. CASE ip # Address[s]
        <5>1. grown({ip}) = now({ip}) BY <4>2, <3>3
        <5> QED BY <5>1, <3>9
      <4> QED BY <4>1, <4>2
    <3>12. (OvershootIsInFlight <=>
             /\ \A ip \in Ips : Cardinality(At(phase, {ip}, Admitted)) < MaxSocketsPerIp + MaxPending
             /\ Cardinality(At(phase, Ips, Admitted)) < MaxActiveSockets + MaxPending)'
      BY AsAdmitted, PTL
    <3>13. /\ \A ip \in Ips : Cardinality(At(phase', {ip}, Admitted)) < MaxSocketsPerIp + MaxPending
           /\ Cardinality(At(phase', Ips, Admitted)) < MaxActiveSockets + MaxPending
      BY <3>10, <3>11 DEF grown
    <3>14. (/\ \A ip \in Ips : Cardinality(At(phase, {ip}, Admitted)) < MaxSocketsPerIp + MaxPending
            /\ Cardinality(At(phase, Ips, Admitted)) < MaxActiveSockets + MaxPending)'
      BY <3>13 DEF At
    <3> QED BY <3>12, <3>14
  <2> QED BY <1>4, <2>1, <2>2
<1> QED BY <1>6, <1>7, <1>8 DEF AdmissionInv

\* A connection that is admitted turns one pending session into a full socket.
LEMMA ConnectionKeepsInv ==
  ASSUME AdmissionInv, NEW s \in Sessions, Connection(s)
  PROVE  AdmissionInv'
<1> DEFINE ip == Address[s]
<1> DEFINE accepted == Allowed(ip, "connect") /\ Welcome(ip)
<1> DEFINE q == IF accepted THEN "socket" ELSE "closing"
<1>1. PhasesOK /\ phase[s] \in {"fresh", "parked"} BY DEF Connection, AdmissionInv
<1>2. Move(s, q) /\ q \in Phases BY DEF Connection, Move, Phases
<1>3. /\ engineSessionsByIp' = engineSessionsByIp
      /\ activeSocketsByIp' = IF accepted THEN More(activeSocketsByIp, ip) ELSE activeSocketsByIp
  BY DEF Connection
<1>4. IF accepted THEN q = "socket" /\ Welcome(ip) ELSE q = "closing" OBVIOUS
<1> HIDE DEF accepted, q
<1>5. /\ engineSessionsByIp' = Adjusted(engineSessionsByIp, s, q, SessionPhases)
      /\ activeSocketsByIp' = Adjusted(activeSocketsByIp, s, q, Sockets)
  BY <1>1, <1>3, <1>4 DEF Adjusted, SessionPhases, Sockets
<1>6. PhasesOK' /\ CountersAreExact' BY <1>2, <1>5, MoveKeepsCounters
<1>7. OvershootIsInFlight'
  <2>1. phase[s] \in Admitted BY <1>1 DEF Admitted, SessionPhases
  <2> QED BY <1>2, <2>1, OvershootKept
<1>8. SocketCapsHold'
  <2>1. CASE ~accepted
    <3>1. q \notin Sockets BY <2>1, <1>4 DEF Sockets
    <3> QED BY <1>2, <3>1, CapsKept
  <2>2. CASE accepted
    <3>1. Welcome(ip) /\ q = "socket" BY <2>2, <1>4
    <3>2. ip \in Ips BY AdmissionAssumption
    <3>3. phase'[s] = "socket" /\ \A t \in Sessions \ {s} : phase'[t] = phase[t]
      BY <1>1, <1>2, <3>1 DEF PhasesOK, Move
    <3>4. \A jp \in Ips : Cardinality(Of(jp, {"socket"})') <= MaxSocketsPerIp
      <4>1. \A jp \in Ips : activeSocketsByIp'[jp] = Cardinality(Of(jp, {"socket"})')
        BY <1>6 DEF CountersAreExact
      <4>2. activeSocketsByIp \in [Ips -> Nat] BY <1>1 DEF PhasesOK
      <4>3. \A jp \in Ips : activeSocketsByIp[jp] <= MaxSocketsPerIp
        BY DEF AdmissionInv, CountersAreExact, SocketCapsHold
      <4>4. activeSocketsByIp' = [activeSocketsByIp EXCEPT ![ip] = activeSocketsByIp[ip] + 1]
        BY <1>3, <2>2 DEF More
      <4>5. activeSocketsByIp[ip] + 1 <= MaxSocketsPerIp BY <3>1 DEF Welcome
      <4>6. \A jp \in Ips : activeSocketsByIp'[jp] <= MaxSocketsPerIp
        BY <3>2, <4>2, <4>3, <4>4, <4>5
      <4> QED BY <4>1, <4>6
    <3>5. Cardinality(FullSockets') <= MaxActiveSockets
      <4>1. At(phase', Ips, Sockets) \subseteq At(phase, Ips, SessionPhases)
        <5>1. ASSUME NEW t \in Sessions, phase'[t] = "socket" PROVE phase[t] \in SessionPhases
          BY <5>1, <1>1, <3>3 DEF SessionPhases
        <5> QED BY <5>1 DEF At, Sockets
      <4>2. IsFiniteSet(At(phase, Ips, SessionPhases)) BY CountAt
      <4>3. Cardinality(At(phase', Ips, Sockets)) <= Cardinality(At(phase, Ips, SessionPhases))
        BY <4>1, <4>2, FS_Subset
      <4>4. Cardinality(At(phase, Ips, SessionPhases)) <= MaxActiveSockets
        BY <3>1, AsCounts DEF Welcome
      <4>5. /\ Cardinality(At(phase', Ips, Sockets)) \in Nat
            /\ Cardinality(At(phase, Ips, SessionPhases)) \in Nat
        BY CountAt
      <4>6. FullSockets' = At(phase', Ips, Sockets)
        BY AdmissionAssumption DEF FullSockets, At, Sockets
      <4> QED BY <4>3, <4>4, <4>5, <4>6, AdmissionAssumption
    <3> QED BY <3>4, <3>5 DEF SocketCapsHold
  <2> QED BY <2>1, <2>2
<1> QED BY <1>6, <1>7, <1>8 DEF AdmissionInv

\* Every step of the server's admission keeps the invariant.
LEMMA AdmissionInvInductive == AdmissionInv /\ [AdmissionNext]_allVars => AdmissionInv'
<1> SUFFICES ASSUME AdmissionInv, [AdmissionNext]_allVars PROVE AdmissionInv' OBVIOUS
<1>1. PhasesOK BY DEF AdmissionInv
<1>2. ASSUME NEW s \in Sessions, HandshakeRequest(s) PROVE AdmissionInv'
  BY <1>2, HandshakeRequestKeepsInv
<1>3. ASSUME NEW s \in Sessions, HandshakeFails(s) PROVE AdmissionInv'
  <2>1. Move(s, "none") /\ phase[s] = "pending" BY <1>3 DEF HandshakeFails, Move
  <2>2. /\ engineSessionsByIp' = Adjusted(engineSessionsByIp, s, "none", SessionPhases)
        /\ activeSocketsByIp' = Adjusted(activeSocketsByIp, s, "none", Sockets)
    BY <1>3, <2>1 DEF HandshakeFails, Adjusted, SessionPhases, Sockets
  <2> QED BY <2>1, <2>2, MoveKeepsInv DEF Phases, Sockets, Admitted
<1>4. ASSUME NEW s \in Sessions, EngineConnection(s) PROVE AdmissionInv'
  <2>1. Move(s, "fresh") /\ phase[s] = "pending" BY <1>4 DEF EngineConnection, Move
  <2>2. /\ engineSessionsByIp' = Adjusted(engineSessionsByIp, s, "fresh", SessionPhases)
        /\ activeSocketsByIp' = Adjusted(activeSocketsByIp, s, "fresh", Sockets)
    BY <1>4, <2>1 DEF EngineConnection, Adjusted, SessionPhases, Sockets
  <2> QED BY <2>1, <2>2, MoveKeepsInv DEF Phases, Sockets, Admitted
<1>5. ASSUME NEW s \in Sessions, HandshakeTimeout(s) PROVE AdmissionInv'
  <2>1. Move(s, "closing") /\ phase[s] = "fresh" BY <1>5 DEF HandshakeTimeout, Move
  <2>2. /\ engineSessionsByIp' = Adjusted(engineSessionsByIp, s, "closing", SessionPhases)
        /\ activeSocketsByIp' = Adjusted(activeSocketsByIp, s, "closing", Sockets)
    BY <1>5, <2>1 DEF HandshakeTimeout, Adjusted, SessionPhases, Sockets
  <2> QED BY <2>1, <2>2, MoveKeepsInv DEF Phases, Sockets, Admitted, SessionPhases
<1>6. ASSUME NEW s \in Sessions, EngineClose(s) PROVE AdmissionInv'
  <2>1. Move(s, "none") /\ phase[s] \in SessionPhases BY <1>6 DEF EngineClose, Move
  <2>2. /\ engineSessionsByIp' = Adjusted(engineSessionsByIp, s, "none", SessionPhases)
        /\ activeSocketsByIp' = Adjusted(activeSocketsByIp, s, "none", Sockets)
    BY <1>6, <2>1 DEF EngineClose, Adjusted, SessionPhases, Sockets
  <2> QED BY <2>1, <2>2, MoveKeepsInv DEF Phases, Sockets, Admitted, SessionPhases
<1>7. ASSUME NEW s \in Sessions, Connection(s) PROVE AdmissionInv' BY <1>7, ConnectionKeepsInv
<1>8. ASSUME NEW s \in Sessions, SocketDisconnect(s) PROVE AdmissionInv'
  <2>1. Move(s, "parked") /\ phase[s] = "socket" BY <1>8 DEF SocketDisconnect, Move
  <2>2. /\ engineSessionsByIp' = Adjusted(engineSessionsByIp, s, "parked", SessionPhases)
        /\ activeSocketsByIp' = Adjusted(activeSocketsByIp, s, "parked", Sockets)
    BY <1>8, <2>1 DEF SocketDisconnect, Adjusted, SessionPhases, Sockets
  <2> QED BY <2>1, <2>2, MoveKeepsInv DEF Phases, Sockets, Admitted, SessionPhases
<1>9. ASSUME NEW s \in Sessions, SocketKicked(s) PROVE AdmissionInv'
  <2>1. Move(s, "closing") /\ phase[s] = "socket" BY <1>9 DEF SocketKicked, Move
  <2>2. /\ engineSessionsByIp' = Adjusted(engineSessionsByIp, s, "closing", SessionPhases)
        /\ activeSocketsByIp' = Adjusted(activeSocketsByIp, s, "closing", Sockets)
    BY <1>9, <2>1 DEF SocketKicked, Adjusted, SessionPhases, Sockets
  <2> QED BY <2>1, <2>2, MoveKeepsInv DEF Phases, Sockets, Admitted, SessionPhases
<1>10. CASE UNCHANGED admissionVars
  BY <1>10 DEF admissionVars, AdmissionInv, PhasesOK, CountersAreExact, SocketCapsHold,
               OvershootIsInFlight, Of, FullSockets, ClientsCount, Pending
<1> QED BY <1>2, <1>3, <1>4, <1>5, <1>6, <1>7, <1>8, <1>9, <1>10
        DEF AdmissionNext, SocketEvent, allVars

\* A full socket has a session.
LEMMA SocketsHaveSessions ==
  AdmissionInv => \A ip \in Ips : activeSocketsByIp[ip] <= engineSessionsByIp[ip]
<1> SUFFICES ASSUME AdmissionInv, NEW ip \in Ips
             PROVE  activeSocketsByIp[ip] <= engineSessionsByIp[ip]
  OBVIOUS
<1>1. At(phase, {ip}, Sockets) \subseteq At(phase, {ip}, SessionPhases)
  BY DEF At, Sockets, SessionPhases
<1>2. IsFiniteSet(At(phase, {ip}, SessionPhases)) BY CountAt
<1>3. Cardinality(At(phase, {ip}, Sockets)) <= Cardinality(At(phase, {ip}, SessionPhases))
  BY <1>1, <1>2, FS_Subset
<1> QED BY <1>3, AsCounts DEF AdmissionInv, CountersAreExact, Sockets

\* Counters, caps and overshoot in every reachable state.
THEOREM AdmissionCorrect == AdmissionSpec => []AdmissionInv
BY InitHolds, AdmissionInvInductive, PTL DEF AdmissionSpec

\* Every variable keeps its type, and no address has more full sockets than
\* sessions.
THEOREM AdmissionTyped == AdmissionSpec => []AdmissionTypeOK
<1>1. AdmissionSpec => []LimiterInv BY LimiterBehavesHolds, LimiterCorrect DEF LimiterBehaves
<1>2. LimiterInv /\ AdmissionInv => AdmissionTypeOK
  BY SocketsHaveSessions DEF LimiterInv, AdmissionInv, PhasesOK, AdmissionTypeOK
<1> QED BY <1>1, <1>2, AdmissionCorrect, PTL

\* For every number of sessions and addresses: both counters of an address are
\* exactly its open sessions and its full sockets.
THEOREM CountersAreExactHolds == AdmissionSpec => []CountersAreExact
BY AdmissionCorrect, PTL DEF AdmissionInv

\* Full sockets never exceed the cap of their address nor that of the process.
THEOREM SocketCapsHoldForAll == AdmissionSpec => []SocketCapsHold
BY AdmissionCorrect, PTL DEF AdmissionInv

\* Sessions exceed the caps by less than the handshakes that may be in flight.
THEOREM OvershootIsInFlightHolds == AdmissionSpec => []OvershootIsInFlight
BY AdmissionCorrect, PTL DEF AdmissionInv

=============================================================================
